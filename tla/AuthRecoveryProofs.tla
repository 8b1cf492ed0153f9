------------------------- MODULE AuthRecoveryProofs ------------------------
(***************************************************************************)
(* What recovering from a rejected login may cost and do, for any number   *)
(* of threads, commands, profiles and logins and any limits.  A call of    *)
(* RpcRecovery does a bounded amount of work and never repeats a request   *)
(* that may have been carried out; the browsers that calls launch have the *)
(* consent of RecoveryBudget, which spaces them, caps their failures and   *)
(* lets calls share them; and a command that has launched one              *)
(* (BrowserLogins) closes it, and meddles with the browsers of other       *)
(* profiles only where ports have been mixed up, or where one has not      *)
(* answered.                                                               *)
(*                                                                         *)
(* Each part has one inductive invariant: the record of a call says how    *)
(* many requests and browsers it has behind it at the place it stands at;  *)
(* the budget is that of the last attempt; and what a command holds and    *)
(* talks to is on its port.                                                *)
(***************************************************************************)
EXTENDS RpcRecovery, RecoveryBudget, BrowserLogins, SequenceTheorems, WellFoundedInduction,
        TLAPS

S == MaxTries + 1

\* The requests sent before the retry counter of the present frame began to count.
Base(r) ==
    IF ~r.retry THEN 0
    ELSE IF ~r.guarded THEN 3 * S
    ELSE IF r.deep THEN 2 * S ELSE S

\* Where a frame may stand: before its recovery (retry), in it, and after it (deep).
Staged(r) ==
    /\ ~r.retry => ~r.deep /\ ~r.guarded /\ r.pc \in {"idle", "post", "refresh", "extracted", "writeback"}
    /\ r.retry /\ ~r.deep =>
        r.pc \in {"idle", "load", "launch", "browser", "reextract", "extracted", "writeback"}
            \cup (IF r.guarded THEN {"post"} ELSE {})
    /\ r.deep => r.pc \in {"idle", "post"}

Charged(r) ==
    /\ r.pc = "post" => r.tries <= MaxTries /\ r.posts <= Base(r) + r.tries
    /\ r.pc \notin {"post", "idle"} =>
        r.posts <= (IF ~r.retry THEN S ELSE IF r.guarded THEN 2 * S ELSE 3 * S)
    /\ r.posts <= 4 * S

Launched(r) ==
    /\ ~r.retry => r.browsers = 0
    /\ r.guarded /\ ~r.deep /\ r.pc \in {"post", "load", "launch"} => r.browsers = 0
    /\ r.guarded => r.browsers <= 1
    /\ ~r.guarded /\ ~r.deep /\ r.pc \in {"load", "launch"} => r.browsers <= 1
    /\ r.browsers <= 2

\* No request is outstanding that may not be repeated.
Repeatable(r) ==
    r.pc # "idle" => "lost" \notin r.heard /\ (r.replay \/ "server" \notin r.heard)

Good(r) == r \in Call /\ Staged(r) /\ Charged(r) /\ Launched(r) /\ Repeatable(r)

IInv == TypeOK /\ \A c \in Calls : Good(call[c])

-----------------------------------------------------------------------------
LEMMA Triers == MaxTries \in Nat /\ \A answer : Limit(answer) \in Nat /\ Limit(answer) <= MaxTries
BY RetriesAssumption DEF MaxTries, Limit

\* What happens on the disk leaves the control of a call alone.
LEMMA MovedGood ==
    ASSUME NEW r, Good(r), NEW b \in BOOLEAN
    PROVE  Good([r EXCEPT !.moved = b])
BY Triers DEF Good, Call, Staged, Charged, Launched, Repeatable, Base, S

LEMMA EndedGood ==
    ASSUME NEW r \in Call, NEW end \in Ends, r.posts <= 4 * S, Launched(r),
           ~r.retry => ~r.deep /\ ~r.guarded
    PROVE  Good(Ended(r, end))
BY Triers DEF Good, Ended, Reported, Call, Ends, Answers, Places, Staged, Charged, Launched,
              Repeatable, Base, S

LEMMA DeepGood ==
    ASSUME NEW r, Good(r), r.pc \notin {"idle", "post"}, r.retry
    PROVE  Good(Deep(r))
<1> DEFINE q == Deep(r)
<1>1. q \in Call BY DEF Good, Deep, Call, Places
<1>2. /\ q.pc = "post" /\ q.tries = 0 /\ q.retry /\ q.deep
      /\ q.guarded = r.guarded /\ q.posts = r.posts /\ q.browsers = r.browsers
      /\ q.heard = r.heard /\ q.replay = r.replay
  BY DEF Good, Deep, Call
<1>3. r.posts \in Nat /\ r.browsers \in Nat /\ r.guarded \in BOOLEAN /\ r.replay \in BOOLEAN
  BY DEF Good, Call
<1>4. r.posts <= Base(q) /\ Base(q) <= 3 * S
  BY <1>2, <1>3, Triers DEF Good, Charged, Base, S
<1> HIDE DEF q
<1>5. Staged(q) /\ Launched(q) /\ Repeatable(q)
  BY <1>2, <1>3 DEF Good, Staged, Launched, Repeatable
<1>6. Charged(q)
  BY <1>2, <1>3, <1>4, Triers DEF Charged, Base, S
<1> QED BY <1>1, <1>5, <1>6 DEF Good, q

LEMMA AgainGood ==
    ASSUME NEW r, Good(r), r.pc \in {"refresh", "extracted", "writeback"}, ~r.retry
    PROVE  Good(Again(r))
<1> DEFINE q == Again(r)
<1>1. q \in Call BY DEF Good, Again, Call, Places
<1>2. /\ q.pc = "post" /\ q.tries = 0 /\ q.retry /\ q.guarded
      /\ q.deep = r.deep /\ q.posts = r.posts /\ q.browsers = r.browsers
      /\ q.heard = r.heard /\ q.replay = r.replay
  BY DEF Good, Again, Call
<1>3. r.posts \in Nat /\ ~r.deep /\ r.browsers = 0 /\ r.replay \in BOOLEAN
  BY DEF Good, Call, Staged, Launched
<1>4. r.posts <= Base(q) /\ Base(q) <= 3 * S
  BY <1>2, <1>3, Triers DEF Good, Charged, Base, S
<1> HIDE DEF q
<1>5. Staged(q) /\ Launched(q) /\ Repeatable(q)
  BY <1>2, <1>3 DEF Good, Staged, Launched, Repeatable
<1>6. Charged(q)
  BY <1>2, <1>3, <1>4, Triers DEF Charged, Base, S
<1> QED BY <1>1, <1>5, <1>6 DEF Good, q

\* A place change in the middle of a recovery.
LEMMA WithPlace ==
    ASSUME NEW r, Good(r), NEW p \in {"extracted", "writeback", "reextract"},
           r.pc \notin {"idle", "post"},
           ~r.retry => p # "reextract"
    PROVE  Good([r EXCEPT !.pc = p])
BY Triers DEF Good, Call, Places, Staged, Charged, Launched, Repeatable, Base, S

\* The answer of a POST, whatever it is, leads to a good place.
LEMMA AnswerGood ==
    ASSUME NEW r, Good(r), r.pc = "post", NEW a \in Answers
    PROVE  Good(AfterAnswer([r EXCEPT !.posts = @ + 1, !.heard = @ \cup ({a} \cap Ambiguous)], a))
<1> DEFINE q == [r EXCEPT !.posts = @ + 1, !.heard = @ \cup ({a} \cap Ambiguous)]
<1>1. q \in Call
  <2>1. r \in Call /\ r.posts + 1 \in Nat /\ r.heard \cup ({a} \cap Ambiguous) \in SUBSET Ambiguous
    BY DEF Good, Call
  <2> QED BY <2>1 DEF Call
<1>2. /\ q.pc = "post" /\ q.posts = r.posts + 1 /\ q.tries = r.tries /\ q.retry = r.retry
      /\ q.deep = r.deep /\ q.guarded = r.guarded /\ q.browsers = r.browsers
      /\ q.replay = r.replay /\ q.heard = r.heard \cup ({a} \cap Ambiguous)
  BY DEF Good, Call
<1>3. /\ r.posts \in Nat /\ r.tries \in Nat /\ r.browsers \in Nat /\ r.retry \in BOOLEAN
      /\ r.deep \in BOOLEAN /\ r.guarded \in BOOLEAN /\ r.replay \in BOOLEAN
  BY DEF Good, Call
<1>4. Staged(q) /\ Launched(q)
  BY <1>2, <1>3 DEF Good, Staged, Launched
<1>5. /\ "lost" \in q.heard => a = "lost"
      /\ "server" \in q.heard => q.replay \/ a = "server"
  BY <1>2 DEF Good, Repeatable
<1>6. /\ q.tries \in Nat /\ q.tries <= MaxTries
      /\ q.posts \in Nat /\ q.posts <= Base(q) + q.tries + 1
      /\ S \in Nat /\ Base(q) + q.tries + 1 <= Base(q) + S
  BY <1>2, <1>3, Triers DEF Good, Charged, Base, S
<1>7. q.posts <= 4 * S
  BY <1>6, Triers DEF Base, S
<1> SUFFICES Good(AfterAnswer(q, a)) OBVIOUS
<1> HIDE DEF q
<1>8. CASE Retried(q, a)
  <2>1. AfterAnswer(q, a) = [q EXCEPT !.tries = @ + 1] BY <1>8 DEF AfterAnswer
  <2>2. q.tries + 1 <= MaxTries
    BY <1>6, <1>8, Triers DEF Retried
  <2>3. a # "lost" /\ (a = "server" => q.replay) BY <1>8 DEF Retried
  <2> DEFINE t == [q EXCEPT !.tries = @ + 1]
  <2>4. t \in Call BY <1>1 DEF Call
  <2>5. /\ t.pc = q.pc /\ t.posts = q.posts /\ t.tries = q.tries + 1 /\ t.retry = q.retry
        /\ t.deep = q.deep /\ t.guarded = q.guarded /\ t.browsers = q.browsers
        /\ t.replay = q.replay /\ t.heard = q.heard
    BY <1>1 DEF Call
  <2> HIDE DEF t
  <2>6. Base(t) = Base(q) BY <2>5 DEF Base
  <2>7. Base(q) \in Nat BY <1>6 DEF Base
  <2>8. t.posts <= Base(t) + t.tries BY <1>6, <2>5, <2>6, <2>7
  <2>9. Charged(t) BY <1>2, <1>7, <2>2, <2>5, <2>8 DEF Charged
  <2>10. Staged(t) /\ Launched(t) /\ Repeatable(t)
    BY <1>4, <1>5, <2>3, <2>5 DEF Staged, Launched, Repeatable
  <2> QED BY <2>1, <2>4, <2>9, <2>10 DEF Good, t
<1>9. CASE ~Retried(q, a) /\ a = "auth"
  <2>1. AfterAnswer(q, a) = Recover(q) BY <1>9 DEF AfterAnswer
  <2>2. Repeatable([q EXCEPT !.pc = "refresh"]) /\ Repeatable([q EXCEPT !.pc = "load"])
    BY <1>1, <1>5, <1>9 DEF Repeatable, Call
  <2>3. CASE ~q.retry
    <3>1. q.posts <= S BY <1>6, <2>3 DEF Base
    <3> DEFINE t == [q EXCEPT !.pc = "refresh"]
    <3>2. t \in Call BY <1>1 DEF Call, Places
    <3>3. /\ t.pc = "refresh" /\ t.retry = q.retry /\ t.deep = q.deep /\ t.guarded = q.guarded
          /\ t.posts = q.posts /\ t.browsers = q.browsers
      BY <1>1 DEF Call
    <3>4. AfterAnswer(q, a) = t BY <2>1, <2>3 DEF Recover
    <3>5. Repeatable(t) BY <2>2
    <3> HIDE DEF t
    <3>6. Staged(t) /\ Charged(t) /\ Launched(t)
      BY <1>4, <1>7, <2>3, <3>1, <3>3 DEF Staged, Charged, Launched
    <3> QED BY <3>2, <3>4, <3>5, <3>6 DEF Good
  <2>4. CASE q.retry /\ ~q.deep
    <3>1. q.guarded BY <1>2, <1>4, <2>4 DEF Staged
    <3>2. q.posts <= 2 * S BY <1>6, <2>4, <3>1 DEF Base
    <3> DEFINE t == [q EXCEPT !.pc = "load"]
    <3>3. t \in Call BY <1>1 DEF Call, Places
    <3>4. /\ t.pc = "load" /\ t.retry = q.retry /\ t.deep = q.deep /\ t.guarded = q.guarded
          /\ t.posts = q.posts /\ t.browsers = q.browsers
      BY <1>1 DEF Call
    <3>5. AfterAnswer(q, a) = t BY <2>1, <2>4 DEF Recover
    <3>6. Repeatable(t) BY <2>2
    <3> HIDE DEF t
    <3>7. Staged(t) /\ Charged(t) /\ Launched(t)
      BY <1>2, <1>4, <1>7, <2>4, <3>1, <3>2, <3>4 DEF Staged, Charged, Launched
    <3> QED BY <3>3, <3>5, <3>6, <3>7 DEF Good
  <2>5. CASE q.retry /\ q.deep
    <3>1. Good(Ended(q, "auth"))
      BY EndedGood, <1>1, <1>4, <1>7, <2>5 DEF Ends, Answers
    <3> QED BY <2>1, <2>5, <3>1 DEF Recover
  <2> QED BY <2>3, <2>4, <2>5, <1>1 DEF Call
<1>10. CASE ~Retried(q, a) /\ a \in {"ok", "quota", "rpc"}
  <2>1. AfterAnswer(q, a) = Ended(q, a) BY <1>10 DEF AfterAnswer
  <2>2. Good(Ended(q, a))
    BY EndedGood, <1>1, <1>4, <1>7 DEF Ends, Staged
  <2> QED BY <2>1, <2>2
<1>11. CASE ~Retried(q, a) /\ a \notin {"auth", "ok", "quota", "rpc"}
  <2>1. AfterAnswer(q, a) = Raise(q, a) BY <1>11 DEF AfterAnswer
  <2>2. Good(Ended(q, a)) /\ Good(Ended(q, "transient"))
    BY EndedGood, <1>1, <1>4, <1>7 DEF Ends, Staged
  <2>3. CASE q.guarded /\ a \in Caught /\ ~Unreachable(a)
    <3> DEFINE t == [q EXCEPT !.pc = "load", !.retry = TRUE, !.deep = FALSE, !.guarded = FALSE]
    <3>1. Raise(q, a) = t BY <2>3 DEF Raise
    <3>2. t \in Call BY <1>1 DEF Call, Places
    <3>3. /\ t.pc = "load" /\ t.retry /\ ~t.deep /\ ~t.guarded /\ t.posts = q.posts
          /\ t.browsers = q.browsers /\ t.replay = q.replay /\ t.heard = q.heard
      BY <1>1 DEF Call
    <3> HIDE DEF t
    <3>4. q.posts <= 3 * S BY <1>6, <2>3 DEF Base
    <3>5. Charged(t) BY <1>7, <3>3, <3>4 DEF Charged
    <3>6. q.browsers <= 1 /\ q.browsers \in Nat BY <1>4, <1>1, <2>3 DEF Launched, Call
    <3>7. Staged(t) /\ Launched(t) BY <3>3, <3>6 DEF Staged, Launched
    <3>8. a # "lost" /\ a # "server" BY <2>3 DEF Unreachable
    <3>9. Repeatable(t) BY <1>5, <3>3, <3>8 DEF Repeatable
    <3> QED BY <2>1, <3>1, <3>2, <3>5, <3>7, <3>9 DEF Good, t
  <2> QED BY <2>1, <2>2, <2>3 DEF Raise
<1> QED BY <1>8, <1>9, <1>10, <1>11 DEF q

-----------------------------------------------------------------------------
\* The step of AmbiguousNeverResent.
NoResend ==
    \A c \in Calls : call'[c].posts > call[c].posts =>
        /\ "lost" \notin call[c].heard
        /\ call[c].replay \/ "server" \notin call[c].heard

\* What every step does to the calls.
CallsKept == call' \in [Calls -> Call] /\ (\A c \in Calls : Good(call'[c])) /\ NoResend

\* A call may send only from "post".
Quiet(c, rec) == rec.posts <= call[c].posts \/ call[c].pc = "post"

LEMMA PutKeeps ==
    ASSUME IInv, NEW c \in Calls, NEW rec, Good(rec), Quiet(c, rec), Put(c, rec)
    PROVE  CallsKept
<1>1. rec \in Call /\ call \in [Calls -> Call] /\ \A d \in Calls : Good(call[d])
  BY DEF Good, IInv, TypeOK
<1>2. call' = [call EXCEPT ![c] = rec] BY DEF Put
<1>3. \A d \in Calls : call'[d] = IF d = c THEN rec ELSE call[d] BY <1>1, <1>2
<1>4. \A d \in Calls : Good(call'[d]) BY <1>1, <1>3
<1>5. \A d \in Calls : call[d].posts \in Nat /\ rec.posts \in Nat BY <1>1 DEF Call
<1>6. NoResend
  <2> SUFFICES ASSUME NEW d \in Calls, call'[d].posts > call[d].posts
               PROVE  "lost" \notin call[d].heard /\ (call[d].replay \/ "server" \notin call[d].heard)
    BY DEF NoResend
  <2>1. d = c BY <1>3, <1>5
  <2>2. call[c].pc = "post" BY <1>3, <1>5, <2>1 DEF Quiet
  <2> QED BY <1>1, <2>1, <2>2 DEF Good, Repeatable
<1> QED BY <1>1, <1>2, <1>4, <1>6 DEF CallsKept

LEMMA WriteKeeps ==
    ASSUME IInv, NEW c \in Calls, NEW rec, Good(rec), Quiet(c, rec), NEW cookies, NEW token,
           Write(cookies, token, c, rec)
    PROVE  CallsKept
<1>1. rec \in Call /\ call \in [Calls -> Call] /\ \A d \in Calls : Good(call[d])
  BY DEF Good, IInv, TypeOK
<1>2. call' = [d \in Calls |-> IF d = c THEN rec ELSE [call[d] EXCEPT !.moved = TRUE]] BY DEF Write
<1>3. \A d \in Calls : Good([call[d] EXCEPT !.moved = TRUE]) BY <1>1, MovedGood
<1>4. \A d \in Calls : Good(call'[d]) BY <1>2, <1>3
<1>5. \A d \in Calls : [call[d] EXCEPT !.moved = TRUE].posts = call[d].posts BY <1>1 DEF Call
<1>6. \A d \in Calls : call[d].posts \in Nat /\ rec.posts \in Nat BY <1>1 DEF Call
<1>7. NoResend
  <2> SUFFICES ASSUME NEW d \in Calls, call'[d].posts > call[d].posts
               PROVE  "lost" \notin call[d].heard /\ (call[d].replay \/ "server" \notin call[d].heard)
    BY DEF NoResend
  <2>1. d = c BY <1>2, <1>5, <1>6
  <2>2. call[c].pc = "post" BY <1>2, <1>6, <2>1 DEF Quiet
  <2> QED BY <1>1, <2>1, <2>2 DEF Good, Repeatable
<1> QED BY <1>2, <1>4, <1>7 DEF CallsKept, Good

\* The disk is written by another process.
LEMMA DisturbedKeeps ==
    ASSUME IInv, Disturbed
    PROVE  CallsKept
<1>1. call \in [Calls -> Call] /\ \A d \in Calls : Good(call[d]) BY DEF IInv, TypeOK
<1>2. \A d \in Calls : Good([call[d] EXCEPT !.moved = TRUE]) BY <1>1, MovedGood
<1>3. \A d \in Calls : [call[d] EXCEPT !.moved = TRUE].posts = call[d].posts /\ call[d].posts \in Nat
  BY <1>1 DEF Call
<1>4. \A d \in Calls : call'[d] = [call[d] EXCEPT !.moved = TRUE] BY DEF Disturbed
<1>5. NoResend
  <2> SUFFICES ASSUME NEW d \in Calls, call'[d].posts > call[d].posts
               PROVE  FALSE
    BY DEF NoResend
  <2>1. call'[d].posts = call[d].posts /\ call[d].posts \in Nat BY <1>3, <1>4
  <2> QED BY <2>1
<1> QED BY <1>2, <1>5 DEF CallsKept, Disturbed, Good

LEMMA UntouchedKeeps ==
    ASSUME IInv, UNCHANGED call
    PROVE  CallsKept
<1>1. \A d \in Calls : call[d].posts \in Nat BY DEF IInv, TypeOK, Call
<1> QED BY <1>1 DEF IInv, TypeOK, CallsKept, NoResend

-----------------------------------------------------------------------------
\* What a step does to the rest of the state.
WorldOK ==
    /\ live \in 1..(MaxLogins + 1) /\ newest \in Logins
    /\ disk \in [cookies : Logins, token : Tokens]
    /\ client \in [cookies : Logins, token : Tokens, jar : 0..MaxLogins, synced : BOOLEAN]

StepKept == CallsKept /\ WorldOK'

\* The records that the steps of a recovery leave.
LEMMA SamePosts ==
    ASSUME NEW r \in Call
    PROVE  /\ \A end \in Ends : Ended(r, end).posts = r.posts
           /\ Deep(r).posts = r.posts /\ Again(r).posts = r.posts /\ Resumed(r).posts = r.posts
           /\ \A token : Recovered(r, token).posts = r.posts
           /\ r.posts \in Nat
BY DEF Call, Ended, Deep, Again, Resumed, Recovered

\* The end of a call in recovery.
LEMMA EndsGood ==
    ASSUME NEW r, Good(r), NEW end \in Ends
    PROVE  Good(Ended(r, end))
BY EndedGood DEF Good, Staged, Charged

LEMMA ResumedGood ==
    ASSUME NEW r, Good(r), r.pc = "writeback"
    PROVE  Good(Resumed(r))
<1>1. r.retry \in BOOLEAN BY DEF Good, Call
<1>2. CASE r.retry BY <1>2, DeepGood DEF Resumed
<1>3. CASE ~r.retry BY <1>3, AgainGood DEF Resumed
<1> QED BY <1>1, <1>2, <1>3

LEMMA RecoveredGood ==
    ASSUME NEW r, Good(r), r.pc \in {"load", "browser"}, NEW token
    PROVE  Good(Recovered(r, token))
<1>1. r.retry BY DEF Good, Staged, Call
<1>2. Good(Deep(r)) BY <1>1, DeepGood
<1>3. Good([r EXCEPT !.pc = "reextract"]) BY <1>1, WithPlace
<1> QED BY <1>2, <1>3 DEF Recovered

-----------------------------------------------------------------------------
\* One lemma per kind of step.

\* The HTTP client is closed.
LEMMA Closed ==
    ASSUME WorldOK
    PROVE  [client EXCEPT !.jar = 0] \in
               [cookies : Logins, token : Tokens, jar : 0..MaxLogins, synced : BOOLEAN]
<1>1. 0 \in 0..MaxLogins BY LoginsAssumption
<1> QED BY <1>1 DEF WorldOK

LEMMA WorldIsOK == ASSUME IInv PROVE WorldOK
BY DEF IInv, TypeOK, WorldOK

LEMMA StartKeeps ==
    ASSUME IInv, NEW c \in Calls, NEW replay \in Replays, Start(c, replay)
    PROVE  StepKept
<1>1. Frame(replay) \in Call
  BY ReplaysAssumption, LoginsAssumption DEF Frame, Call, Places, Ends, Answers, Logins
<1>2. Good(Frame(replay))
  BY <1>1, Triers DEF Good, Frame, Staged, Charged, Launched, Repeatable, Base, S
<1>3. Quiet(c, Frame(replay))
  BY DEF Quiet, Frame, IInv, TypeOK, Call
<1>4. CallsKept BY <1>2, <1>3, PutKeeps DEF Start
<1> QED BY <1>4 DEF StepKept, Start, WorldOK, IInv, TypeOK

LEMMA PostKeeps ==
    ASSUME IInv, NEW c \in Calls, NEW answer \in Answers, Post(c, answer)
    PROVE  StepKept
<1> DEFINE rec == AfterAnswer([call[c] EXCEPT !.posts = @ + 1,
                                          !.heard = @ \cup ({answer} \cap Ambiguous)], answer)
<1>1. Good(call[c]) /\ call[c].pc = "post" BY DEF IInv, Post
<1>2. Good(rec) BY <1>1, AnswerGood
<1>3. Put(c, rec) BY DEF Post
<1>4. Quiet(c, rec) BY <1>1 DEF Quiet
<1> HIDE DEF rec
<1>5. CallsKept BY <1>2, <1>3, <1>4, PutKeeps
<1>6. Jar \in 0..MaxLogins BY DEF Jar, IInv, TypeOK, Logins
<1> QED BY <1>5, <1>6 DEF StepKept, Post, WorldOK, IInv, TypeOK

LEMMA FetchKeeps ==
    ASSUME IInv, NEW c \in Calls, NEW page \in {"ok", "expired", "odd", "unreachable"},
           Fetch(c, page)
    PROVE  StepKept
<1> DEFINE r == call[c]
<1>1. Good(r) /\ r \in Call /\ r.pc \in {"refresh", "reextract"} BY DEF IInv, Fetch, Good
<1>2. client.cookies \in Logins BY DEF IInv, TypeOK
<1>3. WorldOK'
  <2>1. client' = client \/ client' = [client EXCEPT !.jar = 0] BY DEF Fetch
  <2>2. live' = live /\ newest' = newest /\ disk' = disk BY DEF Fetch
  <2> QED BY <2>1, <2>2, WorldIsOK, Closed DEF WorldOK
<1> HIDE DEF r
<1>4. CASE page = "ok"
  <2> DEFINE t == [r EXCEPT !.seen = client.cookies]
  <2>1. t \in Call /\ t.pc = r.pc /\ t.retry = r.retry /\ t.deep = r.deep /\ t.guarded = r.guarded
        /\ t.tries = r.tries /\ t.posts = r.posts /\ t.browsers = r.browsers
        /\ t.heard = r.heard /\ t.replay = r.replay
    BY <1>1, <1>2 DEF Call
  <2> HIDE DEF t
  <2>2. Base(t) = Base(r) BY <2>1 DEF Base
  <2>3. Good(t) BY <1>1, <2>1, <2>2 DEF Good, Staged, Charged, Launched, Repeatable
  <2>4. Good([t EXCEPT !.pc = "extracted"]) BY <1>1, <2>1, <2>3, WithPlace
  <2> DEFINE u == [t EXCEPT !.pc = "extracted"]
  <2>5. u.posts = r.posts /\ r.posts \in Nat BY <2>1, <1>1 DEF Call
  <2>6. u = [r EXCEPT !.pc = "extracted", !.seen = client.cookies] BY <1>1 DEF t, Call
  <2>7. Put(c, u) BY <1>4, <2>6 DEF Fetch, r
  <2>8. Quiet(c, u) BY <2>5 DEF Quiet, r
  <2> HIDE DEF u
  <2>9. CallsKept BY <2>4, <2>7, <2>8, PutKeeps DEF u
  <2> QED BY <2>9, <1>3 DEF StepKept
<1>5. CASE page # "ok" /\ r.pc = "reextract"
  <2>1. r.retry BY <1>1, <1>5 DEF Good, Staged, Call
  <2>2. Good(Deep(r)) BY <1>1, <1>5, <2>1, DeepGood
  <2>3. Put(c, Deep(r)) BY <1>5 DEF Fetch, r
  <2>4. Quiet(c, Deep(r)) BY <1>1, SamePosts DEF Quiet, r
  <2> QED BY <2>2, <2>3, <2>4, <1>3, PutKeeps DEF StepKept
<1>6. CASE page = "unreachable" /\ r.pc = "refresh"
  <2>1. Good(Ended(r, "transient")) BY <1>1, EndsGood DEF Ends
  <2>2. Put(c, Ended(r, "transient")) BY <1>6 DEF Fetch, r
  <2>3. Quiet(c, Ended(r, "transient")) BY <1>1, SamePosts DEF Quiet, r, Ends
  <2> QED BY <2>1, <2>2, <2>3, <1>3, PutKeeps DEF StepKept
<1>7. CASE page \in {"expired", "odd"} /\ r.pc = "refresh"
  <2> DEFINE t == [r EXCEPT !.pc = "load", !.retry = TRUE]
  <2>1. t \in Call BY <1>1 DEF Call, Places
  <2>2. t.pc = "load" /\ t.retry /\ t.deep = r.deep /\ t.guarded = r.guarded
        /\ t.posts = r.posts /\ t.browsers = r.browsers /\ t.heard = r.heard /\ t.replay = r.replay
    BY <1>1 DEF Call
  <2>3. Put(c, t) BY <1>7 DEF Fetch, r
  <2> HIDE DEF t
  <2>4. ~r.retry /\ r.posts \in Nat BY <1>1, <1>7 DEF Good, Staged, Call
  <2>5. ~t.deep /\ ~t.guarded /\ t.browsers = 0 BY <1>1, <2>2, <2>4 DEF Good, Staged, Launched
  <2>6. t.posts <= S BY <1>1, <1>7, <2>2, <2>4 DEF Good, Charged
  <2>7. Charged(t) BY <2>2, <2>4, <2>5, <2>6, Triers DEF Charged, S
  <2>8. Staged(t) /\ Launched(t) BY <2>2, <2>5 DEF Staged, Launched
  <2>9. Repeatable(t) BY <1>1, <1>7, <2>2 DEF Good, Repeatable
  <2>10. Quiet(c, t) BY <2>2, <2>4 DEF Quiet, r
  <2> QED BY <2>1, <2>3, <2>7, <2>8, <2>9, <2>10, <1>3, PutKeeps DEF StepKept, Good
<1> QED BY <1>1, <1>4, <1>5, <1>6, <1>7

LEMMA ExtractKeeps ==
    ASSUME IInv, NEW c \in Calls, NEW token \in {"fresh", "stale"}, Extract(c, token)
    PROVE  StepKept
<1> DEFINE r == call[c]
<1> DEFINE t == [r EXCEPT !.pc = "writeback"]
<1>1. Good(r) /\ r \in Call /\ r.pc = "extracted" BY DEF IInv, Extract, Good
<1>2. Good(t) BY <1>1, WithPlace
<1>3. Put(c, t) BY DEF Extract
<1>4. t.posts = r.posts /\ r.posts \in Nat /\ r.seen \in Logins BY <1>1 DEF Call
<1>5. Quiet(c, t) BY <1>4 DEF Quiet
<1>6. WorldOK' BY <1>4 DEF Extract, WorldOK, IInv, TypeOK, Tokens
<1> HIDE DEF t, r
<1> QED BY <1>2, <1>3, <1>5, <1>6, PutKeeps DEF StepKept

LEMMA WriteBackKeeps ==
    ASSUME IInv, NEW c \in Calls, WriteBack(c)
    PROVE  StepKept
<1>1. Good(call[c]) /\ call[c] \in Call /\ call[c].pc = "writeback" BY DEF IInv, WriteBack, Good
<1>2. Good(Resumed(call[c])) BY <1>1, ResumedGood
<1>3. Quiet(c, Resumed(call[c])) BY <1>1, SamePosts DEF Quiet
<1>4. WorldOK'
  <2>1. WorldOK /\ live' = live /\ newest' = newest BY WorldIsOK DEF WriteBack
  <2>2. CASE disk' = [cookies |-> client.cookies, token |-> client.token]
             /\ client' = [client EXCEPT !.jar = 0]
    BY <2>1, <2>2, Closed DEF WorldOK
  <2>3. CASE disk' = disk /\ client' = [client EXCEPT !.jar = 0]
    BY <2>1, <2>3, Closed DEF WorldOK
  <2>4. CASE disk' = disk /\ client' = [cookies |-> disk.cookies, token |-> disk.token,
                                       jar |-> 0, synced |-> TRUE]
    BY <2>1, <2>4, LoginsAssumption DEF WorldOK
  <2> QED BY <2>2, <2>3, <2>4 DEF WriteBack, Write
<1>5. \/ Write(client.cookies, client.token, c, Resumed(call[c])) \/ Put(c, Resumed(call[c]))
  BY DEF WriteBack
<1> QED BY <1>2, <1>3, <1>4, <1>5, PutKeeps, WriteKeeps DEF StepKept

LEMMA LoadKeeps ==
    ASSUME IInv, NEW c \in Calls, NEW rotated \in BOOLEAN, Load(c, rotated)
    PROVE  StepKept
<1> DEFINE r == [call[c] EXCEPT !.moved = FALSE]
<1>1. Good(call[c]) /\ call[c] \in Call /\ call[c].pc = "load" BY DEF IInv, Load, Good
<1>2. Good(r) BY <1>1, MovedGood
<1>3. r \in Call /\ r.pc = "load" /\ r.retry = call[c].retry /\ r.posts = call[c].posts
      /\ r.posts \in Nat
  BY <1>1 DEF Call
<1>4. call[c].retry BY <1>1 DEF Good, Staged, Call
<1>5. WorldOK'
  <2>1. WorldOK /\ live' = live /\ newest' = newest /\ disk' = disk BY WorldIsOK DEF Load
  <2>2. client' = client
        \/ client' = [client EXCEPT !.cookies = disk.cookies, !.token = "none", !.synced = TRUE]
    BY DEF Load
  <2> QED BY <2>1, <2>2 DEF WorldOK, Tokens
<1> DEFINE t == [r EXCEPT !.pc = "launch"]
<1>6. Put(c, Recovered(r, "none")) \/ Put(c, t)
  <2>1. t = [call[c] EXCEPT !.pc = "launch", !.moved = FALSE] BY <1>1 DEF Call
  <2> QED BY <2>1 DEF Load
<1> HIDE DEF r
<1>7. CASE Put(c, Recovered(r, "none"))
  <2>1. Good(Recovered(r, "none")) BY <1>2, <1>3, RecoveredGood
  <2>2. Quiet(c, Recovered(r, "none")) BY <1>3, SamePosts DEF Quiet
  <2> QED BY <1>5, <1>7, <2>1, <2>2, PutKeeps DEF StepKept
<1>8. CASE Put(c, t)
  <2>1. t \in Call BY <1>3 DEF Call, Places
  <2>2. t.pc = "launch" /\ t.retry = r.retry /\ t.deep = r.deep /\ t.guarded = r.guarded
        /\ t.posts = r.posts /\ t.browsers = r.browsers /\ t.heard = r.heard /\ t.replay = r.replay
    BY <1>3 DEF Call
  <2> HIDE DEF t
  <2>3. Staged(t) /\ Charged(t) /\ Launched(t) /\ Repeatable(t)
    BY <1>2, <1>3, <1>4, <2>2 DEF Good, Staged, Charged, Launched, Repeatable
  <2>4. Quiet(c, t) BY <1>3, <2>2 DEF Quiet
  <2> QED BY <1>5, <1>8, <2>1, <2>3, <2>4, PutKeeps DEF StepKept, Good
<1> QED BY <1>6, <1>7, <1>8

LEMMA LaunchKeeps ==
    ASSUME IInv, NEW c \in Calls, Launch(c)
    PROVE  StepKept
<1> DEFINE r == call[c]
<1> DEFINE t == [r EXCEPT !.pc = "browser", !.browsers = @ + 1, !.moved = @ /\ Protected]
<1>1. Good(r) /\ r \in Call /\ r.pc = "launch" BY DEF IInv, Launch, Good
<1>2. Put(c, t) /\ WorldOK' BY DEF Launch, WorldOK, IInv, TypeOK
<1>3. t \in Call
  <2>1. r.browsers + 1 \in Nat /\ (r.moved /\ Protected) \in BOOLEAN BY <1>1 DEF Call
  <2> QED BY <1>1, <2>1 DEF Call, Places
<1>4. t.pc = "browser" /\ t.retry = r.retry /\ t.deep = r.deep /\ t.guarded = r.guarded
      /\ t.posts = r.posts /\ t.browsers = r.browsers + 1 /\ t.heard = r.heard
      /\ t.replay = r.replay /\ r.posts \in Nat
  BY <1>1 DEF Call
<1>5. Quiet(c, t) BY <1>4 DEF Quiet
<1> HIDE DEF t, r
<1>6. r.retry /\ ~r.deep /\ r.browsers \in Nat /\ r.guarded \in BOOLEAN
  BY <1>1 DEF Good, Staged, Call
<1>7. (r.guarded => r.browsers = 0) /\ r.browsers <= 1
  BY <1>1, <1>6 DEF Good, Launched
<1>8. Staged(t) /\ Charged(t) /\ Launched(t) /\ Repeatable(t)
  BY <1>1, <1>4, <1>6, <1>7 DEF Good, Staged, Charged, Launched, Repeatable
<1> QED BY <1>2, <1>3, <1>5, <1>8, PutKeeps DEF StepKept, Good

LEMMA BrowserSucceedsKeeps ==
    ASSUME IInv, NEW c \in Calls, BrowserSucceeds(c)
    PROVE  StepKept
<1>1. Good(call[c]) /\ call[c] \in Call /\ call[c].pc = "browser"
  BY DEF IInv, BrowserSucceeds, Good
<1>2. WorldOK /\ live' = live BY WorldIsOK DEF BrowserSucceeds
<1>3. CASE call[c].moved
  <2>1. Good(Recovered(call[c], disk.token)) BY <1>1, RecoveredGood
  <2>2. Quiet(c, Recovered(call[c], disk.token)) BY <1>1, SamePosts DEF Quiet
  <2>3. Put(c, Recovered(call[c], disk.token)) BY <1>3 DEF BrowserSucceeds
  <2>4. /\ newest' = newest /\ disk' = disk
        /\ client' = [cookies |-> disk.cookies, token |-> disk.token, jar |-> 0, synced |-> TRUE]
    BY <1>3 DEF BrowserSucceeds, Adopt
  <2>5. WorldOK' BY <1>2, <2>4, LoginsAssumption DEF WorldOK
  <2> QED BY <2>1, <2>2, <2>3, <2>5, PutKeeps DEF StepKept
<1>4. CASE ~call[c].moved
  <2>1. call[c].retry BY <1>1 DEF Good, Staged, Call
  <2>2. Good(Deep(call[c])) BY <1>1, <2>1, DeepGood
  <2>3. Quiet(c, Deep(call[c])) BY <1>1, SamePosts DEF Quiet
  <2>4. Write(newest + 1, "fresh", c, Deep(call[c])) BY <1>4 DEF BrowserSucceeds
  <2>5. /\ newest' = newest + 1 /\ newest < MaxLogins
        /\ disk' = [cookies |-> newest + 1, token |-> "fresh"]
        /\ client' = [cookies |-> newest + 1, token |-> "fresh", jar |-> 0, synced |-> TRUE]
    BY <1>4 DEF BrowserSucceeds, Adopt, Write
  <2>6. newest + 1 \in Logins /\ 0 \in 0..MaxLogins
    BY <1>2, <2>5, LoginsAssumption DEF WorldOK, Logins
  <2>7. WorldOK' BY <1>2, <2>5, <2>6 DEF WorldOK, Tokens
  <2> QED BY <2>2, <2>3, <2>4, <2>7, WriteKeeps DEF StepKept
<1> QED BY <1>3, <1>4

\* The steps that end a call.
LEMMA EndingsKeep ==
    ASSUME IInv, NEW c \in Calls, StoreFails(c) \/ Refused(c) \/ BrowserFails(c)
    PROVE  StepKept
<1>1. Good(call[c]) /\ call[c] \in Call BY DEF IInv, Good
<1>2. PICK end \in {"store", "auth"} : Put(c, Ended(call[c], end))
  BY DEF StoreFails, Refused, BrowserFails
<1>3. end \in Ends BY DEF Ends, Answers
<1>4. Good(Ended(call[c], end)) BY <1>1, <1>3, EndsGood
<1>5. Quiet(c, Ended(call[c], end)) BY <1>1, <1>3, SamePosts DEF Quiet
<1>6. WorldOK' BY DEF StoreFails, Refused, BrowserFails, WorldOK, IInv, TypeOK
<1> QED BY <1>2, <1>4, <1>5, <1>6, PutKeeps DEF StepKept

\* The rest of the world.
LEMMA OthersKeep ==
    ASSUME IInv, OtherLogin \/ OtherRefresh \/ CookiesExpire \/ TokensExpire
    PROVE  StepKept
<1>1. WorldOK BY WorldIsOK
<1>2. CASE OtherLogin
  <2>1. newest + 1 \in Logins BY <1>1, <1>2, LoginsAssumption DEF WorldOK, Logins, OtherLogin
  <2>2. WorldOK' BY <1>1, <1>2, <2>1 DEF WorldOK, OtherLogin, Tokens
  <2> QED BY <1>2, <2>2, DisturbedKeeps DEF StepKept, OtherLogin
<1>3. CASE OtherRefresh
  <2>1. WorldOK' BY <1>1, <1>3 DEF WorldOK, OtherRefresh, Tokens
  <2> QED BY <1>3, <2>1, DisturbedKeeps DEF StepKept, OtherRefresh
<1>4. CASE CookiesExpire
  <2>1. live' \in 1..(MaxLogins + 1)
    BY <1>1, <1>4, LoginsAssumption DEF WorldOK, CookiesExpire, Logins
  <2>2. WorldOK' BY <1>1, <1>4, <2>1 DEF WorldOK, CookiesExpire
  <2> QED BY <1>4, <2>2, UntouchedKeeps DEF StepKept, CookiesExpire
<1>5. CASE TokensExpire
  <2>1. \A token \in Tokens : Staled(token) \in Tokens BY DEF Staled, Tokens
  <2>2. WorldOK' BY <1>1, <1>5, <2>1 DEF WorldOK, TokensExpire
  <2> QED BY <1>5, <2>2, UntouchedKeeps DEF StepKept, TokensExpire
<1> QED BY <1>2, <1>3, <1>4, <1>5

-----------------------------------------------------------------------------
LEMMA InitOK == Init => IInv
<1> SUFFICES ASSUME Init PROVE IInv OBVIOUS
<1> DEFINE r == [Frame(TRUE) EXCEPT !.pc = "idle", !.end = "ok"]
<1>1. r \in Call
  <2>1. Frame(TRUE) \in Call
    BY LoginsAssumption DEF Frame, Call, Places, Ends, Answers, Logins
  <2>2. "idle" \in Places /\ "ok" \in Ends BY DEF Places, Ends, Answers
  <2> QED BY <2>1, <2>2 DEF Call
<1>2. r.pc = "idle" /\ ~r.retry /\ ~r.deep /\ ~r.guarded /\ r.posts = 0 /\ r.browsers = 0
  BY DEF Frame
<1> HIDE DEF r
<1>3. Good(r) BY <1>1, <1>2, Triers DEF Good, Staged, Charged, Launched, Repeatable, Base, S
<1>4. \A c \in Calls : call[c] = r BY DEF Init, r
<1>5. call \in [Calls -> Call] BY <1>1 DEF Init, r
<1>6. WorldOK BY LoginsAssumption DEF Init, WorldOK, Logins, Tokens
<1> QED BY <1>3, <1>4, <1>5, <1>6 DEF IInv, TypeOK, WorldOK

LEMMA NextKeeps == ASSUME IInv, Next PROVE StepKept
<1>1. ASSUME NEW c \in Calls, NEW replay \in Replays, Start(c, replay) PROVE StepKept
  BY <1>1, StartKeeps
<1>2. ASSUME NEW c \in Calls, Step(c) PROVE StepKept
  <2>1. CASE \E answer \in Answers : Post(c, answer) BY <2>1, PostKeeps
  <2>2. CASE \E page \in {"ok", "expired", "odd", "unreachable"} : Fetch(c, page)
    BY <2>2, FetchKeeps
  <2>3. CASE \E token \in {"fresh", "stale"} : Extract(c, token) BY <2>3, ExtractKeeps
  <2>4. CASE \E rotated \in BOOLEAN : Load(c, rotated) BY <2>4, LoadKeeps
  <2>5. CASE WriteBack(c) BY <2>5, WriteBackKeeps
  <2>6. CASE StoreFails(c) \/ Refused(c) \/ BrowserFails(c) BY <2>6, EndingsKeep
  <2>7. CASE Launch(c) BY <2>7, LaunchKeeps
  <2>8. CASE BrowserSucceeds(c) BY <2>8, BrowserSucceedsKeeps
  <2> QED BY <1>2, <2>1, <2>2, <2>3, <2>4, <2>5, <2>6, <2>7, <2>8 DEF Step
<1>3. ASSUME OtherLogin \/ OtherRefresh \/ CookiesExpire \/ TokensExpire PROVE StepKept
  BY <1>3, OthersKeep
<1> QED BY <1>1, <1>2, <1>3 DEF Next

LEMMA KeptIsInv == ASSUME StepKept PROVE IInv'
BY DEF StepKept, CallsKept, WorldOK, IInv, TypeOK

\* The record of every call and the logins are what the model says they are, and every
\* call stands where its requests and browsers so far are bounded.
THEOREM Invariant == Spec => []IInv
<1>1. Init => IInv BY InitOK
<1>2. IInv /\ [Next]_vars => IInv'
  <2> SUFFICES ASSUME IInv, [Next]_vars PROVE IInv' OBVIOUS
  <2>1. CASE Next BY <2>1, NextKeeps, KeptIsInv
  <2>2. CASE UNCHANGED vars BY <2>2 DEF vars, IInv, TypeOK
  <2> QED BY <2>1, <2>2
<1> QED BY <1>1, <1>2, PTL DEF Spec

\* Type correctness of the client, the stored login and every call.
THEOREM TypeCorrect == Spec => []TypeOK
<1>1. IInv => TypeOK BY DEF IInv
<1> QED BY <1>1, Invariant, PTL

\* For any retry limits, the recursion of _call_rpc (base.py:1093-1230)
\* sends at most four rounds of requests and starts at most two browsers.
THEOREM WorkIsBounded == Spec => []BoundedWork
<1>1. IInv => BoundedWork
  <2> SUFFICES ASSUME IInv, NEW c \in Calls
               PROVE  call[c].posts <= 4 * (MaxTries + 1) /\ call[c].browsers <= 2
    BY DEF BoundedWork
  <2> QED BY DEF IInv, Good, Charged, Launched, S
<1> QED BY <1>1, Invariant, PTL

\* For any number of threads on one client, no layer of recovery repeats a request whose
\* answer was lost, nor one answered by a 5xx where replays are forbidden.
THEOREM NeverResent == Spec => AmbiguousNeverResent
<1>1. IInv /\ [Next]_vars => [NoResend]_vars
  <2> SUFFICES ASSUME IInv, Next PROVE NoResend OBVIOUS
  <2> QED BY NextKeeps DEF StepKept, CallsKept
<1>2. [NoResend]_vars =>
      [\A c \in Calls : call'[c].posts > call[c].posts =>
          /\ "lost" \notin call[c].heard
          /\ call[c].replay \/ "server" \notin call[c].heard]_vars
  BY DEF NoResend
<1> QED BY <1>1, <1>2, Invariant, PTL DEF Spec, AmbiguousNeverResent

-----------------------------------------------------------------------------
\* The hypothesis under which the compare-and-save of a refresh is safe: a second thread
\* may reload the client, and so bring its revision up to date, between the fetch of a
\* first one and the use of what it has fetched.
Alone == Protected /\ \A c, d \in Calls : c = d

\* What has the revision of the disk has its cookies too, and nobody has changed the
\* client's between a fetch and the use of its result.
RevisionInv ==
    /\ disk.cookies <= newest
    /\ client.synced => client.cookies = disk.cookies
    /\ \A c \in Calls : call[c].pc = "extracted" => call[c].seen = client.cookies

\* None of these leads to "extracted".
LEMMA NotExtracted ==
    ASSUME NEW r \in Call
    PROVE  /\ \A end \in Ends : Ended(r, end).pc = "idle"
           /\ Deep(r).pc = "post" /\ Again(r).pc = "post" /\ Resumed(r).pc = "post"
           /\ \A token : Recovered(r, token).pc \in {"reextract", "post"}
           /\ \A replay : Frame(replay).pc = "post"
           /\ \A a \in Answers : r.pc = "post" => AfterAnswer(r, a).pc # "extracted"
<1>1. /\ \A end \in Ends : Ended(r, end).pc = "idle"
      /\ Deep(r).pc = "post" /\ Again(r).pc = "post" /\ Resumed(r).pc = "post"
      /\ \A token : Recovered(r, token).pc \in {"reextract", "post"}
      /\ \A replay : Frame(replay).pc = "post"
  BY DEF Call, Ended, Deep, Again, Resumed, Recovered, Frame
<1>2. ASSUME NEW a \in Answers, r.pc = "post" PROVE AfterAnswer(r, a).pc # "extracted"
  <2>1. Ended(r, a).pc = "idle" /\ Ended(r, "transient").pc = "idle" /\ Ended(r, "auth").pc = "idle"
    BY <1>1 DEF Ends, Answers
  <2>2. Recover(r).pc # "extracted" BY <2>1 DEF Recover, Call
  <2>3. Raise(r, a).pc # "extracted" BY <2>1 DEF Raise, Call
  <2>4. [r EXCEPT !.tries = @ + 1].pc = "post" BY <1>2 DEF Call
  <2> QED BY <2>1, <2>2, <2>3, <2>4 DEF AfterAnswer
<1> QED BY <1>1, <1>2

\* A step that leaves the stored login and the client's cookies and revision alone.
LEMMA ClientSame ==
    ASSUME IInv, RevisionInv, Alone, NEW c \in Calls, NEW rec, Put(c, rec), rec.pc # "extracted",
           UNCHANGED <<newest, disk>>,
           \/ client'.cookies = client.cookies /\ client'.synced = client.synced
           \/ client'.cookies = disk.cookies
    PROVE  RevisionInv' /\ disk'.cookies >= disk.cookies
<1>1. \A d \in Calls : call'[d] = rec BY DEF Put, IInv, TypeOK, Alone
<1>2. disk.cookies \in Nat BY DEF IInv, TypeOK, Logins
<1> QED BY <1>1, <1>2 DEF RevisionInv

\* A step of the one thread.
LEMMA RevisionStep ==
    ASSUME IInv, RevisionInv, Alone, NEW c \in Calls,
           Step(c) \/ \E replay \in Replays : Start(c, replay)
    PROVE  RevisionInv' /\ disk'.cookies >= disk.cookies
<1>1. PICK r \in Call : r = call[c] BY DEF IInv, TypeOK
<1>2. /\ client \in [cookies : Logins, token : Tokens, jar : 0..MaxLogins, synced : BOOLEAN]
      /\ disk \in [cookies : Logins, token : Tokens] /\ newest \in Nat /\ disk.cookies \in Nat
      /\ disk.cookies <= newest
      /\ \A d \in Calls : d = c
  BY DEF IInv, TypeOK, Logins, RevisionInv, Alone
<1>3. CASE \E replay \in Replays : Start(c, replay)
  BY <1>3, NotExtracted, <1>1, ClientSame DEF Start
<1>4. CASE \E answer \in Answers : Post(c, answer)
  <2>1. PICK answer \in Answers : Post(c, answer) BY <1>4
  <2> DEFINE q == [r EXCEPT !.posts = @ + 1, !.heard = @ \cup ({answer} \cap Ambiguous)]
  <2>2. q \in Call /\ q.pc = "post"
    <3>1. r.posts + 1 \in Nat /\ r.heard \cup ({answer} \cap Ambiguous) \in SUBSET Ambiguous
      BY DEF Call
    <3> QED BY <1>1, <2>1, <3>1 DEF Call, Post
  <2>3. Put(c, AfterAnswer(q, answer)) BY <1>1, <2>1 DEF Post
  <2> HIDE DEF q
  <2>4. AfterAnswer(q, answer).pc # "extracted" BY <2>2, NotExtracted
  <2>5. client'.cookies = client.cookies /\ client'.synced = client.synced
    BY <1>2, <2>1 DEF Post
  <2>6. UNCHANGED <<newest, disk>> BY <2>1 DEF Post
  <2> QED BY <2>3, <2>4, <2>5, <2>6, ClientSame
<1>5. CASE \E page \in {"ok", "expired", "odd", "unreachable"} : Fetch(c, page)
  <2>1. PICK page \in {"ok", "expired", "odd", "unreachable"} : Fetch(c, page) BY <1>5
  <2>2. UNCHANGED <<newest, disk>> /\ client'.cookies = client.cookies /\ client'.synced = client.synced
    BY <1>2, <2>1 DEF Fetch
  <2>3. CASE page = "ok"
    <3>1. Put(c, [r EXCEPT !.pc = "extracted", !.seen = client.cookies]) BY <1>1, <2>1, <2>3 DEF Fetch
    <3>2. call'[c].seen = client.cookies BY <1>1, <3>1 DEF Put, IInv, TypeOK, Call
    <3> QED BY <1>2, <2>2, <3>2 DEF RevisionInv
  <2>4. CASE page # "ok"
    <3>1. PICK rec \in {Deep(r), Ended(r, "transient"), [r EXCEPT !.pc = "load", !.retry = TRUE]} :
            Put(c, rec)
      BY <1>1, <2>1, <2>4 DEF Fetch
    <3>2. rec.pc # "extracted" BY NotExtracted DEF Call, Ends
    <3> QED BY <2>2, <3>1, <3>2, ClientSame
  <2> QED BY <2>3, <2>4
<1>6. CASE \E token \in {"fresh", "stale"} : Extract(c, token)
  <2>1. PICK token \in {"fresh", "stale"} : Extract(c, token) BY <1>6
  <2>2. r.pc = "extracted" /\ client' = [client EXCEPT !.cookies = r.seen, !.token = token]
    BY <1>1, <2>1 DEF Extract
  <2>3. r.seen = client.cookies BY <1>1, <2>2 DEF RevisionInv
  <2>4. client'.cookies = client.cookies /\ client'.synced = client.synced BY <1>2, <2>2, <2>3
  <2>5. Put(c, [r EXCEPT !.pc = "writeback"]) /\ UNCHANGED <<newest, disk>> BY <1>1, <2>1 DEF Extract
  <2>6. [r EXCEPT !.pc = "writeback"].pc = "writeback" BY DEF Call
  <2> QED BY <2>4, <2>5, <2>6, ClientSame
<1>7. CASE \E rotated \in BOOLEAN : Load(c, rotated)
  <2>1. PICK rotated \in BOOLEAN : Load(c, rotated) BY <1>7
  <2>2. UNCHANGED <<newest, disk>> BY <2>1 DEF Load
  <2>3. CASE disk.cookies # client.cookies \/ rotated
    <3>1. client'.cookies = disk.cookies BY <1>2, <2>1, <2>3 DEF Load
    <3> DEFINE q == [r EXCEPT !.moved = FALSE]
    <3>2. Put(c, Recovered(q, "none")) BY <1>1, <2>1, <2>3 DEF Load
    <3>3. q \in Call BY DEF Call
    <3> HIDE DEF q
    <3>4. Recovered(q, "none").pc # "extracted" BY <3>3, NotExtracted
    <3> QED BY <2>2, <3>1, <3>2, <3>4, ClientSame
  <2>4. CASE ~(disk.cookies # client.cookies \/ rotated)
    <3>1. Put(c, [r EXCEPT !.pc = "launch", !.moved = FALSE]) /\ UNCHANGED client
      BY <1>1, <2>1, <2>4 DEF Load
    <3>2. [r EXCEPT !.pc = "launch", !.moved = FALSE].pc = "launch" BY DEF Call
    <3> QED BY <2>2, <3>1, <3>2, ClientSame
  <2> QED BY <2>3, <2>4
<1>8. CASE WriteBack(c)
  <2>1. Resumed(r).pc # "extracted" BY NotExtracted
  <2>2. CASE /\ MaySave /\ Write(client.cookies, client.token, c, Resumed(r))
             /\ client' = [client EXCEPT !.jar = 0]
    <3>1. client.cookies = disk.cookies BY <2>2 DEF MaySave, Alone, RevisionInv
    <3>2. disk'.cookies = disk.cookies /\ call'[c] = Resumed(r) BY <2>2, <3>1 DEF Write
    <3>3. client'.cookies = client.cookies /\ UNCHANGED newest BY <1>2, <1>8, <2>2 DEF WriteBack
    <3> QED BY <1>2, <2>1, <3>1, <3>2, <3>3 DEF RevisionInv
  <2>3. CASE UNCHANGED <<newest, disk>> /\ Put(c, Resumed(r)) /\
               (client' = [client EXCEPT !.jar = 0] \/
                client' = [cookies |-> disk.cookies, token |-> disk.token, jar |-> 0, synced |-> TRUE])
    <3>1. \/ client'.cookies = client.cookies /\ client'.synced = client.synced
          \/ client'.cookies = disk.cookies
      BY <1>2, <2>3
    <3> QED BY <2>1, <2>3, <3>1, ClientSame
  <2> QED BY <1>1, <1>8, <2>2, <2>3 DEF WriteBack
<1>9. CASE StoreFails(c) \/ Refused(c) \/ BrowserFails(c)
  <2>1. PICK end \in Ends : Put(c, Ended(r, end))
    BY <1>1, <1>9 DEF StoreFails, Refused, BrowserFails, Ends, Answers
  <2>2. UNCHANGED <<newest, disk, client>> BY <1>9 DEF StoreFails, Refused, BrowserFails
  <2>3. Ended(r, end).pc # "extracted" BY NotExtracted
  <2> QED BY <2>1, <2>2, <2>3, ClientSame
<1>10. CASE Launch(c)
  <2>1. PICK m, n : Put(c, [r EXCEPT !.pc = "browser", !.browsers = n, !.moved = m])
    BY <1>1, <1>10 DEF Launch
  <2>2. [r EXCEPT !.pc = "browser", !.browsers = n, !.moved = m].pc = "browser" BY DEF Call
  <2> QED BY <1>10, <2>1, <2>2, ClientSame DEF Launch
<1>11. CASE BrowserSucceeds(c)
  <2>1. CASE r.moved
    <3>1. Put(c, Recovered(r, disk.token)) /\ client'.cookies = disk.cookies /\ UNCHANGED <<newest, disk>>
      BY <1>1, <1>11, <2>1 DEF BrowserSucceeds, Adopt
    <3>2. Recovered(r, disk.token).pc # "extracted" BY NotExtracted
    <3> QED BY <3>1, <3>2, ClientSame
  <2>2. CASE ~r.moved
    <3>1. /\ newest' = newest + 1 /\ client'.cookies = newest + 1
          /\ disk'.cookies = newest + 1 /\ call'[c] = Deep(r)
      BY <1>1, <1>11, <2>2 DEF BrowserSucceeds, Adopt, Write
    <3>2. Deep(r).pc # "extracted" BY NotExtracted
    <3> QED BY <1>2, <3>1, <3>2 DEF RevisionInv
  <2> QED BY <2>1, <2>2
<1> QED BY <1>3, <1>4, <1>5, <1>6, <1>7, <1>8, <1>9, <1>10, <1>11 DEF Step

\* Any step: other processes put newer logins on the disk, and the client's revision is old.
LEMMA RevisionKept ==
    ASSUME IInv, RevisionInv, Alone, [Next]_vars
    PROVE  RevisionInv' /\ disk'.cookies >= disk.cookies
<1>1. /\ client \in [cookies : Logins, token : Tokens, jar : 0..MaxLogins, synced : BOOLEAN]
      /\ disk \in [cookies : Logins, token : Tokens] /\ newest \in Nat /\ disk.cookies \in Nat
      /\ call \in [Calls -> Call] /\ disk.cookies <= newest
  BY DEF IInv, TypeOK, Logins, RevisionInv
<1>2. CASE \E c \in Calls : Step(c) \/ \E replay \in Replays : Start(c, replay)
  BY <1>2, RevisionStep
<1>3. CASE OtherLogin \/ OtherRefresh
  <2>1. /\ disk'.cookies \in {disk.cookies, newest + 1} /\ disk'.cookies <= newest' /\ ~client'.synced
        /\ client'.cookies = client.cookies
    BY <1>1, <1>3 DEF OtherLogin, OtherRefresh
  <2>2. \A c \in Calls : call'[c].pc = call[c].pc /\ call'[c].seen = call[c].seen
    BY <1>1, <1>3 DEF OtherLogin, OtherRefresh, Disturbed, Call
  <2> QED BY <1>1, <2>1, <2>2 DEF RevisionInv
<1>4. CASE CookiesExpire \/ TokensExpire
  <2>1. /\ disk'.cookies = disk.cookies /\ client'.cookies = client.cookies
        /\ client'.synced = client.synced /\ UNCHANGED <<newest, call>>
    BY <1>1, <1>4 DEF CookiesExpire, TokensExpire
  <2> QED BY <1>1, <2>1 DEF RevisionInv
<1>5. CASE UNCHANGED vars BY <1>1, <1>5 DEF vars, RevisionInv
<1> QED BY <1>2, <1>3, <1>4, <1>5 DEF Next

\* In protected mode, a client that one thread uses never puts an older login in the place
\* of a newer one, whatever other processes save meanwhile.
THEOREM NewerStays == ASSUME Alone PROVE Spec => NewerLoginKept
<1>1. Init => RevisionInv
  <2> SUFFICES ASSUME Init PROVE RevisionInv OBVIOUS
  <2>1. \A c \in Calls : call[c].pc = "idle" BY DEF Init, Frame
  <2>2. newest = 1 /\ disk.cookies = 1 /\ client.cookies = 1 BY DEF Init
  <2> QED BY <2>1, <2>2 DEF RevisionInv
<1>2. IInv /\ RevisionInv /\ [Next]_vars => RevisionInv' BY RevisionKept
<1>3. IInv /\ RevisionInv /\ [Next]_vars => [disk'.cookies >= disk.cookies]_vars BY RevisionKept
<1> QED BY <1>1, <1>2, <1>3, Invariant, PTL DEF Spec, NewerLoginKept

-----------------------------------------------------------------------------
\* The automatic recovery budget, which each launch of a browser by a call needs the
\* consent of (RecoveryBudget).

\* Attempts end in order: only the last one can be in flight, and it is not done.
SlotInv ==
    /\ inflight \in {0, Len(attempts)}
    /\ \A i \in 1..Len(attempts) : attempts[i].done <=> i # inflight

\* A call under way began before the end of the attempt that it holds, and owners
\* hold the attempt in flight.
CallInv ==
    /\ \A t \in Threads : pc[t] # "idle" => asked[t] < mine[t]
    /\ OneBrowser

\* The budget is the one of the last attempt.
BudgetInv ==
    Len(attempts) > 0 =>
        /\ budget.revision = attempts[Len(attempts)].revision
        /\ budget.last = attempts[Len(attempts)].at

\* The failure count is at least the length of the losing streak that just ended.
StreakInv ==
    \A k \in 1..Over :
        LosingStreak(k, Over) /\ attempts[Over].revision = budget.revision
            => budget.failures >= Over - k + 1

BudgetIInv ==
    /\ BudgetTypeOK /\ SlotInv /\ CallInv /\ TokensAreNew
    /\ BudgetInv /\ LaunchesSpaced /\ StreakInv /\ FailuresCapped

-----------------------------------------------------------------------------
\* A budget that was just made refuses nothing (auth_recovery_budget.py:51-60), so
\* a refused request leaves the budget as it was.
LEMMA FreshAllows ==
    ASSUME BudgetTypeOK, NEW rev \in Revisions
    PROVE  /\ Allows(Fresh(rev))
           /\ ~Allows(BudgetFor(rev)) => BudgetFor(rev) = budget /\ budget.revision = rev
BY CooldownAssumption, LimitAssumption DEF BudgetTypeOK, Allows, Fresh, BudgetFor

\* A budget that a request is judged by is a budget.
LEMMA BudgetForType ==
    ASSUME BudgetTypeOK, NEW rev \in Revisions
    PROVE  /\ BudgetFor(rev) \in [revision : Revisions, last : Int, failures : Nat]
           /\ BudgetFor(rev).revision = rev
BY CooldownAssumption DEF BudgetTypeOK, Fresh, BudgetFor

\* Changing a field of one attempt keeps the list a list of attempts of its length.
LEMMA AttemptEdited ==
    ASSUME BudgetTypeOK, NEW a \in 1..Len(attempts), NEW e \in Attempt
    PROVE  /\ [attempts EXCEPT ![a] = e] \in Seq(Attempt)
           /\ Len([attempts EXCEPT ![a] = e]) = Len(attempts)
           /\ \A i \in 1..Len(attempts) :
                [attempts EXCEPT ![a] = e][i] = IF i = a THEN e ELSE attempts[i]
BY ExceptSeq DEF BudgetTypeOK

\* The attempts that are over are all but the one in flight.
LEMMA OverInFlight ==
    ASSUME BudgetTypeOK, SlotInv
    PROVE  Over = IF inflight = 0 THEN Len(attempts) ELSE Len(attempts) - 1
<1>1. Len(attempts) \in Nat
    BY DEF BudgetTypeOK
<1>2. Len(attempts) > 0 =>
        (attempts[Len(attempts)].done <=> Len(attempts) # inflight)
    BY <1>1 DEF SlotInv
<1> QED
    BY <1>1, <1>2 DEF SlotInv, Over

\* The initial state.
LEMMA BudgetStarts ==
    BudgetInit => BudgetIInv
<1> SUFFICES ASSUME BudgetInit PROVE BudgetIInv
    OBVIOUS
<1> USE DEF BudgetInit
<1>1. BudgetTypeOK
    BY CooldownAssumption DEF BudgetTypeOK, Fresh
<1>2. Len(attempts) = 0
    OBVIOUS
<1> QED
    BY <1>1, <1>2 DEF BudgetIInv, SlotInv, CallInv, OneBrowser, TokensAreNew, BudgetInv,
        LaunchesSpaced, StreakInv, FailuresCapped, Over

-----------------------------------------------------------------------------
\* A caller that finds an attempt in flight joins it and leaves the budget alone.
LEMMA JoinStep ==
    ASSUME BudgetIInv, NEW t \in Threads, Join(t)
    PROVE  BudgetIInv'
<1> USE DEF BudgetIInv, Join, Enter
<1>1. BudgetTypeOK'
    BY DEF BudgetTypeOK, Over, SlotInv
<1>2. SlotInv' /\ BudgetInv' /\ LaunchesSpaced' /\ StreakInv' /\ FailuresCapped'
    BY DEF SlotInv, BudgetInv, LaunchesSpaced, StreakInv, FailuresCapped, LosingStreak, Failed, Over
<1>3. CallInv' /\ TokensAreNew'
    BY DEF BudgetTypeOK, SlotInv, CallInv, OneBrowser, TokensAreNew, Over
<1> QED
    BY <1>1, <1>2, <1>3

\* A refused request changes nothing but what its thread last got.
LEMMA DeclinedStep ==
    ASSUME BudgetIInv, NEW t \in Threads, NEW rev \in Revisions, Declined(t, rev)
    PROVE  BudgetIInv'
<1> USE DEF BudgetIInv, Declined
<1>1. budget' = budget
    BY FreshAllows
<1>2. BudgetTypeOK'
    BY <1>1 DEF BudgetTypeOK
<1>3. SlotInv' /\ BudgetInv' /\ LaunchesSpaced' /\ StreakInv' /\ FailuresCapped'
    BY <1>1 DEF SlotInv, BudgetInv, LaunchesSpaced, StreakInv, FailuresCapped, LosingStreak, Failed, Over
<1>4. CallInv' /\ TokensAreNew'
    BY DEF BudgetTypeOK, CallInv, OneBrowser, TokensAreNew
<1> QED
    BY <1>2, <1>3, <1>4

\* A new attempt: no browser runs, the last launch for this revision is a cooldown
\* ago, and its losing streak is shorter than the limit.
LEMMA OwnStep ==
    ASSUME BudgetIInv, NEW t \in Threads, NEW rev \in Revisions, Own(t, rev)
    PROVE  BudgetIInv'
<1> DEFINE n == Len(attempts)
           new == [revision |-> rev, at |-> now, result |-> "none", done |-> FALSE]
           b == BudgetFor(rev)
<1> USE DEF BudgetIInv
<1>1. /\ inflight = 0 /\ Allows(b) /\ pc[t] = "idle" /\ now' = now
      /\ budget' = [b EXCEPT !.last = now] /\ inflight' = n + 1
      /\ attempts' = Append(attempts, new)
      /\ pc' = [pc EXCEPT ![t] = "recovering"] /\ mine' = [mine EXCEPT ![t] = n + 1]
      /\ asked' = [asked EXCEPT ![t] = n] /\ got' = [got EXCEPT ![t] = 0]
    BY OverInFlight DEF Own, Enter
<1>2. /\ n \in Nat /\ n = Len(attempts)
      /\ new \in Attempt /\ attempts \in Seq(Attempt) /\ now \in Nat
      /\ b \in [revision : Revisions, last : Int, failures : Nat] /\ b.revision = rev
    BY BudgetForType DEF BudgetTypeOK, Attempt, Outcomes
<1>3. /\ attempts' \in Seq(Attempt) /\ Len(attempts') = n + 1
      /\ attempts'[n + 1] = new /\ \A i \in 1..n : attempts'[i] = attempts[i]
    BY <1>1, <1>2, AppendProperties
<1>3a. n > 0 /\ attempts[n].revision = rev => b = budget /\ budget.last = attempts[n].at
    BY DEF BudgetInv, BudgetFor
<1> HIDE DEF n, b
<1>4. BudgetTypeOK'
  <2>1. budget' \in [revision : Revisions \cup {NoRevision}, last : Int, failures : Nat]
    <3>1. budget' = [revision |-> b.revision, last |-> now, failures |-> b.failures]
        BY <1>1, <1>2
    <3> QED
        BY <3>1, <1>2
  <2>2. /\ inflight' \in 0..(n + 1) /\ mine' \in [Threads -> 0..(n + 1)]
        /\ asked' \in [Threads -> 0..(n + 1)] /\ got' \in [Threads -> 0..(n + 1)]
        /\ pc' \in [Threads -> {"idle", "waiting", "recovering", "finally"}]
    BY <1>1, <1>2 DEF BudgetTypeOK
  <2> QED
    BY <2>1, <2>2, <1>1, <1>2, <1>3 DEF BudgetTypeOK
<1>5. SlotInv' /\ BudgetInv'
    BY <1>1, <1>2, <1>3 DEF SlotInv, BudgetInv
<1>6. CallInv'
    BY <1>1, <1>2 DEF BudgetTypeOK, CallInv, OneBrowser
<1>7. TokensAreNew'
    BY <1>1, <1>2, <1>3 DEF BudgetTypeOK, TokensAreNew
<1>9. LaunchesSpaced'
  <2> SUFFICES ASSUME NEW i \in 2..(n + 1), attempts'[i].revision = attempts'[i-1].revision
               PROVE  attempts'[i].at - attempts'[i-1].at >= Cooldown
    BY <1>2, <1>3 DEF LaunchesSpaced
  <2>1. CASE i = n + 1
    BY <2>1, <1>1, <1>2, <1>3, <1>3a DEF Allows
  <2>2. CASE i \in 2..n
    BY <2>2, <1>2, <1>3 DEF LaunchesSpaced
  <2> QED
    BY <2>1, <2>2, <1>2
<1>10. StreakInv'
  <2>1. Over' = n
    BY <1>1, <1>2, <1>3 DEF Over
  <2> SUFFICES ASSUME NEW k \in 1..n, attempts'[n].revision = budget'.revision,
                      \A i \in k..n : Failed(i)' /\ attempts'[i].revision = attempts'[n].revision
               PROVE  budget'.failures >= n - k + 1
    BY <2>1, <1>2 DEF StreakInv, LosingStreak
  <2>2. LosingStreak(k, n)
    BY <1>2, <1>3 DEF LosingStreak, Failed
  <2>3. n > 0 /\ attempts[n].revision = rev
    BY <1>1, <1>2, <1>3
  <2> QED
    BY <2>2, <2>3, <1>1, <1>2, <1>3a, OverInFlight DEF StreakInv
<1>11. FailuresCapped'
  <2> SUFFICES ASSUME FailureLimit > 0, NEW i \in 1..(n + 1), NEW j \in 1..(n + 1),
                      j = i + FailureLimit,
                      \A k \in i..(j - 1) :
                        Failed(k)' /\ attempts'[k].revision = attempts'[j - 1].revision
               PROVE  attempts'[j].revision # attempts'[i].revision
    BY <1>3 DEF FailuresCapped, LosingStreak
  <2>1. LosingStreak(i, j - 1)
    <3>1. \A k \in i..(j - 1) : k \in 1..n /\ attempts'[k] = attempts[k]
        BY <1>2, <1>3, LimitAssumption
    <3>2. j - 1 \in i..(j - 1)
        BY LimitAssumption
    <3>3. \A k \in i..(j - 1) : Failed(k) /\ attempts[k].revision = attempts[j - 1].revision
        BY <3>1, <3>2 DEF Failed
    <3> QED
        BY <3>3 DEF LosingStreak
  <2>2. CASE j = n + 1
    <3>1. i \in 1..n /\ FailureLimit = n - i + 1
        BY <2>2, <1>2, LimitAssumption
    <3>2. attempts[i].revision = attempts[n].revision /\ LosingStreak(i, n)
        BY <2>1, <2>2, <3>1, <1>2 DEF LosingStreak
    <3>3. attempts[n].revision = rev => budget.failures >= FailureLimit
        BY <3>1, <3>2, <1>1, <1>2, <1>3a, OverInFlight DEF StreakInv
    <3>4. attempts[n].revision # rev
        BY <3>1, <3>3, <1>1, <1>2, <1>3a, LimitAssumption DEF Allows, BudgetTypeOK
    <3> QED
        BY <2>2, <3>1, <3>2, <3>4, <1>3
  <2>3. CASE j \in 1..n
    BY <2>1, <2>3, <1>2, <1>3, LimitAssumption DEF FailuresCapped
  <2> QED
    BY <2>2, <2>3, <1>2
<1> QED
    BY <1>4, <1>5, <1>6, <1>7, <1>9, <1>10, <1>11

\* recover() ends: only the result of the attempt in flight is written, which no
\* property looks at before the attempt is done.
LEMMA AttemptedStep ==
    ASSUME BudgetIInv, NEW t \in Threads, NEW outcome \in Outcomes, NEW raises \in BOOLEAN,
           Attempted(t, outcome, raises)
    PROVE  BudgetIInv'
<1> DEFINE n == Len(attempts)
           e == [attempts[n] EXCEPT !.result = outcome]
<1> USE DEF BudgetIInv
<1>1. /\ pc[t] = "recovering" /\ mine[t] = n /\ inflight = n /\ n \in Nat \ {0}
      /\ ~attempts[n].done /\ attempts[n] \in Attempt /\ n = Len(attempts)
    BY DEF Attempted, CallInv, OneBrowser, SlotInv, BudgetTypeOK
<1>2. /\ attempts' = [attempts EXCEPT ![n] = e] /\ pc' = [pc EXCEPT ![t] = "finally"]
      /\ UNCHANGED <<now, budget, inflight, mine, asked, got>>
    BY <1>1 DEF Attempted
<1>3. /\ e \in Attempt /\ e.revision = attempts[n].revision /\ e.at = attempts[n].at
      /\ e.done = attempts[n].done
    BY <1>1 DEF Attempt
<1>4. /\ attempts' \in Seq(Attempt) /\ Len(attempts') = n
      /\ \A i \in 1..n : attempts'[i] = IF i = n THEN e ELSE attempts[i]
    BY <1>1, <1>2, <1>3, AttemptEdited
<1> HIDE DEF n, e
<1>5. \A i \in 1..n : /\ attempts'[i].revision = attempts[i].revision
                      /\ attempts'[i].at = attempts[i].at
                      /\ attempts'[i].done = attempts[i].done
                      /\ Failed(i)' <=> Failed(i)
  <2> SUFFICES ASSUME NEW i \in 1..n
               PROVE  /\ attempts'[i].revision = attempts[i].revision
                      /\ attempts'[i].at = attempts[i].at
                      /\ attempts'[i].done = attempts[i].done
                      /\ Failed(i)' <=> Failed(i)
    OBVIOUS
  <2>1. CASE i = n
    BY <2>1, <1>1, <1>3, <1>4 DEF Failed
  <2>2. CASE i # n
    BY <2>2, <1>4 DEF Failed
  <2> QED
    BY <2>1, <2>2
<1>6. BudgetTypeOK'
    BY <1>1, <1>2, <1>4 DEF BudgetTypeOK
<1>7. SlotInv' /\ BudgetInv' /\ LaunchesSpaced'
  <2>1. SlotInv'
    BY <1>1, <1>2, <1>4, <1>5 DEF SlotInv
  <2>2. BudgetInv'
    BY <1>1, <1>2, <1>4, <1>5 DEF BudgetInv
  <2>3. LaunchesSpaced'
    BY <1>1, <1>4, <1>5 DEF LaunchesSpaced
  <2> QED
    BY <2>1, <2>2, <2>3
<1>8. CallInv'
    BY <1>1, <1>2 DEF BudgetTypeOK, CallInv, OneBrowser
<1>9. TokensAreNew'
    BY <1>1, <1>2, <1>4 DEF BudgetTypeOK, TokensAreNew
<1>10. StreakInv'
  <2>1. Over' = Over /\ Over = n - 1
    BY <1>1, <1>3, <1>4, OverInFlight DEF Over
  <2> SUFFICES ASSUME NEW k \in 1..(n - 1), attempts'[n - 1].revision = budget'.revision,
                      \A i \in k..(n - 1) :
                        Failed(i)' /\ attempts'[i].revision = attempts'[n - 1].revision
               PROVE  budget'.failures >= (n - 1) - k + 1
    BY <2>1 DEF StreakInv, LosingStreak
  <2>2. \A i \in k..(n - 1) : Failed(i) /\ attempts[i].revision = attempts[n - 1].revision
    BY <1>1, <1>5
  <2>3. attempts[n - 1].revision = budget.revision
    BY <1>1, <1>2, <1>5
  <2> QED
    BY <2>1, <2>2, <2>3, <1>2 DEF StreakInv, LosingStreak
<1>11. FailuresCapped'
  <2> SUFFICES ASSUME FailureLimit > 0, NEW i \in 1..n, NEW j \in 1..n,
                      j = i + FailureLimit,
                      \A k \in i..(j - 1) :
                        Failed(k)' /\ attempts'[k].revision = attempts'[j - 1].revision
               PROVE  attempts'[j].revision # attempts'[i].revision
    BY <1>4 DEF FailuresCapped, LosingStreak
  <2>1. \A k \in i..(j - 1) : k \in 1..n /\ j - 1 \in 1..n
    BY <1>1, LimitAssumption
  <2>2. \A k \in i..(j - 1) : Failed(k) /\ attempts[k].revision = attempts[j - 1].revision
    BY <2>1, <1>5
  <2>3. LosingStreak(i, j - 1)
    BY <2>2 DEF LosingStreak
  <2>4. attempts[j].revision # attempts[i].revision
    BY <2>3, <1>1 DEF FailuresCapped
  <2> QED
    BY <2>4, <1>5
<1> QED
    BY <1>6, <1>7, <1>8, <1>9, <1>10, <1>11

\* The "finally" block charges the budget of the revision that the attempt was
\* reserved for, frees the slot and hands the result out.
LEMMA FinishStep ==
    ASSUME BudgetIInv, NEW t \in Threads, Finish(t)
    PROVE  BudgetIInv'
<1> DEFINE n == Len(attempts)
           e == [attempts[n] EXCEPT !.done = TRUE]
<1> USE DEF BudgetIInv
<1>1. /\ pc[t] = "finally" /\ mine[t] = n /\ inflight = n /\ n \in Nat \ {0}
      /\ ~attempts[n].done /\ attempts[n] \in Attempt /\ n = Len(attempts)
    BY DEF Finish, CallInv, OneBrowser, SlotInv, BudgetTypeOK
<1>2. /\ attempts' = [attempts EXCEPT ![n] = e] /\ pc' = [pc EXCEPT ![t] = "idle"]
      /\ inflight' = 0 /\ budget' = Charge(budget, attempts[n].result)
      /\ mine' = [mine EXCEPT ![t] = 0] /\ now' = now
      /\ got' = [got EXCEPT ![t] = IF attempts[n].result = "tokens" THEN n ELSE 0]
      /\ asked' = [asked EXCEPT ![t] = IF attempts[n].result = "tokens" THEN @ ELSE 0]
    BY <1>1 DEF Finish, Return
<1>3. /\ e \in Attempt /\ e.revision = attempts[n].revision /\ e.at = attempts[n].at
      /\ e.result = attempts[n].result /\ e.done
    BY <1>1 DEF Attempt
<1>4. /\ attempts' \in Seq(Attempt) /\ Len(attempts') = n
      /\ \A i \in 1..n : attempts'[i] = IF i = n THEN e ELSE attempts[i]
    BY <1>1, <1>2, <1>3, AttemptEdited
<1> HIDE DEF n, e
<1>5. /\ budget' \in [revision : Revisions \cup {NoRevision}, last : Int, failures : Nat]
      /\ budget'.revision = budget.revision /\ budget'.last = budget.last
      /\ attempts[n].result = "none" => budget'.failures = budget.failures + 1
  <2>1. budget' = [revision |-> budget.revision, last |-> budget.last, failures |->
                    IF attempts[n].result = "tokens" THEN 0 ELSE budget.failures + 1]
    BY <1>2 DEF Charge, BudgetTypeOK
  <2> QED
    BY <2>1 DEF BudgetTypeOK
<1>6. BudgetTypeOK'
    BY <1>1, <1>2, <1>4, <1>5 DEF BudgetTypeOK
<1>7. SlotInv' /\ BudgetInv' /\ LaunchesSpaced'
    BY <1>1, <1>2, <1>3, <1>4, <1>5 DEF SlotInv, BudgetInv, LaunchesSpaced
<1>8. CallInv'
    BY <1>1, <1>2 DEF BudgetTypeOK, CallInv, OneBrowser
<1>9. TokensAreNew'
    BY <1>1, <1>2, <1>3, <1>4 DEF BudgetTypeOK, CallInv, TokensAreNew
<1>10. \A i \in 1..(n - 1) : Failed(i)' <=> Failed(i)
    BY <1>1, <1>4 DEF Failed
<1>11. StreakInv'
  <2>1. Over' = n /\ Over = n - 1
    BY <1>1, <1>3, <1>4, OverInFlight DEF Over
  <2> SUFFICES ASSUME NEW k \in 1..n, attempts'[n].revision = budget'.revision,
                      \A i \in k..n : Failed(i)' /\ attempts'[i].revision = attempts'[n].revision
               PROVE  budget'.failures >= n - k + 1
    BY <2>1, <1>1 DEF StreakInv, LosingStreak
  <2>2. attempts[n].result = "none" /\ budget'.failures = budget.failures + 1
    BY <1>1, <1>3, <1>4, <1>5 DEF LosingStreak, Failed
  <2>3. CASE k = n
    BY <2>2, <2>3, <1>1 DEF BudgetTypeOK
  <2>4. CASE k \in 1..(n - 1)
    <3>0. n \in k..n /\ n - 1 \in k..n
        BY <2>4, <1>1
    <3>1. \A i \in k..(n - 1) :
            Failed(i) /\ attempts[i].revision = attempts[n - 1].revision
        BY <2>4, <3>0, <1>1, <1>4, <1>10
    <3>2. attempts[n - 1].revision = budget.revision
        BY <2>4, <3>0, <1>1, <1>3, <1>4, <1>5
    <3>3. budget.failures >= (n - 1) - k + 1
        BY <3>1, <3>2, <2>1, <2>4 DEF StreakInv, LosingStreak
    <3> QED
        BY <3>3, <2>2, <1>1 DEF BudgetTypeOK
  <2> QED
    BY <2>3, <2>4, <1>1
<1>12. FailuresCapped'
  <2> SUFFICES ASSUME FailureLimit > 0, NEW i \in 1..n, NEW j \in 1..n,
                      j = i + FailureLimit,
                      \A k \in i..(j - 1) :
                        Failed(k)' /\ attempts'[k].revision = attempts'[j - 1].revision
               PROVE  attempts'[j].revision # attempts'[i].revision
    BY <1>4 DEF FailuresCapped, LosingStreak
  <2>1. LosingStreak(i, j - 1)
    <3>1. \A k \in i..(j - 1) : k \in 1..(n - 1)
        BY <1>1, LimitAssumption
    <3>2. j - 1 \in 1..(n - 1)
        BY <1>1, LimitAssumption
    <3>3. \A k \in 1..(n - 1) : attempts'[k] = attempts[k]
        BY <1>1, <1>4
    <3>4. \A k \in i..(j - 1) : Failed(k) /\ attempts[k].revision = attempts[j - 1].revision
        BY <1>10, <3>1, <3>2, <3>3
    <3> QED
        BY <3>4 DEF LosingStreak
  <2> QED
    BY <2>1, <1>1, <1>3, <1>4, LimitAssumption DEF FailuresCapped
<1> QED
    BY <1>6, <1>7, <1>8, <1>9, <1>11, <1>12

\* A waiter that is woken takes the result of its own attempt, one that gives up
\* takes nothing, and time passes.
LEMMA PassiveStep ==
    ASSUME BudgetIInv,
           \/ Tick
           \/ \E t \in Threads : Woken(t) \/ WaitTimesOut(t)
           \/ UNCHANGED budgetVars
    PROVE  BudgetIInv'
<1> USE DEF BudgetIInv
<1>1. UNCHANGED <<budget, attempts, inflight>> /\ now' \in Nat
    BY DEF Tick, Woken, WaitTimesOut, budgetVars, BudgetTypeOK
<1>2. SlotInv' /\ BudgetInv' /\ LaunchesSpaced' /\ StreakInv' /\ FailuresCapped'
    BY <1>1 DEF SlotInv, BudgetInv, LaunchesSpaced, StreakInv, FailuresCapped, LosingStreak, Failed, Over
<1>3. CASE Tick \/ UNCHANGED budgetVars
    BY <1>1, <1>2, <1>3 DEF Tick, budgetVars, BudgetTypeOK, CallInv, OneBrowser, TokensAreNew
<1>4. ASSUME NEW t \in Threads, Woken(t)
      PROVE  BudgetIInv'
  <2>1. BudgetTypeOK'
    BY <1>1, <1>4 DEF Woken, Return, BudgetTypeOK
  <2>2. CallInv'
    BY <1>4 DEF Woken, Return, BudgetTypeOK, CallInv, OneBrowser
  <2>3. TokensAreNew'
    BY <1>4 DEF Woken, Return, BudgetTypeOK, CallInv, TokensAreNew
  <2> QED
    BY <2>1, <2>2, <2>3, <1>2
<1>5. ASSUME NEW t \in Threads, WaitTimesOut(t)
      PROVE  BudgetIInv'
  <2>1. BudgetTypeOK'
    BY <1>1, <1>5 DEF WaitTimesOut, BudgetTypeOK
  <2>2. CallInv'
    BY <1>5 DEF WaitTimesOut, BudgetTypeOK, CallInv, OneBrowser
  <2>3. TokensAreNew'
    BY <1>5 DEF WaitTimesOut, BudgetTypeOK, TokensAreNew
  <2> QED
    BY <2>1, <2>2, <2>3, <1>2
<1> QED
    BY <1>3, <1>4, <1>5

\* Every step keeps the strengthened invariant.
LEMMA BudgetKept ==
    BudgetIInv /\ [BudgetNext]_budgetVars => BudgetIInv'
<1> SUFFICES ASSUME BudgetIInv, [BudgetNext]_budgetVars PROVE BudgetIInv'
    OBVIOUS
<1>1. CASE \E t \in Threads : Ask(t)
    BY <1>1, JoinStep, DeclinedStep, OwnStep DEF Ask
<1>2. CASE \E t \in Threads : OwnerStep(t)
    BY <1>2, AttemptedStep, FinishStep DEF OwnerStep
<1>3. CASE Tick \/ (\E t \in Threads : Woken(t) \/ WaitTimesOut(t)) \/ UNCHANGED budgetVars
    BY <1>3, PassiveStep
<1> QED
    BY <1>1, <1>2, <1>3 DEF BudgetNext

\* The strengthened invariant holds in every reachable state.
THEOREM BudgetAlways ==
    BudgetSpec => []BudgetIInv
BY BudgetStarts, BudgetKept, PTL DEF BudgetSpec

\* One headless browser at a time, however many threads ask (TypeOK with it).
THEOREM SingleBrowser ==
    BudgetSpec => [](BudgetTypeOK /\ OneBrowser)
<1>1. BudgetIInv => BudgetTypeOK /\ OneBrowser
    BY DEF BudgetIInv, CallInv
<1> QED
    BY <1>1, BudgetAlways, PTL

\* Launches for a revision are a cooldown apart, for every cooldown.
THEOREM LaunchesAreSpaced ==
    BudgetSpec => []LaunchesSpaced
<1>1. BudgetIInv => LaunchesSpaced
    BY DEF BudgetIInv
<1> QED
    BY <1>1, BudgetAlways, PTL

\* A revision gets no attempt after FailureLimit failures in a row, for every limit:
\* the failure is always charged to the revision the attempt was reserved for, since
\* nobody can replace the budget while the slot is taken.
THEOREM FailuresAreCapped ==
    BudgetSpec => []FailuresCapped
<1>1. BudgetIInv => FailuresCapped
    BY DEF BudgetIInv
<1> QED
    BY <1>1, BudgetAlways, PTL

\* Owners and waiters only ever return tokens of an attempt that ended during their call.
THEOREM TokensAlwaysNew ==
    BudgetSpec => []TokensAreNew
<1>1. BudgetIInv => TokensAreNew
    BY DEF BudgetIInv
<1> QED
    BY <1>1, BudgetAlways, PTL

-----------------------------------------------------------------------------
\* Commands and browsers.

\* A command that has no browser yet neither holds nor talks to one.
Early == {"idle", "clear", "sweep", "probe", "lock", "find", "launch"}

\* What a command has launched is of its profile and was asked for its port; what it talks
\* to has listened, and on that port if it has launched a browser.  What it is about to
\* kill has not answered.
Holds(k) ==
    /\ k.at \in Early \cup {"kill"} => k.own = None /\ k.via = None
    /\ k.at = "kill" => k.mute = k.swept[k.doomed]
    /\ k.at = "await" => k.own # None /\ k.via = None
    /\ k.at \in {"page", "save", "use", "close"} => k.via # None
    /\ k.own # None => /\ browser[k.own].at # "none"
                       /\ browser[k.own].profile = k.profile
                       /\ browser[k.own].port = k.port
    /\ k.via # None => /\ browser[k.via].at \in {"up", "gone"}
                       /\ k.own # None => browser[k.via].port = k.port

\* A command that works in another profile's browser has lost a race for the port.
Outrun(k) ==
    Listens(k.via) /\ browser[k.via].profile # k.profile =>
        \E b \in Browsers :
            /\ browser[b].at \in {"starting", "deaf", "gone"}
            /\ browser[b].profile = k.profile /\ browser[b].port = browser[k.via].port

\* One browser gets a port.
OneListens == \A a, b \in Browsers :
    browser[a].at = "up" /\ browser[b].at = "up" /\ browser[a].port = browser[b].port => a = b

\* The map names a browser by the port that it was started for.
MapInv == \A n \in Ports : portmap[n] # None =>
    browser[portmap[n]].at # "none" /\ browser[portmap[n]].port = n

LoginIInv ==
    /\ LoginTypeOK /\ OneListens /\ MapInv /\ NoHeadlessLeft
    /\ \A c \in Commands : Holds(command[c]) /\ Outrun(command[c])

-----------------------------------------------------------------------------
\* The lowest of some ports is one of them.
LEMMA LowestPort ==
    ASSUME NEW ports \in SUBSET Nat, ports # {}
    PROVE  Min(ports) \in ports
<1> DEFINE Below == OpToRel(<, Nat)
<1>1. IsWellFoundedOn(Below, Nat) BY NatLessThanWellFounded, Zenon
<1>2. \A x, y \in Nat : y < x => <<y, x>> \in Below BY Zenon DEF OpToRel
<1> HIDE DEF Below
<1>3. PICK x \in ports : \A y \in ports : ~ (<<y, x>> \in Below) BY <1>1, WFMin
<1>4. \A y \in ports : y \in Nat /\ ~(y < x) BY <1>2, <1>3
<1>5. \A y \in ports : x =< y BY <1>4
<1> QED BY <1>5 DEF Min

-----------------------------------------------------------------------------
\* What becomes of the browsers in a step: none is another than before, none that has
\* ended comes back, and one begins to listen only where nothing does.
Aging(b) ==
    /\ browser[b].at # "none" =>
        /\ browser'[b].profile = browser[b].profile /\ browser'[b].port = browser[b].port
        /\ browser'[b].headless = browser[b].headless /\ browser'[b].at # "none"
    /\ browser[b].at \in {"up", "gone"} => browser'[b].at \in {browser[b].at, "gone"}
    /\ browser[b].at \in {"starting", "deaf", "gone"} =>
        \/ browser'[b].at \in {"starting", "deaf", "gone"}
        \/ browser'[b].at = "up" /\ On(browser[b].port) = {}
Aged == browser' \in [Browsers -> Browser] /\ \A b \in Browsers : Aging(b)

\* What a step of a command does to them, but for starting one.
Closing(b) ==
    \/ browser'[b] = browser[b]
    \/ Alive(b) /\ browser'[b] = [browser[b] EXCEPT !.at = "gone"]
Fewer == browser' \in [Browsers -> Browser] /\ \A b \in Browsers : Closing(b)

\* Where the entries of the map come from.
MapFrom ==
    /\ portmap' \in [Ports -> Browsers \cup {None}]
    /\ \A n \in Ports :
        \/ portmap'[n] \in {None, portmap[n]}
        \/ browser'[portmap'[n]].at # "none" /\ browser'[portmap'[n]].port = n

\* Browsers and ports are numbers.
LEMMA Numbers ==
    /\ Browsers \subseteq Nat /\ None \notin Browsers
    /\ Ports \subseteq Nat /\ FirstPort \in Ports /\ RefreshPort \in Ports
    /\ Conventional \subseteq Ports /\ RefreshPort .. LastPort \subseteq Conventional
BY PortsAssumption, BoundsAssumption DEF Browsers, None, Ports, RefreshPort, Conventional

\* Browsers that are closed end, and no others do.
LEMMA GoneFewer ==
    ASSUME LoginTypeOK, NEW set, browser' = Gone(set)
    PROVE  /\ Fewer
           /\ \A b \in Browsers : b \in set => ~Alive(b)'
           /\ \A b \in Browsers : b \notin set => browser'[b] = browser[b]
BY DEF LoginTypeOK, Gone, Fewer, Closing, Browser, Alive

\* Doing nothing to the browsers is such a step.
LEMMA SameFewer ==
    ASSUME LoginTypeOK, UNCHANGED browser
    PROVE  Fewer
BY DEF LoginTypeOK, Fewer, Closing

\* A step that starts no browser lets the others age.
LEMMA FewerAged ==
    ASSUME LoginTypeOK, Fewer
    PROVE  /\ Aged
           /\ \A b \in Browsers : /\ Alive(b)' => Alive(b)
                                  /\ Listens(b)' => Listens(b)
                                  /\ browser'[b].port = browser[b].port
                                  /\ browser'[b].headless = browser[b].headless
BY DEF LoginTypeOK, Fewer, Closing, Aged, Aging, Browser, Alive, Listens

\* What a command holds and talks to stays so while it does nothing.
LEMMA HoldsAged ==
    ASSUME LoginTypeOK, Aged, NEW k \in Command, Holds(k), Outrun(k)
    PROVE  Holds(k)' /\ Outrun(k)'
<1>1. k.own \in Browsers \cup {None} /\ k.via \in Browsers \cup {None} BY DEF Command
<1>2. Holds(k)' BY <1>1 DEF Holds, Aged, Aging
<1>3. ASSUME Listens(k.via)', (browser[k.via].profile # k.profile)'
      PROVE  \E b \in Browsers :
                /\ browser'[b].at \in {"starting", "deaf", "gone"}
                /\ browser'[b].profile = k.profile /\ browser'[b].port = browser'[k.via].port
  <2>1. k.via \in Browsers /\ k.via # None BY <1>1, <1>3 DEF Listens
  <2>2. Listens(k.via) /\ browser'[k.via].profile = browser[k.via].profile
        /\ browser'[k.via].port = browser[k.via].port
    BY <1>3, <2>1 DEF Holds, Listens, Aged, Aging
  <2>3. PICK b \in Browsers : /\ browser[b].at \in {"starting", "deaf", "gone"}
                              /\ browser[b].profile = k.profile
                              /\ browser[b].port = browser[k.via].port
    BY <1>3, <2>2 DEF Outrun
  <2>4. k.via \in On(browser[b].port) BY <2>1, <2>2, <2>3 DEF On
  <2>5. browser'[b].at \in {"starting", "deaf", "gone"} /\ browser'[b].profile = browser[b].profile
        /\ browser'[b].port = browser[b].port
    BY <2>3, <2>4 DEF Aged, Aging
  <2> QED BY <2>2, <2>3, <2>5
<1> QED BY <1>2, <1>3 DEF Outrun

\* The map goes on naming browsers by their ports.
LEMMA MapKept ==
    ASSUME LoginTypeOK, MapInv, Aged, MapFrom
    PROVE  MapInv'
<1> SUFFICES ASSUME NEW n \in Ports, portmap'[n] # None
             PROVE  browser'[portmap'[n]].at # "none" /\ browser'[portmap'[n]].port = n
    BY DEF MapInv
<1>1. CASE portmap'[n] = portmap[n]
  <2>1. portmap[n] \in Browsers BY <1>1 DEF LoginTypeOK, PortMap
  <2> QED BY <1>1, <2>1 DEF MapInv, Aged, Aging
<1> QED BY <1>1 DEF MapFrom

\* The rest of the state.
RestOK ==
    /\ lock \subseteq Profiles
    /\ saved \in [Profiles -> [whose : Profiles, rev : Nat]]
    /\ calls \in 0 .. MaxCalls /\ kills \in 0 .. MaxKills
    /\ left \subseteq Browsers

\* A step of a command that starts no browser: it lets go of one only if that has ended or
\* the command was killed.
LEMMA CommandKeeps ==
    ASSUME LoginIInv, NEW c \in Commands, NEW d \in Command, Goes(c, d), Fewer, MapFrom, RestOK',
           Holds(d), Outrun(d), left \subseteq left',
           \A b \in Browsers : command[c].own = b => d.own = b \/ ~Alive(b)' \/ b \in left'
    PROVE  LoginIInv'
<1> USE DEF LoginIInv
<1>1. Aged BY FewerAged
<1>2. command' \in [Commands -> Command] /\ command'[c] = d
      /\ \A e \in Commands \ {c} : command'[e] = command[e]
  BY DEF Goes, LoginTypeOK
<1>3. LoginTypeOK' BY <1>1, <1>2 DEF LoginTypeOK, PortMap, Aged, MapFrom, RestOK
<1>4. OneListens'
  <2> SUFFICES ASSUME NEW a \in Browsers, NEW b \in Browsers, browser'[a].at = "up",
                      browser'[b].at = "up", browser'[a].port = browser'[b].port
               PROVE  a = b
    BY DEF OneListens
  <2>1. browser[a].at = "up" /\ browser[b].at = "up" /\ browser[a].port = browser[b].port
    BY FewerAged, Numbers DEF Listens
  <2> QED BY <2>1 DEF OneListens
<1>5. MapInv' BY <1>1, MapKept
<1>6. NoHeadlessLeft'
  <2> SUFFICES ASSUME NEW b \in Browsers, Alive(b)', browser'[b].headless, b \notin left'
               PROVE  \E e \in Commands : command'[e].own = b
    BY DEF NoHeadlessLeft
  <2>1. Alive(b) /\ browser[b].headless /\ b \notin left BY FewerAged
  <2>2. PICK e \in Commands : command[e].own = b BY <2>1 DEF NoHeadlessLeft
  <2>3. CASE e = c
    <3>1. d.own = b BY <2>2, <2>3
    <3> QED BY <1>2, <3>1
  <2> QED BY <1>2, <2>2, <2>3
<1>7. (\A e \in Commands : Holds(command[e]) /\ Outrun(command[e]))'
  <2> SUFFICES ASSUME NEW e \in Commands PROVE Holds(command[e])' /\ Outrun(command[e])'
    OBVIOUS
  <2>1. CASE e = c
    <3>1. command'[e] = d BY <1>2, <2>1
    <3>2. Holds(d)' /\ Outrun(d)' BY <1>1, HoldsAged
    <3> QED BY <3>1, <3>2 DEF Holds, Outrun
  <2>2. CASE e # c
    <3>1. PICK k \in Command : k = command[e] BY DEF LoginTypeOK
    <3>2. Holds(k) /\ Outrun(k) BY <3>1
    <3>3. Holds(k)' /\ Outrun(k)' BY <1>1, <3>2, HoldsAged
    <3>4. command'[e] = k BY <1>2, <2>2, <3>1
    <3> QED BY <3>3, <3>4 DEF Holds, Outrun
  <2> QED BY <2>1, <2>2
<1> QED BY <1>3, <1>4, <1>5, <1>6, <1>7

-----------------------------------------------------------------------------
\* The map after a step.
LEMMA WritesFrom ==
    ASSUME LoginTypeOK, Fewer, NEW c \in Commands, NEW map \in PortMap,
           \A n \in Ports : map[n] \in {None, portmap[n]} \cup On(n), Writes(c, map)
    PROVE  MapFrom
<1>1. \A n \in Ports : portmap'[n] \in {None, map[n]} BY DEF Writes
<1>2. portmap' \in [Ports -> Browsers \cup {None}] BY DEF Writes, PortMap
<1>3. \A n \in Ports : \A b \in On(n) : browser'[b].at # "none" /\ browser'[b].port = n
  BY FewerAged DEF On, Listens, Aged, Aging
<1> QED BY <1>1, <1>2, <1>3 DEF MapFrom

\* Dropping entries, with whatever is lost to other commands.
LEMMA WithoutFrom ==
    ASSUME LoginTypeOK, Fewer, NEW c \in Commands, NEW ports, Writes(c, Without(ports))
    PROVE  MapFrom
<1>1. /\ Without(ports) \in PortMap
      /\ \A n \in Ports : Without(ports)[n] \in {None, portmap[n]}
  BY DEF Without, LoginTypeOK, PortMap
<1> QED BY <1>1, WritesFrom

\* Entering a browser that was found on its port.
LEMMA LooksFrom ==
    ASSUME LoginTypeOK, Fewer, NEW c \in Commands, NEW p, NEW headless, NEW slow, NEW n \in Ports,
           On(n) # {}, Looks(c, p, headless, slow, n)
    PROVE  MapFrom
<1> DEFINE kept == Without(Unfit(p, headless, slow))
<1>1. CASE n \in Mapped(p)
  <2>1. Writes(c, kept) BY <1>1 DEF Looks
  <2> QED BY <2>1, WithoutFrom
<1>2. CASE n \notin Mapped(p)
  <2> DEFINE b == CHOOSE b \in On(n) : TRUE
             map == [kept EXCEPT ![n] = b]
  <2>1. b \in On(n) /\ On(n) \subseteq Browsers BY DEF On
  <2>2. Writes(c, map) BY <1>2 DEF Looks
  <2> HIDE DEF b
  <2>3. /\ map \in PortMap
        /\ \A m \in Ports : map[m] \in {None, portmap[m]} \cup On(m)
    BY <2>1 DEF Without, LoginTypeOK, PortMap
  <2> HIDE DEF map
  <2> QED BY <2>2, <2>3, WritesFrom
<1> QED BY <1>1, <1>2

\* Not writing the map.
LEMMA SameFrom ==
    ASSUME LoginTypeOK, UNCHANGED portmap
    PROVE  MapFrom
BY DEF LoginTypeOK, PortMap, MapFrom

-----------------------------------------------------------------------------
\* A command without a browser.
LEMMA EarlyFine ==
    ASSUME NEW d, d.at \in Early, d.own = None, d.via = None
    PROVE  Holds(d) /\ Outrun(d)
BY DEF Holds, Outrun, Early, Listens

\* A command that does nothing.
LEMMA IdleType ==
    ASSUME NEW p \in Profiles
    PROVE  /\ Idle(p) \in Command /\ Idle(p).at = "idle" /\ Idle(p).own = None
           /\ Idle(p).via = None /\ Idle(p).profile = p
<1>1. NoEntry \in PortMap BY DEF NoEntry, PortMap
<1> QED BY <1>1, Numbers DEF Idle, Command, CommandPlaces

\* A port on which a browser of the profile is found: what listens there is of the profile,
\* or the one that should have listened does not.
LEMMA FoundOutrun ==
    ASSUME LoginTypeOK, OneListens, NEW p, NEW headless, NEW ports, ports \subseteq Ports,
           NEW slow, NEW n \in Existing(p, headless, ports, slow), NEW b \in On(n)
    PROVE  /\ n \in Ports
           /\ browser[b].profile = p \/
                \E a \in Browsers : /\ browser[a].at \in {"starting", "deaf"}
                                   /\ browser[a].profile = p /\ browser[a].port = n
<1>1. CASE n \in Mapped(p) \ Unfit(p, headless, slow)
  <2>1. n \in Ports /\ Alive(portmap[n]) /\ OwnsProfile(portmap[n], p, n)
    BY <1>1 DEF Mapped, Unfit
  <2>2. portmap[n] \in Browsers BY <2>1 DEF LoginTypeOK, PortMap, Alive
  <2>3. CASE browser[portmap[n]].at = "up"
    BY <2>1, <2>2, <2>3 DEF OneListens, On, Listens, OwnsProfile
  <2>4. CASE browser[portmap[n]].at # "up"
    BY <2>1, <2>2, <2>4 DEF Alive, OwnsProfile
  <2> QED BY <2>1, <2>3, <2>4
<1>2. CASE n \in ports /\ \E a \in On(n) : OwnsProfile(a, p, n)
  BY <1>2 DEF OneListens, On, Listens, OwnsProfile
<1> QED BY <1>1, <1>2 DEF Existing

\* The browsers that a step of c ends are of its profile, or on the port of the one that it
\* has launched, or have not answered it.
StopsOwn(c) == \A b \in Browsers :
    Listens(b) /\ browser'[b].at = "gone" =>
        \/ browser[b].profile = command[c].profile
        \/ command[c].own # None /\ browser[command[c].own].port = browser[b].port
        \/ b = command[c].mute

\* A step that leaves the browsers alone ends none.
LEMMA SameStops ==
    ASSUME UNCHANGED browser, NEW c
    PROVE  StopsOwn(c)
BY DEF StopsOwn, Listens

\* terminate_chrome ends what the command has launched, and what it talks to or what
\* listens on its port, which is the port of the launched one.
LEMMA TerminatesDoes ==
    ASSUME LoginIInv, NEW c \in Commands, Terminates(c)
    PROVE  /\ Fewer /\ MapFrom /\ StopsOwn(c)
           /\ \A b \in Browsers : command[c].own = b => ~Alive(b)'
<1> USE DEF LoginIInv
<1>1. PICK k \in Command : k = command[c] BY DEF LoginTypeOK
<1>2. CASE k.own = None
  <2>1. UNCHANGED <<browser, portmap>> BY <1>1, <1>2 DEF Terminates
  <2>2. Fewer /\ MapFrom /\ StopsOwn(c) BY <2>1, SameFewer, SameFrom, SameStops
  <2> QED BY <1>1, <1>2, <2>2, Numbers
<1>3. CASE k.own # None
  <2>1. PICK closed :
            /\ browser' = Gone(closed \cup {k.own})
            /\ (closed = {k.via} /\ Listens(k.via)) \/ closed \subseteq On(k.port)
            /\ Writes(c, Without({k.port}))
    BY <1>1, <1>3 DEF Terminates
  <2>2. k.own \in Browsers /\ k.own \in closed \cup {k.own} BY <1>3 DEF Command
  <2>3. Fewer /\ ~Alive(k.own)' BY <2>1, <2>2, GoneFewer
  <2>4. MapFrom BY <2>1, <2>3, WithoutFrom
  <2>5. Holds(k) BY <1>1
  <2>6. StopsOwn(c)
    <3> SUFFICES ASSUME NEW b \in Browsers, Listens(b), browser'[b].at = "gone"
                 PROVE  browser[b].profile = k.profile \/ browser[k.own].port = browser[b].port
      BY <1>1, <1>3 DEF StopsOwn
    <3>1. b \in closed \cup {k.own} BY <2>1, GoneFewer DEF Listens
    <3>2. k.own # None => browser[k.own].profile = k.profile /\ browser[k.own].port = k.port
      BY <2>5 DEF Holds
    <3>3. CASE b = k.own BY <1>3, <3>2, <3>3
    <3>4. CASE Listens(k.via) /\ b = k.via
      BY <1>3, <2>1, <2>5, <3>2, <3>4 DEF Holds, Listens
    <3>5. CASE b \in On(k.port) BY <1>3, <3>2, <3>5 DEF On
    <3> QED BY <2>1, <3>1, <3>3, <3>4, <3>5
  <2> QED BY <1>1, <2>3, <2>4, <2>6
<1> QED BY <1>2, <1>3

-----------------------------------------------------------------------------
\* The ends of commands, and what does not touch a browser.
LEMMA CommandType ==
    ASSUME LoginIInv, NEW c \in Commands
    PROVE  /\ command[c] \in Command /\ Holds(command[c]) /\ Outrun(command[c])
           /\ command[c].profile \in Profiles /\ command[c].port \in Ports
           /\ command[c].own \in Browsers \cup {None} /\ command[c].via \in Browsers \cup {None}
BY DEF LoginIInv, LoginTypeOK, Command

\* A command ends: it has closed its browser, or leaves it and was killed (or retried).
LEMMA LeavesKeeps ==
    ASSUME LoginIInv, NEW c \in Commands, Leaves(c), Fewer, MapFrom, UNCHANGED saved,
           calls' \in 0 .. MaxCalls, kills' \in 0 .. MaxKills, left' \subseteq Browsers,
           left \subseteq left',
           \A b \in Browsers : command[c].own = b => ~Alive(b)' \/ b \in left'
    PROVE  LoginIInv'
<1>1. PICK p \in Profiles : p = command[c].profile BY CommandType
<1>2. Idle(p) \in Command /\ Holds(Idle(p)) /\ Outrun(Idle(p))
  BY IdleType, EarlyFine DEF Early
<1>3. Goes(c, Idle(p)) BY <1>1 DEF Leaves
<1>4. RestOK' BY DEF RestOK, LoginIInv, LoginTypeOK, Leaves, Unlocked
<1> QED BY <1>2, <1>3, <1>4, CommandKeeps

\* A command fails: the retry of a login leaves its browser, all others close it.
LEMMA GivesUpKeeps ==
    ASSUME LoginIInv, NEW c \in Commands, GivesUp(c), UNCHANGED <<saved, calls, kills>>
    PROVE  LoginIInv' /\ StopsOwn(c)
<1>1. LoginTypeOK /\ calls' \in 0 .. MaxCalls /\ kills' \in 0 .. MaxKills
  BY DEF LoginIInv, LoginTypeOK
<1>2. left \subseteq left' /\ left' \subseteq Browsers
  BY CommandType DEF GivesUp, LoginIInv, LoginTypeOK
<1>3. CASE command[c].retry
  <2>1. UNCHANGED <<browser, portmap>> BY <1>3 DEF GivesUp
  <2>2. \A b \in Browsers : command[c].own = b => b \in left'
    BY <1>3, Numbers DEF GivesUp
  <2>3. Fewer /\ MapFrom /\ StopsOwn(c) BY <1>1, <2>1, SameFewer, SameFrom, SameStops
  <2>4. Leaves(c) BY DEF GivesUp
  <2> QED BY <1>1, <1>2, <2>2, <2>3, <2>4, LeavesKeeps
<1>4. CASE ~command[c].retry
  <2>1. Terminates(c) /\ Leaves(c) BY <1>4 DEF GivesUp
  <2>2. Fewer /\ MapFrom /\ StopsOwn(c) /\ \A b \in Browsers : command[c].own = b => ~Alive(b)'
    BY <2>1, TerminatesDoes
  <2> QED BY <1>1, <1>2, <2>1, <2>2, LeavesKeeps
<1> QED BY <1>3, <1>4

\* A killed command leaves its browser.
LEMMA KilledKeeps ==
    ASSUME LoginIInv, NEW c \in Commands, Killed(c)
    PROVE  LoginIInv' /\ StopsOwn(c)
<1>1. LoginTypeOK /\ calls' \in 0 .. MaxCalls /\ kills' \in 0 .. MaxKills
  BY BoundsAssumption DEF LoginIInv, LoginTypeOK, Killed
<1>2. left \subseteq left' /\ left' \subseteq Browsers
  BY CommandType DEF Killed, LoginIInv, LoginTypeOK
<1>3. \A b \in Browsers : command[c].own = b => b \in left' BY Numbers DEF Killed
<1>4. Fewer /\ MapFrom /\ StopsOwn(c) BY <1>1, SameFewer, SameFrom, SameStops DEF Killed
<1> QED BY <1>1, <1>2, <1>3, <1>4, LeavesKeeps DEF Killed

\* A command is done and closes its browser.
LEMMA CloseKeeps ==
    ASSUME LoginIInv, NEW c \in Commands, Close(c)
    PROVE  LoginIInv' /\ StopsOwn(c)
<1>1. /\ calls' \in 0 .. MaxCalls /\ kills' \in 0 .. MaxKills
      /\ left \subseteq left' /\ left' \subseteq Browsers
  BY DEF LoginIInv, LoginTypeOK, Close
<1>2. Terminates(c) /\ Leaves(c) BY DEF Close
<1>3. Fewer /\ MapFrom /\ StopsOwn(c) /\ \A b \in Browsers : command[c].own = b => ~Alive(b)'
  BY <1>2, TerminatesDoes
<1> QED BY <1>1, <1>2, <1>3, LeavesKeeps DEF Close

\* A step that leaves the command without a browser, as it was.
LEMMA EarlyKeeps ==
    ASSUME LoginIInv, NEW c \in Commands, command[c].at \in Early \cup {"kill"},
           NEW d \in Command, Goes(c, d),
           d.at \in Early, d.own = None, d.via = None, Fewer, MapFrom, RestOK', UNCHANGED left
    PROVE  LoginIInv'
<1>1. Holds(d) /\ Outrun(d) BY EarlyFine
<1>2. \A b \in Browsers : command[c].own # b BY CommandType, Numbers DEF Holds
<1> QED BY <1>1, <1>2, CommandKeeps

\* A command begins without a browser.
LEMMA BeginKeeps ==
    ASSUME LoginIInv, NEW c \in Commands, NEW op \in {"login", "refresh", "transport"},
           NEW p \in Profiles, Begin(c, op, p)
    PROVE  LoginIInv' /\ StopsOwn(c)
<1>1. LoginTypeOK BY DEF LoginIInv
<1>2. PICK clear \in BOOLEAN, force \in BOOLEAN, at \in Early, n \in Nat :
        Goes(c, [Idle(p) EXCEPT !.op = op, !.clear = clear, !.force = force, !.seen = n, !.at = at])
  <2>1. saved[p].rev \in Nat BY <1>1 DEF LoginTypeOK
  <2>2. PICK clear \in BOOLEAN, force \in BOOLEAN :
          Goes(c, [Idle(p) EXCEPT !.op = op, !.clear = clear, !.force = force,
                    !.seen = saved[p].rev,
                    !.at = CASE op = "login" -> IF clear THEN "clear" ELSE "sweep"
                             [] op = "refresh" -> "lock"
                             [] op = "transport" -> "find"])
    BY DEF Begin
  <2>3. (CASE op = "login" -> IF clear THEN "clear" ELSE "sweep"
           [] op = "refresh" -> "lock" [] op = "transport" -> "find") \in Early
    BY DEF Early
  <2> QED BY <2>1, <2>2, <2>3
<1> DEFINE d == [Idle(p) EXCEPT !.op = op, !.clear = clear, !.force = force, !.seen = n, !.at = at]
<1>3. d \in Command /\ d.at \in Early /\ d.own = None /\ d.via = None
  BY IdleType DEF Idle, Command, CommandPlaces, Early
<1>4. Goes(c, d) BY <1>2
<1> HIDE DEF d
<1>5. command[c].at \in Early /\ UNCHANGED <<browser, portmap, left>> BY DEF Begin, At, Early
<1>6. RestOK' BY <1>1, BoundsAssumption DEF Begin, RestOK, LoginTypeOK
<1>7. Fewer /\ MapFrom /\ StopsOwn(c) BY <1>1, <1>5, SameFewer, SameFrom, SameStops
<1> QED BY <1>3, <1>4, <1>5, <1>6, <1>7, EarlyKeeps

\* A refresh gets the lock, or ends without a browser.
LEMMA LockKeeps ==
    ASSUME LoginIInv, NEW c \in Commands, Lock(c)
    PROVE  LoginIInv' /\ StopsOwn(c)
<1>1. LoginTypeOK BY DEF LoginIInv
<1>2. PICK k \in Command : k = command[c] BY CommandType
<1>3. k.at = "lock" /\ k.own = None /\ k.via = None /\ k.profile \in Profiles
  BY <1>2, CommandType DEF Lock, At, Holds, Early
<1>4. PICK d \in {[k EXCEPT !.at = "find"], Idle(k.profile)} : Goes(c, d)
  BY <1>2 DEF Lock, To
<1>5. d \in Command /\ d.at \in Early /\ d.own = None /\ d.via = None
  BY <1>3, IdleType DEF Command, CommandPlaces, Early
<1>6. command[c].at \in Early /\ UNCHANGED <<browser, portmap, left>>
  BY <1>2, <1>3 DEF Lock, Early
<1>7. RestOK' BY <1>1, <1>2, <1>3 DEF Lock, RestOK, LoginTypeOK
<1>8. Fewer /\ MapFrom /\ StopsOwn(c) BY <1>1, <1>6, SameFewer, SameFrom, SameStops
<1> QED BY <1>4, <1>5, <1>6, <1>7, <1>8, EarlyKeeps

\* Clearing a directory ends the browser that is proven to be the profile's.
LEMMA ClearKeeps ==
    ASSUME LoginIInv, NEW c \in Commands, Clear(c)
    PROVE  LoginIInv' /\ StopsOwn(c)
<1>1. LoginTypeOK BY DEF LoginIInv
<1>2. PICK k \in Command : k = command[c] BY CommandType
<1>3. k.at = "clear" /\ k.own = None /\ k.via = None
  BY <1>2, CommandType DEF Clear, At, Holds, Early
<1> DEFINE d == [k EXCEPT !.at = "sweep"]
<1>4. Goes(c, d) BY <1>2 DEF Clear, To
<1>5. d \in Command /\ d.at \in Early /\ d.own = None /\ d.via = None
  BY <1>3 DEF Command, CommandPlaces, Early
<1> HIDE DEF d
<1>6. command[c].at \in Early /\ UNCHANGED left BY <1>2, <1>3 DEF Clear, Early
<1>7. RestOK' BY <1>1 DEF Clear, RestOK, LoginTypeOK
<1>a. PICK slow \in Slow :
        IF Existing(k.profile, TRUE, Conventional, slow) = {}
        THEN Writes(c, Without(Unfit(k.profile, TRUE, slow))) /\ UNCHANGED browser
        ELSE \E n \in Existing(k.profile, TRUE, Conventional, slow) : \E b \in On(n) :
               /\ OwnsProfile(b, k.profile, n)
               /\ browser' = Gone({b})
               /\ Writes(c, Without(Unfit(k.profile, TRUE, slow) \cup {n}))
  BY <1>2 DEF Clear
<1>8. CASE Existing(k.profile, TRUE, Conventional, slow) = {}
  <2>1. UNCHANGED browser /\ Writes(c, Without(Unfit(k.profile, TRUE, slow))) BY <1>a, <1>8
  <2>2. Fewer /\ StopsOwn(c) BY <1>1, <2>1, SameFewer, SameStops
  <2>3. MapFrom BY <1>1, <2>1, <2>2, WithoutFrom
  <2> QED BY <1>4, <1>5, <1>6, <1>7, <2>2, <2>3, EarlyKeeps
<1>9. CASE Existing(k.profile, TRUE, Conventional, slow) # {}
  <2>1. PICK n \in Existing(k.profile, TRUE, Conventional, slow) : \E b \in On(n) :
          /\ OwnsProfile(b, k.profile, n)
          /\ browser' = Gone({b})
          /\ Writes(c, Without(Unfit(k.profile, TRUE, slow) \cup {n}))
    BY <1>a, <1>9
  <2>2. PICK b \in On(n) :
          /\ OwnsProfile(b, k.profile, n)
          /\ browser' = Gone({b})
          /\ Writes(c, Without(Unfit(k.profile, TRUE, slow) \cup {n}))
    BY <2>1
  <2>3. Fewer /\ \A a \in Browsers : a # b => browser'[a] = browser[a]
    BY <1>1, <2>2, GoneFewer
  <2>4. MapFrom BY <1>1, <2>2, <2>3, WithoutFrom
  <2>5. StopsOwn(c) BY <1>2, <2>2, <2>3 DEF StopsOwn, OwnsProfile, Listens
  <2> QED BY <1>4, <1>5, <1>6, <1>7, <2>3, <2>4, <2>5, EarlyKeeps
<1> QED BY <1>8, <1>9

\* The sweep goes on to the next entry, or on with the login.
LEMMA GoesOverFine ==
    ASSUME LoginIInv, NEW c \in Commands, command[c].at \in {"sweep", "probe", "kill"},
           NEW rest \in PortMap, GoesOver(c, rest)
    PROVE  \E d \in Command : Goes(c, d) /\ d.at \in Early /\ d.own = None /\ d.via = None
<1>1. PICK k \in Command : k = command[c] BY CommandType
<1>2. k.own = None /\ k.via = None BY <1>1, CommandType DEF Holds, Early
<1>3. PICK place \in {"probe", "launch", "find"} :
        Goes(c, [k EXCEPT !.at = place, !.swept = rest, !.doomed = FirstPort, !.mute = None])
  BY <1>1 DEF GoesOver
<1> DEFINE d == [k EXCEPT !.at = place, !.swept = rest, !.doomed = FirstPort, !.mute = None]
<1>4. d \in Command /\ d.at \in Early /\ d.own = None /\ d.via = None
  BY <1>2, Numbers DEF Command, CommandPlaces, Early
<1> QED BY <1>3, <1>4

\* What remains to go over is a port map.
LEMMA OverFine ==
    ASSUME LoginIInv, NEW c \in Commands, NEW n
    PROVE  Probed(c, n) \in PortMap /\ NoEntry \in PortMap
<1>1. command[c].swept \in PortMap BY CommandType DEF Command
<1> QED BY <1>1 DEF Probed, PortMap, NoEntry

\* The sweep reads the map.
LEMMA SweepKeeps ==
    ASSUME LoginIInv, NEW c \in Commands, Sweep(c)
    PROVE  LoginIInv' /\ StopsOwn(c)
<1>1. LoginTypeOK BY DEF LoginIInv
<1>2. command[c].at = "sweep" /\ UNCHANGED browser BY DEF Sweep, At
<1>3. PICK rest \in PortMap : GoesOver(c, rest)
  BY <1>1 DEF Sweep, LoginTypeOK, PortMap, NoEntry
<1>4. PICK d \in Command : Goes(c, d) /\ d.at \in Early /\ d.own = None /\ d.via = None
  BY <1>2, <1>3, GoesOverFine
<1>5. RestOK' /\ UNCHANGED left BY <1>1 DEF Sweep, RestOK, LoginTypeOK
<1>6. Fewer /\ StopsOwn(c) BY <1>1, <1>2, SameFewer, SameStops
<1>7. MapFrom
  <2>1. portmap \in PortMap /\ \A n \in Ports : portmap[n] \in {None, portmap[n]} \cup On(n)
    BY <1>1 DEF LoginTypeOK
  <2>2. Writes(c, portmap) BY DEF Sweep
  <2> QED BY <1>1, <1>6, <2>1, <2>2, WritesFrom
<1>8. command[c].at \in Early BY <1>2 DEF Early
<1> QED BY <1>4, <1>5, <1>6, <1>7, <1>8, EarlyKeeps

\* A browser is asked; nothing is ended yet.
LEMMA ProbeKeeps ==
    ASSUME LoginIInv, NEW c \in Commands, Probe(c)
    PROVE  LoginIInv' /\ StopsOwn(c)
<1>1. LoginTypeOK BY DEF LoginIInv
<1>2. PICK k \in Command : k = command[c] BY CommandType
<1>3. k.at = "probe" /\ k.own = None /\ k.via = None
  BY <1>2, CommandType DEF Probe, At, Holds, Early
<1>4. UNCHANGED <<browser, portmap, left>> /\ RestOK'
  BY <1>1 DEF Probe, RestOK, LoginTypeOK
<1>5. Fewer /\ MapFrom /\ StopsOwn(c) BY <1>1, <1>4, SameFewer, SameFrom, SameStops
<1>6. PICK n \in Ports :
        \/ Goes(c, [k EXCEPT !.at = "kill", !.doomed = n, !.mute = k.swept[n]])
        \/ GoesOver(c, Probed(c, n))
  BY <1>2 DEF Probe, Unresponsive
<1>7. CASE Goes(c, [k EXCEPT !.at = "kill", !.doomed = n, !.mute = k.swept[n]])
  <2> DEFINE d == [k EXCEPT !.at = "kill", !.doomed = n, !.mute = k.swept[n]]
  <2>1. k.swept \in PortMap /\ k.swept[n] \in Browsers \cup {None} BY DEF Command, PortMap
  <2>2. /\ d \in Command /\ d.at = "kill" /\ d.own = None /\ d.via = None
        /\ d.mute = d.swept[d.doomed]
    BY <1>3, <2>1 DEF Command, CommandPlaces
  <2>3. Goes(c, d) BY <1>7
  <2> HIDE DEF d
  <2>4. Holds(d) /\ Outrun(d) BY <2>2 DEF Holds, Outrun, Listens
  <2>5. \A b \in Browsers : command[c].own # b BY <1>2, <1>3, Numbers
  <2> QED BY <1>4, <1>5, <2>2, <2>3, <2>4, <2>5, CommandKeeps
<1>8. CASE GoesOver(c, Probed(c, n))
  <2>1. PICK d \in Command : Goes(c, d) /\ d.at \in Early /\ d.own = None /\ d.via = None
    BY <1>2, <1>3, <1>8, GoesOverFine, OverFine
  <2>2. command[c].at \in Early BY <1>2, <1>3 DEF Early
  <2> QED BY <1>4, <1>5, <2>1, <2>2, EarlyKeeps
<1> QED BY <1>6, <1>7, <1>8

\* The sweep ends what has not answered.
LEMMA KillKeeps ==
    ASSUME LoginIInv, NEW c \in Commands, Kill(c)
    PROVE  LoginIInv' /\ StopsOwn(c)
<1>1. LoginTypeOK BY DEF LoginIInv
<1>2. command[c].at = "kill" /\ browser' = Gone({Target(c)}) BY DEF Kill, At
<1>3. PICK d \in Command : Goes(c, d) /\ d.at \in Early /\ d.own = None /\ d.via = None
  BY <1>2, GoesOverFine, OverFine DEF Kill
<1>4. RestOK' /\ UNCHANGED left BY <1>1 DEF Kill, RestOK, LoginTypeOK
<1>5. Fewer /\ \A b \in Browsers : b # Target(c) => browser'[b] = browser[b]
  BY <1>1, <1>2, GoneFewer
<1>6. MapFrom BY <1>1, <1>5, WithoutFrom DEF Kill
<1>7. Target(c) = command[c].mute BY <1>2, CommandType DEF Holds, Target
<1>8. StopsOwn(c) BY <1>5, <1>7 DEF StopsOwn, Listens
<1> QED BY <1>2, <1>3, <1>4, <1>5, <1>6, <1>8, EarlyKeeps

\* A command that takes a browser that is there.
LEMMA TakesFine ==
    ASSUME LoginIInv, NEW k \in Command, NEW headless, NEW ports, ports \subseteq Ports,
           NEW slow, NEW n \in Existing(k.profile, headless, ports, slow), NEW b \in On(n)
    PROVE  LET d == [k EXCEPT !.port = n, !.via = b, !.own = None, !.at = "page"]
           IN d \in Command /\ Holds(d) /\ Outrun(d)
<1> DEFINE d == [k EXCEPT !.port = n, !.via = b, !.own = None, !.at = "page"]
<1>1. LoginTypeOK /\ OneListens BY DEF LoginIInv
<1>2. /\ n \in Ports
      /\ browser[b].profile = k.profile \/
            \E a \in Browsers : /\ browser[a].at \in {"starting", "deaf"}
                               /\ browser[a].profile = k.profile /\ browser[a].port = n
  BY <1>1, FoundOutrun
<1>3. b \in Browsers /\ b # None /\ browser[b].at = "up" /\ browser[b].port = n BY DEF On, Listens
<1>4. d \in Command /\ d.profile = k.profile /\ d.via = b /\ d.own = None /\ d.at = "page"
  BY <1>2, <1>3 DEF Command, CommandPlaces
<1> HIDE DEF d
<1>5. Holds(d) BY <1>3, <1>4 DEF Holds, Early
<1>6. Outrun(d) BY <1>2, <1>3, <1>4 DEF Outrun
<1> QED BY <1>4, <1>5, <1>6 DEF d

\* A command finds a browser of its profile, or none.
LEMMA FindKeeps ==
    ASSUME LoginIInv, NEW c \in Commands, Find(c)
    PROVE  LoginIInv' /\ StopsOwn(c)
<1>1. LoginTypeOK BY DEF LoginIInv
<1>2. PICK k \in Command : k = command[c] BY CommandType
<1>3. k.at = "find" /\ k.own = None /\ k.via = None /\ k.profile \in Profiles
  BY <1>2, CommandType DEF Find, At, Holds, Early
<1>4. command[c].at \in Early /\ UNCHANGED <<browser, left>> BY <1>2, <1>3 DEF Find, Early
<1>5. RestOK' BY <1>1 DEF Find, RestOK, LoginTypeOK
<1>6. Fewer /\ StopsOwn(c) BY <1>1, <1>4, SameFewer, SameStops
<1>7. PICK headless \in BOOLEAN, ports \in SUBSET Ports, slow \in Slow :
        \/ /\ Writes(c, Without(Unfit(k.profile, headless, slow)))
           /\ To(c, "launch")
        \/ \E n \in Existing(k.profile, headless, ports, slow) : \E b \in On(n) :
             /\ Looks(c, k.profile, headless, slow, n)
             /\ Goes(c, [k EXCEPT !.port = n, !.via = b, !.at = "page"])
  <2>1. SearchedPorts(c) \in SUBSET Ports BY Numbers DEF SearchedPorts
  <2> QED BY <1>2, <2>1 DEF Find
<1>8. CASE Writes(c, Without(Unfit(k.profile, headless, slow))) /\ To(c, "launch")
  <2> DEFINE d == [k EXCEPT !.at = "launch"]
  <2>1. d \in Command /\ d.at \in Early /\ d.own = None /\ d.via = None
    BY <1>3 DEF Command, CommandPlaces, Early
  <2>2. Goes(c, d) BY <1>2, <1>8 DEF To
  <2> HIDE DEF d
  <2>3. MapFrom BY <1>1, <1>6, <1>8, WithoutFrom
  <2> QED BY <1>4, <1>5, <1>6, <2>1, <2>2, <2>3, EarlyKeeps
<1>9. CASE \E n \in Existing(k.profile, headless, ports, slow) : \E b \in On(n) :
             /\ Looks(c, k.profile, headless, slow, n)
             /\ Goes(c, [k EXCEPT !.port = n, !.via = b, !.at = "page"])
  <2>a. PICK n \in Existing(k.profile, headless, ports, slow) : \E b \in On(n) :
             /\ Looks(c, k.profile, headless, slow, n)
             /\ Goes(c, [k EXCEPT !.port = n, !.via = b, !.at = "page"])
    BY <1>9
  <2>1. PICK b \in On(n) :
             /\ Looks(c, k.profile, headless, slow, n)
             /\ Goes(c, [k EXCEPT !.port = n, !.via = b, !.at = "page"])
    BY <2>a
  <2> DEFINE d == [k EXCEPT !.port = n, !.via = b, !.own = None, !.at = "page"]
  <2>2. d = [k EXCEPT !.port = n, !.via = b, !.at = "page"] BY <1>3 DEF Command
  <2>3. d \in Command /\ Holds(d) /\ Outrun(d) BY TakesFine
  <2>4. Goes(c, d) BY <2>1, <2>2
  <2>5. n \in Ports BY <1>1, FoundOutrun DEF LoginIInv
  <2> HIDE DEF d
  <2>6. MapFrom BY <1>1, <1>6, <2>1, <2>5, LooksFrom
  <2>7. \A a \in Browsers : command[c].own # a BY <1>2, <1>3, Numbers
  <2> QED BY <1>4, <1>5, <1>6, <2>3, <2>4, <2>6, <2>7, CommandKeeps
<1> QED BY <1>7, <1>8, <1>9

\* What listens on the port is the launched browser, or that one does not listen.
LEMMA AnsweredKeeps ==
    ASSUME LoginIInv, NEW c \in Commands, Answered(c)
    PROVE  LoginIInv' /\ StopsOwn(c)
<1>1. LoginTypeOK /\ OneListens BY DEF LoginIInv
<1>2. PICK k \in Command : k = command[c] BY CommandType
<1>3. k.at = "await" /\ k.own # None /\ k.own \in Browsers /\ Holds(k)
  BY <1>2, CommandType DEF Answered, At, Holds
<1>4. PICK b \in On(k.port) : Goes(c, [k EXCEPT !.via = b, !.at = "page"])
  BY <1>2 DEF Answered
<1> DEFINE d == [k EXCEPT !.via = b, !.at = "page"]
<1>5. b \in Browsers /\ b # None /\ browser[b].at = "up" /\ browser[b].port = k.port
  BY <1>4 DEF On, Listens
<1>6. /\ d \in Command /\ d.profile = k.profile /\ d.port = k.port /\ d.own = k.own
      /\ d.via = b /\ d.at = "page"
  BY <1>5 DEF Command, CommandPlaces
<1>7. Goes(c, d) BY <1>4
<1> HIDE DEF d
<1>8. Holds(d) BY <1>3, <1>5, <1>6 DEF Holds, Early
<1>9. Outrun(d)
  <2>1. browser[k.own].profile = k.profile /\ browser[k.own].port = k.port
        /\ browser[k.own].at \in {"starting", "up", "deaf", "gone"}
    BY <1>1, <1>3 DEF Holds, LoginTypeOK, Browser
  <2>2. CASE browser[k.own].at = "up"
    <3>1. k.own = b BY <1>1, <1>3, <1>5, <2>1, <2>2 DEF OneListens
    <3> QED BY <1>6, <2>1, <3>1 DEF Outrun
  <2>3. CASE browser[k.own].at # "up"
    BY <1>3, <1>5, <1>6, <2>1, <2>3 DEF Outrun
  <2> QED BY <2>2, <2>3
<1>10. RestOK' BY <1>1 DEF Answered, RestOK, LoginTypeOK
<1>11. UNCHANGED <<browser, portmap, left>> BY DEF Answered
<1>12. Fewer /\ MapFrom /\ StopsOwn(c) BY <1>1, <1>11, SameFewer, SameFrom, SameStops
<1>13. \A a \in Browsers : command[c].own = a => d.own = a BY <1>2, <1>6
<1> QED BY <1>6, <1>7, <1>8, <1>9, <1>10, <1>11, <1>12, <1>13, CommandKeeps

\* The command closes its own browser and takes the one that has come up elsewhere.
LEMMA AnsweredElsewhereKeeps ==
    ASSUME LoginIInv, NEW c \in Commands, AnsweredElsewhere(c)
    PROVE  LoginIInv' /\ StopsOwn(c)
<1>1. LoginTypeOK BY DEF LoginIInv
<1>2. PICK k \in Command : k = command[c] BY CommandType
<1>a. PICK slow \in Slow : \E n \in Existing(k.profile, TRUE, Conventional, slow) : \E b \in On(n) :
        /\ Terminates(c)
        /\ Goes(c, [k EXCEPT !.port = n, !.via = b, !.own = None, !.at = "page"])
  BY <1>2 DEF AnsweredElsewhere
<1>3. PICK n \in Existing(k.profile, TRUE, Conventional, slow) : \E b \in On(n) :
        /\ Terminates(c)
        /\ Goes(c, [k EXCEPT !.port = n, !.via = b, !.own = None, !.at = "page"])
  BY <1>a
<1>4. PICK b \in On(n) :
        /\ Terminates(c)
        /\ Goes(c, [k EXCEPT !.port = n, !.via = b, !.own = None, !.at = "page"])
  BY <1>3
<1> DEFINE d == [k EXCEPT !.port = n, !.via = b, !.own = None, !.at = "page"]
<1>5. d \in Command /\ Holds(d) /\ Outrun(d) BY TakesFine, Numbers
<1>6. Goes(c, d) BY <1>4
<1> HIDE DEF d
<1>7. Fewer /\ MapFrom /\ StopsOwn(c) /\ \A a \in Browsers : command[c].own = a => ~Alive(a)'
  BY <1>4, TerminatesDoes
<1>8. RestOK' /\ UNCHANGED left BY <1>1 DEF AnsweredElsewhere, RestOK, LoginTypeOK
<1> QED BY <1>5, <1>6, <1>7, <1>8, CommandKeeps

\* A command that goes on with the browser it has.
LEMMA GoesOnKeeps ==
    ASSUME LoginIInv, NEW c \in Commands, command[c].at \in {"page", "save"},
           NEW place \in {"use", "save", "close"}, To(c, place), RestOK',
           UNCHANGED <<browser, portmap, left>>
    PROVE  LoginIInv' /\ StopsOwn(c)
<1>1. LoginTypeOK BY DEF LoginIInv
<1>2. PICK k \in Command : k = command[c] BY CommandType
<1> DEFINE d == [k EXCEPT !.at = place]
<1>3. /\ d \in Command /\ d.profile = k.profile /\ d.port = k.port /\ d.own = k.own
      /\ d.via = k.via /\ d.at = place
  BY DEF Command, CommandPlaces
<1>4. Goes(c, d) BY <1>2 DEF To
<1> HIDE DEF d
<1>5. Holds(k) /\ Outrun(k) /\ k.at \in {"page", "save"} BY <1>2, CommandType
<1>6. Holds(d) BY <1>3, <1>5 DEF Holds, Early
<1>7. Outrun(d) BY <1>3, <1>5 DEF Outrun
<1>8. Fewer /\ MapFrom /\ StopsOwn(c) BY <1>1, SameFewer, SameFrom, SameStops
<1>9. \A a \in Browsers : command[c].own = a => d.own = a BY <1>2, <1>3
<1> QED BY <1>3, <1>4, <1>6, <1>7, <1>8, <1>9, CommandKeeps

\* The page shows a signed-in user.
LEMMA SignedInKeeps ==
    ASSUME LoginIInv, NEW c \in Commands, SignedIn(c)
    PROVE  LoginIInv' /\ StopsOwn(c)
<1>1. command[c].at = "page" /\ UNCHANGED <<browser, portmap, left>> BY DEF SignedIn, At
<1>2. PICK place \in {"use", "save"} : To(c, place) BY DEF SignedIn
<1>3. RestOK' BY DEF SignedIn, RestOK, LoginIInv, LoginTypeOK
<1> QED BY <1>1, <1>2, <1>3, GoesOnKeeps

\* The login is saved; the browser it was read from is one that was started.
LEMMA SaveKeeps ==
    ASSUME LoginIInv, NEW c \in Commands, Save(c)
    PROVE  LoginIInv' /\ StopsOwn(c)
<1>1. LoginTypeOK BY DEF LoginIInv
<1>2. PICK k \in Command : k = command[c] BY CommandType
<1>3. k.at = "save" /\ To(c, "close") /\ UNCHANGED <<browser, portmap, lock, calls, kills, left>>
  BY <1>2 DEF Save, At
<1>4. k.via \in Browsers BY <1>2, <1>3, CommandType DEF Holds
<1>5. saved' = [saved EXCEPT ![k.profile] = [whose |-> browser[k.via].profile, rev |-> @.rev + 1]]
  BY <1>2 DEF Save
<1>6. browser[k.via].profile \in Profiles /\ k.profile \in Profiles /\ saved[k.profile].rev \in Nat
  BY <1>1, <1>4 DEF LoginTypeOK, Browser, Command
<1>7. saved' \in [Profiles -> [whose : Profiles, rev : Nat]] BY <1>1, <1>5, <1>6 DEF LoginTypeOK
<1>8. RestOK' BY <1>1, <1>3, <1>7 DEF RestOK, LoginTypeOK
<1> QED BY <1>2, <1>3, <1>8, GoesOnKeeps

\* Another account: the browser is closed before the directory is cleared.
LEMMA MismatchKeeps ==
    ASSUME LoginIInv, NEW c \in Commands, Mismatch(c)
    PROVE  LoginIInv' /\ StopsOwn(c)
<1>1. PICK p \in Profiles : p = command[c].profile BY CommandType
<1> DEFINE d == [Idle(p) EXCEPT !.clear = TRUE, !.retry = TRUE, !.at = "clear"]
<1>2. d \in Command /\ d.at \in Early /\ d.own = None /\ d.via = None
  BY IdleType DEF Idle, Command, CommandPlaces, Early
<1>3. Goes(c, d) BY <1>1 DEF Mismatch
<1> HIDE DEF d
<1>4. Holds(d) /\ Outrun(d) BY <1>2, EarlyFine
<1>5. Fewer /\ MapFrom /\ StopsOwn(c) /\ \A b \in Browsers : command[c].own = b => ~Alive(b)'
  BY TerminatesDoes DEF Mismatch
<1>6. RestOK' /\ UNCHANGED left BY DEF Mismatch, RestOK, LoginIInv, LoginTypeOK
<1> QED BY <1>2, <1>3, <1>4, <1>5, <1>6, CommandKeeps

-----------------------------------------------------------------------------
\* A browser that starts, or ends by itself.
LEMMA BrowserKeeps ==
    ASSUME LoginIInv, NEW b \in Browsers, Starts(b) \/ Quits(b)
    PROVE  LoginIInv'
<1> USE DEF LoginIInv
<1>1. UNCHANGED <<portmap, lock, saved, command, calls, kills, left>> BY DEF Starts, Quits
<1>2. PICK place \in {"gone", "deaf", "up"} :
        /\ browser' = [browser EXCEPT ![b].at = place]
        /\ Alive(b)
        /\ place # "gone" => browser[b].at = "starting"
        /\ place = "up" => On(browser[b].port) = {}
  <2>1. CASE Starts(b) BY <2>1, Numbers DEF Starts, Alive
  <2>2. CASE Quits(b)
    <3>1. browser' = [browser EXCEPT ![b].at = "gone"]
      <4>1. \A a \in Browsers :
              browser'[a] = IF a = b THEN [browser[b] EXCEPT !.at = "gone"] ELSE browser[a]
        BY <2>2 DEF Quits, Gone
      <4>2. browser' = [a \in Browsers |-> browser'[a]] BY <2>2 DEF Quits, Gone
      <4> QED BY <4>1, <4>2 DEF LoginTypeOK
    <3> QED BY <2>2, <3>1 DEF Quits
  <2> QED BY <2>1, <2>2
<1>3. Aged BY <1>2 DEF LoginTypeOK, Browser, Aged, Aging, Alive
<1>4. LoginTypeOK' BY <1>1, <1>3 DEF LoginTypeOK, Aged
<1>5. MapInv'
  <2>1. MapFrom BY <1>1, SameFrom
  <2> QED BY <1>3, <2>1, MapKept
<1>6. OneListens'
  <2>1. \A a \in Browsers \ {b} : browser'[a] = browser[a] BY <1>2
  <2>2. browser'[b].at = place /\ browser'[b].port = browser[b].port BY <1>2 DEF LoginTypeOK, Browser
  <2>3. \A a \in Browsers : browser[a].at = "up" /\ browser[a].port = browser[b].port => place # "up"
    BY <1>2, Numbers DEF On, Listens
  <2> QED BY <2>1, <2>2, <2>3 DEF OneListens
<1>7. NoHeadlessLeft'
  <2>1. \A a \in Browsers : Alive(a)' => Alive(a) /\ browser'[a].headless = browser[a].headless
    BY <1>2 DEF LoginTypeOK, Browser, Alive
  <2> QED BY <1>1, <2>1 DEF NoHeadlessLeft
<1>8. (\A c \in Commands : Holds(command[c]) /\ Outrun(command[c]))'
  <2> SUFFICES ASSUME NEW c \in Commands PROVE Holds(command[c])' /\ Outrun(command[c])'
    OBVIOUS
  <2>1. PICK k \in Command : k = command[c] BY CommandType
  <2>2. Holds(k)' /\ Outrun(k)' BY <1>3, <2>1, HoldsAged
  <2>3. command'[c] = k BY <1>1, <2>1
  <2> QED BY <2>2, <2>3 DEF Holds, Outrun
<1> QED BY <1>4, <1>5, <1>6, <1>7, <1>8

\* A command starts a browser on a port that nothing listens on, and holds it.
LEMMA LaunchBrowserKeeps ==
    ASSUME LoginIInv, NEW c \in Commands, LaunchBrowser(c)
    PROVE  LoginIInv' /\ StopsOwn(c)
<1> USE DEF LoginIInv
<1>1. PICK k \in Command : k = command[c] BY CommandType
<1>2. k.at = "launch" /\ k.own = None /\ k.via = None /\ k.profile \in Profiles
  BY <1>1, CommandType DEF LaunchBrowser, At, Holds, Early
<1> DEFINE headless == k.op # "login"
<1>3. \A slow : NewPorts(c, slow) \subseteq Ports
  <2> SUFFICES ASSUME NEW slow PROVE NewPorts(c, slow) \subseteq Ports OBVIOUS
  <2>1. FreePorts(c, slow) \subseteq Ports BY Numbers DEF FreePorts
  <2>2. FreePorts(c, slow) # {} => Min(FreePorts(c, slow)) \in Ports
    BY <2>1, Numbers, LowestPort
  <2> QED BY <2>1, <2>2 DEF NewPorts
<1>4. PICK n \in Ports, b \in Browsers :
        /\ browser[b].at = "none"
        /\ browser' = [browser EXCEPT ![b] =
             [profile |-> k.profile, port |-> n, headless |-> headless, at |-> "starting"]]
        /\ portmap' = portmap \/ portmap' = [portmap EXCEPT ![n] = b]
        /\ Goes(c, [k EXCEPT !.port = n, !.own = b, !.at = "await"])
  BY <1>1, <1>3 DEF LaunchBrowser
<1>5. headless \in BOOLEAN OBVIOUS
<1> HIDE DEF headless
<1> DEFINE new == [profile |-> k.profile, port |-> n, headless |-> headless, at |-> "starting"]
           d == [k EXCEPT !.port = n, !.own = b, !.at = "await"]
<1>6. new \in Browser BY <1>2, <1>5 DEF Browser
<1>7. /\ browser' \in [Browsers -> Browser] /\ browser'[b] = new
      /\ \A a \in Browsers \ {b} : browser'[a] = browser[a]
  BY <1>4, <1>6 DEF LoginTypeOK
<1>8. new.profile = k.profile /\ new.port = n /\ new.headless = headless /\ new.at = "starting"
  OBVIOUS
<1> HIDE DEF new
<1>9. /\ d \in Command /\ d.at = "await" /\ d.profile = k.profile /\ d.port = n /\ d.own = b
      /\ d.via = None
  BY <1>2 DEF Command, CommandPlaces
<1>10. /\ command' \in [Commands -> Command] /\ command'[c] = d
       /\ \A e \in Commands \ {c} : command'[e] = command[e]
  BY <1>4, <1>9 DEF Goes, LoginTypeOK
<1> HIDE DEF d
<1>11. Aged BY <1>4, <1>7, <1>8 DEF Aged, Aging
<1>12. RestOK' /\ UNCHANGED left BY DEF LaunchBrowser, RestOK, LoginTypeOK
<1>13. MapFrom BY <1>4, <1>7, <1>8 DEF MapFrom, LoginTypeOK, PortMap
<1>14. LoginTypeOK' BY <1>7, <1>10, <1>12, <1>13 DEF LoginTypeOK, PortMap, RestOK, MapFrom
<1>15. MapInv' BY <1>11, <1>13, MapKept
<1>16. OneListens' BY <1>7, <1>8 DEF OneListens
<1>17. NoHeadlessLeft'
  <2> SUFFICES ASSUME NEW a \in Browsers, Alive(a)', browser'[a].headless, a \notin left'
               PROVE  \E e \in Commands : command'[e].own = a
    BY DEF NoHeadlessLeft
  <2>1. CASE a = b BY <1>9, <1>10, <2>1
  <2>2. CASE a # b
    <3>1. Alive(a) /\ browser[a].headless /\ a \notin left BY <1>7, <1>12, <2>2 DEF Alive
    <3>2. PICK e \in Commands : command[e].own = a BY <3>1 DEF NoHeadlessLeft
    <3>3. e # c BY <1>1, <1>2, <3>2, Numbers
    <3> QED BY <1>10, <3>2, <3>3
  <2> QED BY <2>1, <2>2
<1>18. (\A e \in Commands : Holds(command[e]) /\ Outrun(command[e]))'
  <2> SUFFICES ASSUME NEW e \in Commands PROVE Holds(command[e])' /\ Outrun(command[e])'
    OBVIOUS
  <2>1. CASE e = c
    <3>1. command'[e] = d /\ d.own \in Browsers BY <1>9, <1>10, <2>1
    <3> QED BY <1>7, <1>8, <1>9, <3>1, Numbers DEF Holds, Outrun, Listens, Early
  <2>2. CASE e # c
    <3>1. PICK q \in Command : q = command[e] BY CommandType
    <3>2. Holds(q)' /\ Outrun(q)' BY <1>11, <3>1, HoldsAged
    <3>3. command'[e] = q BY <1>10, <2>2, <3>1
    <3> QED BY <3>2, <3>3 DEF Holds, Outrun
  <2> QED BY <2>1, <2>2
<1>19. StopsOwn(c) BY <1>4, <1>7, <1>8 DEF StopsOwn, Listens
<1> QED BY <1>14, <1>15, <1>16, <1>17, <1>18, <1>19

-----------------------------------------------------------------------------
\* At first there is no browser.
LEMMA LoginStarts == LoginInit => LoginIInv
<1> SUFFICES ASSUME LoginInit PROVE LoginIInv OBVIOUS
<1> USE DEF LoginInit
<1>1. Anyone \in Profiles BY ProfilesAssumption DEF Anyone
<1>2. Idle(Anyone) \in Command /\ Holds(Idle(Anyone)) /\ Outrun(Idle(Anyone))
  BY <1>1, IdleType, EarlyFine DEF Early
<1>3. LoginTypeOK
  BY <1>1, <1>2, Numbers, BoundsAssumption DEF LoginTypeOK, PortMap, NoEntry, Browser
<1>4. OneListens /\ MapInv /\ NoHeadlessLeft
  BY DEF OneListens, NoEntry, MapInv, NoHeadlessLeft, Alive
<1> QED BY <1>2, <1>3, <1>4 DEF LoginIInv

\* Every step of a command keeps the invariant and ends only what it may.
LEMMA CommandSteps ==
    ASSUME LoginIInv, NEW c \in Commands,
           \/ \E op \in {"login", "refresh", "transport"}, p \in Profiles : Begin(c, op, p)
           \/ CommandStep(c) \/ Killed(c)
    PROVE  LoginIInv' /\ StopsOwn(c)
<1>1. CASE \E op \in {"login", "refresh", "transport"}, p \in Profiles : Begin(c, op, p)
  BY <1>1, BeginKeeps
<1>2. CASE CommandStep(c)
  <2>1. CASE Fails(c) BY <2>1, GivesUpKeeps DEF Fails
  <2> QED BY <1>2, <2>1, ClearKeeps, SweepKeeps, ProbeKeeps, KillKeeps, LockKeeps, FindKeeps,
             LaunchBrowserKeeps, AnsweredKeeps, AnsweredElsewhereKeeps, SignedInKeeps,
             SaveKeeps, MismatchKeeps, CloseKeeps DEF CommandStep
<1>3. CASE Killed(c) BY <1>3, KilledKeeps
<1> QED BY <1>1, <1>2, <1>3

\* A step of one command is none of another.
LEMMA OthersWait ==
    ASSUME LoginIInv, NEW c \in Commands,
           \/ \E op \in {"login", "refresh", "transport"}, p \in Profiles : Begin(c, op, p)
           \/ CommandStep(c) \/ Killed(c)
    PROVE  \A e \in Commands \ {c} : command'[e] = command[e]
<1>1. \A d : Goes(c, d) => \A e \in Commands \ {c} : command'[e] = command[e]
  BY DEF Goes, LoginIInv, LoginTypeOK
<1>2. \E d : Goes(c, d)
  <2>1. CASE \E op \in {"login", "refresh", "transport"}, p \in Profiles : Begin(c, op, p)
    BY <2>1 DEF Begin
  <2>2. CASE Killed(c) BY <2>2 DEF Killed, Leaves
  <2>3. CASE Clear(c) \/ Sweep(c) BY <2>3 DEF Clear, Sweep, GoesOver, To
  <2>a. CASE Probe(c) \/ Kill(c) BY <2>a DEF Probe, Kill, GoesOver
  <2>4. CASE Lock(c) BY <2>4 DEF Lock, To
  <2>5. CASE Find(c) BY <2>5 DEF Find, To
  <2>6. CASE LaunchBrowser(c) BY <2>6 DEF LaunchBrowser
  <2>7. CASE Fails(c) BY <2>7 DEF Fails, GivesUp, Leaves
  <2>8. CASE Answered(c) \/ AnsweredElsewhere(c) BY <2>8 DEF Answered, AnsweredElsewhere
  <2>9. CASE SignedIn(c) \/ Save(c) BY <2>9 DEF SignedIn, Save, To
  <2>10. CASE Mismatch(c) BY <2>10 DEF Mismatch
  <2>11. CASE Close(c) BY <2>11 DEF Close, Leaves
  <2> QED BY <2>1, <2>2, <2>3, <2>a, <2>4, <2>5, <2>6, <2>7, <2>8, <2>9, <2>10, <2>11
          DEF CommandStep
<1> QED BY <1>1, <1>2

\* The step of StopsByRace.
StopsOwnOnly ==
    \A b \in Browsers, c \in Commands :
         Listens(b) /\ Stops(c, b) =>
            \/ browser[b].profile = command[c].profile
            \/ command[c].own # None /\ browser[command[c].own].port = browser[b].port
            \/ b = command[c].mute

\* Every step.
LEMMA LoginKept ==
    LoginIInv /\ [LoginNext]_loginVars => LoginIInv' /\ StopsOwnOnly
<1> SUFFICES ASSUME LoginIInv, [LoginNext]_loginVars PROVE LoginIInv' /\ StopsOwnOnly OBVIOUS
<1>1. CASE \E b \in Browsers : Starts(b) \/ Quits(b)
  <2>1. UNCHANGED command BY <1>1 DEF Starts, Quits
  <2> QED BY <1>1, <2>1, BrowserKeeps DEF StopsOwnOnly, Stops
<1>2. ASSUME NEW c \in Commands,
             \/ \E op \in {"login", "refresh", "transport"}, p \in Profiles : Begin(c, op, p)
             \/ CommandStep(c) \/ Killed(c)
      PROVE  LoginIInv' /\ StopsOwnOnly
  BY <1>2, CommandSteps, OthersWait DEF StopsOwn, StopsOwnOnly, Stops
<1>3. CASE UNCHANGED loginVars
  BY <1>3 DEF loginVars, LoginIInv, LoginTypeOK, OneListens, MapInv, NoHeadlessLeft, Holds,
              Outrun, Listens, Alive, StopsOwnOnly, Stops
<1> QED BY <1>1, <1>2, <1>3 DEF LoginNext

\* The invariant holds in every reachable state.
LEMMA LoginAlways == LoginSpec => []LoginIInv
BY LoginStarts, LoginKept, PTL DEF LoginSpec

\* The declared types are kept; the port of a new browser exists, and a browser is named
\* wherever one is talked to.
THEOREM LoginTypesKept == LoginSpec => []LoginTypeOK
<1>1. LoginIInv => LoginTypeOK BY DEF LoginIInv
<1> QED BY <1>1, LoginAlways, PTL

\* A command works in a page of another profile's browser only on a port that a browser of
\* its own profile was started for and did not get, or lost.
THEOREM StrangersOnlyByRace == LoginSpec => []StrangersByRace
<1>1. LoginIInv => StrangersByRace
  BY DEF LoginIInv, Outrun, StrangersByRace
<1> QED BY <1>1, LoginAlways, PTL

\* No headless browser is left by a command that was not killed, however it ended.
THEOREM HeadlessAreClosed == LoginSpec => []NoHeadlessLeft
<1>1. LoginIInv => NoHeadlessLeft BY DEF LoginIInv
<1> QED BY <1>1, LoginAlways, PTL

\* A command ends no listening browser of another profile, but on the port that it has
\* started one for, or when it has just asked it on its port without an answer.
THEOREM StopsOnlyByRace == LoginSpec => StopsByRace
<1>1. LoginIInv /\ [LoginNext]_loginVars =>
        [\A b \in Browsers, c \in Commands :
         Listens(b) /\ Stops(c, b) =>
            \/ browser[b].profile = command[c].profile
            \/ command[c].own # None /\ browser[command[c].own].port = browser[b].port
            \/ b = command[c].mute]_loginVars
  BY LoginKept DEF StopsOwnOnly
<1> QED BY <1>1, LoginAlways, PTL DEF LoginSpec, StopsByRace
=============================================================================
