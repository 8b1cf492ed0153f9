------------------------- MODULE NotebookWorkProofs -------------------------
(***************************************************************************)
(* Proofs about NotebookWork, for any number of threads, names, elements   *)
(* and calls, part by part: the report elements, whose locks keep the two  *)
(* requests of a kickoff together; research; the sources; and the          *)
(* pipelines, which need what the parts know.                              *)
(***************************************************************************)
EXTENDS NotebookWork, FiniteSetTheorems, SequenceTheorems, SequencesExt, TLAPS

Working == {"check", "fields", "kick", "reconcile"}

\* A coarse type, without a bound for the kickoffs.
SomeElement == [status : {"suggested", "started"}, options : Threads \cup {Nobody}, runs : Nat,
                by : Threads \cup {Nobody}, prompt : Threads \cup {Nobody}]

Typed ==
    /\ element \in [Elements -> SomeElement]
    /\ flying \subseteq Elements \X Threads
    /\ strayed \subseteq Elements \X Threads /\ setting \subseteq strayed
    /\ lock \in [Elements -> Threads \cup {Nobody}]
    /\ batch \in [Threads -> R!Batch]
    /\ doubted \subseteq Elements

\* Whoever works on an element has its lock.
Holds ==
    \A t \in Threads : batch[t].at \in Working =>
        batch[t].plan # <<>> /\ lock[R!This(t)] = t

\* The options of an element are those of a thread, or of a request that went astray.
Chosen(astray, e, options, t) == options = t \/ <<e, options>> \in astray

\* A kickoff is under way, of an element that nobody was told is in doubt: its thread is
\* reading the element, which has not started and has the thread's options, or such.
InFlight ==
    \A e \in Elements, t \in Threads : <<e, t>> \in flying /\ e \notin doubted =>
        /\ batch[t].at = "reconcile" /\ e = R!This(t)
        /\ element[e].status = "suggested" /\ Chosen(strayed, e, element[e].options, t)

\* Under its lock an element is kicked off only if it has not started.
Kicking ==
    \A t \in Threads : batch[t].at \in {"fields", "kick"} /\ R!This(t) \notin doubted =>
        /\ element[R!This(t)].status = "suggested"
        /\ batch[t].at = "kick" => Chosen(strayed, R!This(t), element[R!This(t)].options, t)

Once ==
    \A e \in Elements : e \notin doubted =>
        /\ element[e].status = "suggested" => element[e].runs = 0
        /\ element[e].runs <= 1 /\ Chosen(strayed, e, element[e].prompt, element[e].by)

IInv == Typed /\ Holds /\ InFlight /\ Kicking /\ Once

-----------------------------------------------------------------------------
\* Records and functions.

LEMMA ThisType ==
    ASSUME Typed, Holds, NEW t \in Threads, batch[t].at \in Working
    PROVE  R!This(t) \in Elements /\ batch[t].plan # <<>> /\ lock[R!This(t)] = t
  BY DEF Typed, Holds, R!This, R!Batch

LEMMA GoesType ==
    ASSUME Typed, NEW t \in Threads, NEW r \in R!Batch, R!Goes(t, r)
    PROVE  /\ batch' \in [Threads -> R!Batch] /\ batch'[t] = r
           /\ \A u \in Threads \ {t} : batch'[u] = batch[u]
  BY DEF Typed, R!Goes

LEMMA AtType ==
    ASSUME NEW b \in R!Batch, NEW place \in R!Places
    PROVE  LET c == [b EXCEPT !.at = place]
           IN c \in R!Batch /\ c.at = place /\ c.plan = b.plan
  BY DEF R!Batch

LEMMA ResultType ==
    ASSUME NEW b \in R!Batch, b.plan # <<>>, NEW outcome \in R!Outcomes, NEW stop \in BOOLEAN
    PROVE  /\ R!Result(b, outcome) \in R!Batch /\ R!Result(b, outcome).at = "lock"
           /\ LET c == [R!Result(b, outcome) EXCEPT !.stopped = stop]
              IN c \in R!Batch /\ c.at = "lock"
  <1>1. Head(b.plan) \in Elements /\ Tail(b.plan) \in Seq(Elements)
    BY DEF R!Batch
  <1>2. 0 \in 0 .. Reads
    BY BoundsAssumption
  <1>3. R!Result(b, outcome) \in R!Batch /\ R!Result(b, outcome).at = "lock"
    BY <1>1, <1>2 DEF R!Result, R!Batch, R!Places
  <1>4. QED
    BY <1>3 DEF R!Batch

LEMMA IdleType == R!Idle \in R!Batch /\ R!Idle.at = "idle"
  BY BoundsAssumption DEF R!Idle, R!Batch, R!Places

\* Two threads do not work on one element.
LEMMA Alone ==
    ASSUME Typed, Holds, NEW t \in Threads, NEW u \in Threads,
           batch[t].at \in Working, batch[u].at \in Working, R!This(t) = R!This(u)
    PROVE  t = u
  BY DEF Holds

\* Requests for options that went astray are never forgotten.
OptionsKept ==
    /\ strayed \subseteq strayed' /\ setting' \subseteq strayed'
    /\ strayed' \in SUBSET (Elements \X Threads)

LEMMA NoneStray ==
    ASSUME IInv, UNCHANGED <<setting, strayed>>
    PROVE  OptionsKept
  BY DEF IInv, Typed, OptionsKept

-----------------------------------------------------------------------------
\* Steps after which a thread works on no element.

LEMMA Leaves ==
    ASSUME IInv, NEW t \in Threads, NEW r \in R!Batch, r.at \notin Working, R!Goes(t, r),
           \/ lock' = lock
           \/ batch[t].at \in Working /\ lock' = [lock EXCEPT ![R!This(t)] = Nobody],
           UNCHANGED <<element, flying>>, OptionsKept,
           doubted' \in SUBSET Elements, doubted \subseteq doubted',
           \A e \in Elements : <<e, t>> \in flying => e \in doubted'
    PROVE  IInv'
  <1>1. Typed /\ Holds
    BY DEF IInv
  <1>2. /\ batch' \in [Threads -> R!Batch] /\ batch'[t] = r
        /\ \A u \in Threads \ {t} : batch'[u] = batch[u] /\ R!This(u)' = R!This(u)
    BY <1>1, GoesType DEF R!This
  <1>3. \A u \in Threads \ {t} : batch[u].at \in Working => lock'[R!This(u)] = u
    <2>1. SUFFICES ASSUME NEW u \in Threads \ {t}, batch[u].at \in Working
                   PROVE  lock'[R!This(u)] = u
      OBVIOUS
    <2>2. R!This(u) \in Elements /\ lock[R!This(u)] = u
      BY <1>1, <2>1, ThisType
    <2>3. CASE batch[t].at \in Working /\ lock' = [lock EXCEPT ![R!This(t)] = Nobody]
      <3>1. R!This(t) # R!This(u)
        BY <1>1, <2>1, <2>3, Alone
      <3>2. QED
        BY <1>1, <2>2, <2>3, <3>1 DEF Typed
    <2>4. QED
      BY <2>2, <2>3
  <1>4. Typed'
    BY <1>1, <1>2, ThisType DEF Typed, OptionsKept
  <1>5. Holds'
    BY <1>1, <1>2, <1>3 DEF Holds
  <1>6. InFlight'
    BY <1>2 DEF IInv, InFlight, Chosen, OptionsKept
  <1>7. Kicking'
    BY <1>2 DEF IInv, Kicking, Working, Chosen, OptionsKept
  <1>8. Once'
    BY DEF IInv, Once, Chosen, OptionsKept
  <1>9. QED
    BY <1>4, <1>5, <1>6, <1>7, <1>8 DEF IInv

\* A thread that is not waiting for its kickoff has none under way, but in doubt.
LEMMA NoneFlies ==
    ASSUME IInv, NEW t \in Threads, batch[t].at # "reconcile"
    PROVE  \A e \in Elements : <<e, t>> \in flying => e \in doubted
  BY DEF IInv, InFlight

\* An element's kickoff is under way only by the thread that has its lock.
LEMMA OnlyOwn ==
    ASSUME IInv, NEW t \in Threads, batch[t].at \in Working, R!This(t) \notin doubted,
           NEW u \in Threads, <<R!This(t), u>> \in flying
    PROVE  u = t /\ batch[t].at = "reconcile"
  <1>1. R!This(t) \in Elements
    BY ThisType DEF IInv
  <1>2. batch[u].at = "reconcile" /\ R!This(u) = R!This(t)
    BY <1>1 DEF IInv, InFlight
  <1>3. u = t
    BY <1>2, Alone DEF IInv, Working
  <1>4. QED
    BY <1>2, <1>3

\* Going through a plan: an element is passed over, refused, or done with.
LEMMA EndSteps ==
    ASSUME IInv, NEW t \in Threads,
           R!PassOver(t) \/ R!LockBusy(t) \/ R!Fails(t) \/ R!Finish(t)
    PROVE  IInv'
  <1>1. Typed /\ Holds /\ batch[t] \in R!Batch /\ doubted \in SUBSET Elements
    BY DEF IInv, Typed
  <1>0. OptionsKept
    BY NoneStray DEF R!PassOver, R!LockBusy, R!Fails, R!Finish
  <1>2. CASE R!PassOver(t)
    <2>1. batch[t].plan # <<>> /\ batch[t].at = "lock"
      BY <1>2 DEF R!PassOver
    <2>2. R!Result(batch[t], "not_started") \in R!Batch
          /\ R!Result(batch[t], "not_started").at = "lock"
      BY <1>1, <2>1, ResultType DEF R!Outcomes
    <2>3. QED
      BY <1>0, <1>1, <1>2, <2>1, <2>2, NoneFlies, Leaves DEF R!PassOver, Working
  <1>3. CASE R!LockBusy(t)
    <2>1. batch[t].plan # <<>> /\ batch[t].at = "lock"
      BY <1>3 DEF R!LockBusy
    <2>2. R!Result(batch[t], "failed") \in R!Batch /\ R!Result(batch[t], "failed").at = "lock"
      BY <1>1, <2>1, ResultType DEF R!Outcomes
    <2>3. QED
      BY <1>0, <1>1, <1>3, <2>1, <2>2, NoneFlies, Leaves DEF R!LockBusy, Working
  <1>4. CASE R!Fails(t)
    <2>1. PICK stop \in BOOLEAN : R!Finishes(t, "failed", stop)
      BY <1>4 DEF R!Fails
    <2>2. batch[t].at \in Working /\ batch[t].at # "reconcile" /\ batch[t].plan # <<>>
      BY <1>1, <1>4, ThisType DEF R!Fails, Working
    <2> DEFINE r == [R!Result(batch[t], "failed") EXCEPT !.stopped = stop]
    <2>3. r \in R!Batch /\ r.at = "lock"
      BY <1>1, <2>2, ResultType DEF R!Outcomes
    <2>4. R!Goes(t, r) /\ lock' = [lock EXCEPT ![R!This(t)] = Nobody]
      BY <2>1 DEF R!Finishes
    <2>5. UNCHANGED <<element, flying, doubted>>
      BY <1>4 DEF R!Fails
    <2> HIDE DEF r
    <2>6. QED
      BY <1>0, <1>1, <2>2, <2>3, <2>4, <2>5, NoneFlies, Leaves DEF Working
  <1>5. CASE R!Finish(t)
    BY <1>0, <1>1, <1>5, IdleType, NoneFlies, Leaves DEF R!Finish, Working
  <1>6. QED
    BY <1>2, <1>3, <1>4, <1>5

\* A plan of elements is a sequence of them.
LEMMA PlanType ==
    ASSUME NEW plan \in R!SetToAllKPermutations(Elements)
    PROVE  plan \in Seq(Elements)
  <1>1. PICK s \in SUBSET Elements : plan \in R!SetToSeqs(s)
    BY DEF R!SetToAllKPermutations
  <1>2. IsFiniteSet(s)
    BY ElementsAssumption, FS_Subset
  <1>3. Cardinality(s) \in Nat
    BY <1>2, FS_CardinalityType
  <1>4. R!Cardinality(s) = Cardinality(s)
    BY DEF R!Cardinality, Cardinality
  <1>5. plan \in [1 .. Cardinality(s) -> s]
    BY <1>1, <1>4 DEF R!SetToSeqs
  <1>6. QED
    BY <1>3, <1>5

LEMMA GenerateStep ==
    ASSUME IInv, NEW t \in Threads, R!StartsBatch(t)
    PROVE  IInv'
  <1>1. PICK plan \in R!SetToAllKPermutations(Elements) : R!Generate(t, plan)
    BY DEF R!StartsBatch
  <1>2. batch[t].at = "idle" /\ UNCHANGED <<element, flying, setting, strayed, lock, doubted>>
        /\ R!Goes(t, [R!Idle EXCEPT !.at = "lock", !.plan = plan])
    BY <1>1 DEF R!Generate
  <1>3. [R!Idle EXCEPT !.at = "lock", !.plan = plan] \in R!Batch
        /\ [R!Idle EXCEPT !.at = "lock", !.plan = plan].at = "lock"
    BY IdleType, PlanType DEF R!Batch, R!Places
  <1>4. doubted \in SUBSET Elements
    BY DEF IInv, Typed
  <1>5. QED
    BY <1>2, <1>3, <1>4, NoneStray, NoneFlies, Leaves DEF Working

-----------------------------------------------------------------------------
\* Steps under the lock of an element.

\* A thread goes to another place with the same plan.
LEMMA Moves ==
    ASSUME IInv, NEW t \in Threads, NEW place \in R!Places,
           R!Goes(t, [batch[t] EXCEPT !.at = place])
    PROVE  /\ batch' \in [Threads -> R!Batch] /\ batch'[t].at = place
           /\ batch'[t].plan = batch[t].plan /\ R!This(t)' = R!This(t)
           /\ \A u \in Threads \ {t} : batch'[u] = batch[u] /\ R!This(u)' = R!This(u)
  <1> DEFINE r == [batch[t] EXCEPT !.at = place]
  <1>1. batch[t] \in R!Batch
    BY DEF IInv, Typed
  <1>2. r \in R!Batch /\ r.at = place /\ r.plan = batch[t].plan
    BY <1>1, AtType
  <1>3. R!Goes(t, r)
    OBVIOUS
  <1> HIDE DEF r
  <1>4. /\ batch' \in [Threads -> R!Batch] /\ batch'[t] = r
        /\ \A u \in Threads \ {t} : batch'[u] = batch[u]
    BY <1>2, <1>3, GoesType DEF IInv
  <1>5. QED
    BY <1>2, <1>4 DEF R!This

LEMMA LockStep ==
    ASSUME IInv, NEW t \in Threads, R!Lock(t)
    PROVE  IInv'
  <1>1. /\ batch[t].at = "lock" /\ batch[t].plan # <<>> /\ lock[R!This(t)] = Nobody
        /\ lock' = [lock EXCEPT ![R!This(t)] = t]
        /\ UNCHANGED <<element, flying, setting, strayed, doubted>>
        /\ R!Goes(t, [batch[t] EXCEPT !.at = "check"])
    BY DEF R!Lock
  <1>2. /\ batch' \in [Threads -> R!Batch] /\ batch'[t].at = "check"
        /\ batch'[t].plan = batch[t].plan /\ R!This(t)' = R!This(t)
        /\ \A u \in Threads \ {t} : batch'[u] = batch[u] /\ R!This(u)' = R!This(u)
    BY <1>1, Moves DEF R!Places
  <1>3. R!This(t) \in Elements
    BY <1>1 DEF IInv, Typed, R!Batch, R!This
  <1>4. Typed'
    BY <1>1, <1>2, <1>3 DEF IInv, Typed
  <1>5. \A u \in Threads : batch[u].at \in Working =>
            R!This(u) \in Elements /\ R!This(u) # R!This(t) /\ lock[R!This(u)] = u
    BY <1>1, ElementsAssumption, ThisType DEF IInv
  <1>6. Holds'
    BY <1>1, <1>2, <1>3, <1>5 DEF IInv, Typed, Holds
  <1>7. InFlight' /\ Kicking' /\ Once'
    BY <1>1, <1>2 DEF IInv, InFlight, Kicking, Once
  <1>8. QED
    BY <1>4, <1>6, <1>7 DEF IInv

\* The second look at the element.
LEMMA CheckStep ==
    ASSUME IInv, NEW t \in Threads, R!Check(t)
    PROVE  IInv'
  <1>1. /\ batch[t].at = "check" /\ UNCHANGED <<element, flying, setting, strayed, doubted>>
        /\ Typed /\ Holds /\ batch[t] \in R!Batch /\ doubted \in SUBSET Elements
    BY DEF R!Check, IInv, Typed
  <1>2. R!This(t) \in Elements /\ batch[t].plan # <<>> /\ lock[R!This(t)] = t
    BY <1>1, ThisType DEF Working
  <1>3. CASE element[R!This(t)].status = "suggested"
    <2>1. R!Goes(t, [batch[t] EXCEPT !.at = "fields"]) /\ UNCHANGED lock
      BY <1>3 DEF R!Check
    <2>2. /\ batch' \in [Threads -> R!Batch] /\ batch'[t].at = "fields"
          /\ batch'[t].plan = batch[t].plan /\ R!This(t)' = R!This(t)
          /\ \A u \in Threads \ {t} : batch'[u] = batch[u] /\ R!This(u)' = R!This(u)
      BY <2>1, Moves DEF R!Places
    <2>3. Typed' /\ Holds'
      BY <1>1, <1>2, <2>1, <2>2 DEF Typed, Holds
    <2>4. InFlight' /\ Kicking' /\ Once'
      BY <1>1, <1>3, <2>2 DEF IInv, InFlight, Kicking, Once
    <2>5. QED
      BY <2>3, <2>4 DEF IInv
  <1>4. CASE element[R!This(t)].status # "suggested"
    <2> DEFINE r == [R!Result(batch[t], "failed") EXCEPT !.stopped = FALSE]
    <2>1. r \in R!Batch /\ r.at = "lock"
      BY <1>1, <1>2, ResultType DEF R!Outcomes
    <2>2. R!Goes(t, r) /\ lock' = [lock EXCEPT ![R!This(t)] = Nobody]
      BY <1>4 DEF R!Check, R!Finishes
    <2> HIDE DEF r
    <2>3. QED
      BY <1>1, <2>1, <2>2, NoneStray, NoneFlies, Leaves DEF Working
  <1>5. QED
    BY <1>3, <1>4

\* Changes of an element by the thread that has its lock leave those of others alone.
LEMMA OthersElements ==
    ASSUME IInv, NEW t \in Threads, batch[t].at \in Working
    PROVE  /\ \A u \in Threads \ {t} : batch[u].at \in Working => R!This(u) # R!This(t)
           /\ \A e \in Elements, u \in Threads \ {t} :
                <<e, u>> \in flying /\ e \notin doubted => e # R!This(t)
  <1>1. \A u \in Threads \ {t} : batch[u].at \in Working => R!This(u) # R!This(t)
    BY Alone DEF IInv
  <1>2. QED
    BY <1>1 DEF IInv, InFlight, Working

LEMMA Releases ==
    ASSUME IInv, NEW t \in Threads, batch[t].at \in Working,
           NEW r \in R!Batch, r.at \notin Working, R!Goes(t, r),
           lock' = [lock EXCEPT ![R!This(t)] = Nobody],
           element' \in [Elements -> SomeElement],
           \A e \in Elements \ {R!This(t)} : element'[e] = element[e],
           flying' \in SUBSET (Elements \X Threads), OptionsKept,
           \A e \in Elements, u \in Threads :
               <<e, u>> \in flying' => <<e, u>> \in flying \/ (e = R!This(t) /\ u = t),
           doubted' \in SUBSET Elements, doubted \subseteq doubted',
           \A e \in Elements : <<e, t>> \in flying' => e \in doubted',
           R!This(t) \notin doubted' =>
               /\ element'[R!This(t)].status = "suggested" => element'[R!This(t)].runs = 0
               /\ element'[R!This(t)].runs <= 1
               /\ Chosen(strayed', R!This(t), element'[R!This(t)].prompt, element'[R!This(t)].by)
    PROVE  IInv'
  <1>1. Typed /\ Holds
    BY DEF IInv
  <1>2. /\ batch' \in [Threads -> R!Batch] /\ batch'[t] = r
        /\ \A u \in Threads \ {t} : batch'[u] = batch[u] /\ R!This(u)' = R!This(u)
    BY <1>1, GoesType DEF R!This
  <1>3. \A u \in Threads \ {t} : batch[u].at \in Working =>
            /\ R!This(u) \in Elements /\ R!This(u) # R!This(t) /\ batch[u].plan # <<>>
            /\ lock[R!This(u)] = u
    BY <1>1, OthersElements, ThisType
  <1>4. Typed'
    BY <1>1, <1>2, ThisType DEF Typed, OptionsKept
  <1>5. \A u \in Threads \ {t} : batch[u].at \in Working => lock'[R!This(u)] = u
    BY <1>1, <1>3 DEF Typed
  <1>6. Holds'
    BY <1>2, <1>3, <1>5 DEF Holds
  <1>7. InFlight'
    <2>1. SUFFICES ASSUME NEW e \in Elements, NEW u \in Threads, <<e, u>> \in flying',
                          e \notin doubted'
                   PROVE  /\ batch'[u].at = "reconcile" /\ e = R!This(u)'
                          /\ element'[e].status = "suggested"
                          /\ Chosen(strayed', e, element'[e].options, u)
      BY DEF InFlight, Chosen
    <2>2. u # t /\ <<e, u>> \in flying /\ e \notin doubted
      BY <2>1
    <2>3. e # R!This(t) /\ batch[u].at = "reconcile" /\ e = R!This(u)
          /\ element[e].status = "suggested" /\ Chosen(strayed, e, element[e].options, u)
      BY <2>2, OthersElements DEF IInv, InFlight
    <2>4. QED
      BY <1>2, <2>2, <2>3 DEF Chosen, OptionsKept
  <1>8. Kicking'
    <2>1. SUFFICES ASSUME NEW u \in Threads, batch'[u].at \in {"fields", "kick"},
                          R!This(u)' \notin doubted'
                   PROVE  /\ element'[R!This(u)'].status = "suggested"
                          /\ batch'[u].at = "kick" =>
                               Chosen(strayed', R!This(u)', element'[R!This(u)'].options, u)
      BY DEF Kicking, Chosen
    <2>2. u # t
      BY <1>2, <2>1 DEF Working
    <2>3. batch'[u] = batch[u] /\ R!This(u)' = R!This(u) /\ batch[u].at \in Working
      BY <1>2, <2>1, <2>2 DEF Working
    <2>4. element'[R!This(u)] = element[R!This(u)]
      BY <1>3, <2>2, <2>3
    <2>5. QED
      BY <2>1, <2>3, <2>4 DEF IInv, Kicking, Chosen, OptionsKept
  <1>9. Once'
    <2>1. SUFFICES ASSUME NEW e \in Elements, e \notin doubted'
                   PROVE  /\ element'[e].status = "suggested" => element'[e].runs = 0
                          /\ element'[e].runs <= 1
                          /\ Chosen(strayed', e, element'[e].prompt, element'[e].by)
      BY DEF Once, Chosen
    <2>2. CASE e = R!This(t)
      BY <2>1, <2>2
    <2>3. CASE e # R!This(t)
      BY <2>1, <2>3 DEF IInv, Once, Chosen, OptionsKept
    <2>4. QED
      BY <2>2, <2>3
  <1>10. QED
    BY <1>4, <1>6, <1>7, <1>8, <1>9 DEF IInv

\* The service executes a kickoff.
LEMMA KickedType ==
    ASSUME Typed, NEW e \in Elements, NEW t \in Threads, R!Kicked(e, t)
    PROVE  /\ element' \in [Elements -> SomeElement]
           /\ \A f \in Elements \ {e} : element'[f] = element[f]
           /\ element'[e].status = "started" /\ element'[e].runs = element[e].runs + 1
           /\ element'[e].by = t /\ element'[e].prompt = element[e].options
  <1>1. element[e] \in SomeElement
    BY DEF Typed
  <1> DEFINE k == [element[e] EXCEPT !.status = "started", !.runs = @ + 1, !.by = t,
                                     !.prompt = element[e].options]
  <1>2. /\ k \in SomeElement /\ k.status = "started" /\ k.runs = element[e].runs + 1
        /\ k.by = t /\ k.prompt = element[e].options
    <2>1. element[e].runs + 1 \in Nat /\ element[e].options \in Threads \cup {Nobody}
          /\ t \in Threads \cup {Nobody} /\ "started" \in {"suggested", "started"}
      BY <1>1 DEF SomeElement
    <2>2. /\ k.status = "started" /\ k.runs = element[e].runs + 1
          /\ k.by = t /\ k.prompt = element[e].options
      BY <1>1 DEF SomeElement
    <2>3. k \in SomeElement
      BY <1>1, <2>1 DEF SomeElement
    <2>4. QED
      BY <2>2, <2>3
  <1>3. element' = [element EXCEPT ![e] = k]
    BY DEF R!Kicked
  <1> HIDE DEF k
  <1>4. QED
    BY <1>2, <1>3 DEF Typed

\* A thread keeps working on its element, under its lock.
LEMMA Remains ==
    ASSUME IInv, NEW t \in Threads, batch[t].at \in Working,
           batch' \in [Threads -> R!Batch], batch'[t].at \in {"kick", "reconcile"},
           batch'[t].plan = batch[t].plan, R!This(t)' = R!This(t),
           \A u \in Threads \ {t} : batch'[u] = batch[u] /\ R!This(u)' = R!This(u),
           UNCHANGED <<lock, doubted>>,
           element' \in [Elements -> SomeElement],
           \A e \in Elements \ {R!This(t)} : element'[e] = element[e],
           flying' \in SUBSET (Elements \X Threads), OptionsKept,
           \A e \in Elements, u \in Threads :
               <<e, u>> \in flying' => <<e, u>> \in flying \/ (e = R!This(t) /\ u = t),
           R!This(t) \notin doubted =>
               /\ element'[R!This(t)].status = "suggested" => element'[R!This(t)].runs = 0
               /\ element'[R!This(t)].runs <= 1
               /\ Chosen(strayed', R!This(t), element'[R!This(t)].prompt, element'[R!This(t)].by)
               /\ batch'[t].at = "kick" \/ <<R!This(t), t>> \in flying' =>
                      /\ element'[R!This(t)].status = "suggested"
                      /\ Chosen(strayed', R!This(t), element'[R!This(t)].options, t)
               /\ batch'[t].at = "kick" => <<R!This(t), t>> \notin flying'
    PROVE  IInv'
  <1>1. Typed /\ Holds
    BY DEF IInv
  <1>2. \A u \in Threads \ {t} : batch[u].at \in Working =>
            R!This(u) \in Elements /\ R!This(u) # R!This(t)
    BY <1>1, OthersElements, ThisType
  <1>3. Typed'
    BY <1>1 DEF Typed, OptionsKept
  <1>4. Holds'
    BY <1>1 DEF Holds
  <1>5. InFlight'
    <2>1. SUFFICES ASSUME NEW e \in Elements, NEW u \in Threads, <<e, u>> \in flying',
                          e \notin doubted
                   PROVE  /\ batch'[u].at = "reconcile" /\ e = R!This(u)'
                          /\ element'[e].status = "suggested"
                          /\ Chosen(strayed', e, element'[e].options, u)
      BY DEF InFlight, Chosen
    <2>2. CASE e = R!This(t) /\ u = t
      BY <2>1, <2>2
    <2>3. CASE ~(e = R!This(t) /\ u = t)
      <3>1. <<e, u>> \in flying
        BY <2>1, <2>3
      <3>2. batch[u].at = "reconcile" /\ e = R!This(u)
            /\ element[e].status = "suggested" /\ Chosen(strayed, e, element[e].options, u)
        BY <2>1, <3>1 DEF IInv, InFlight
      <3>3. u # t
        BY <2>3, <3>2
      <3>4. e # R!This(t)
        BY <1>2, <3>2, <3>3 DEF Working
      <3>5. QED
        BY <3>2, <3>3, <3>4 DEF Chosen, OptionsKept
    <2>4. QED
      BY <2>2, <2>3
  <1>6. Kicking'
    <2>1. SUFFICES ASSUME NEW u \in Threads, batch'[u].at \in {"fields", "kick"},
                          R!This(u)' \notin doubted
                   PROVE  /\ element'[R!This(u)'].status = "suggested"
                          /\ batch'[u].at = "kick" =>
                               Chosen(strayed', R!This(u)', element'[R!This(u)'].options, u)
      BY DEF Kicking, Chosen
    <2>2. CASE u = t
      BY <2>1, <2>2
    <2>3. CASE u # t
      <3>1. batch'[u] = batch[u] /\ R!This(u)' = R!This(u) /\ batch[u].at \in Working
        BY <2>1, <2>3 DEF Working
      <3>2. element'[R!This(u)] = element[R!This(u)]
        BY <1>2, <2>3, <3>1
      <3>3. QED
        BY <2>1, <3>1, <3>2 DEF IInv, Kicking, Chosen, OptionsKept
    <2>4. QED
      BY <2>2, <2>3
  <1>7. Once'
    <2>1. SUFFICES ASSUME NEW e \in Elements, e \notin doubted
                   PROVE  /\ element'[e].status = "suggested" => element'[e].runs = 0
                          /\ element'[e].runs <= 1
                          /\ Chosen(strayed', e, element'[e].prompt, element'[e].by)
      BY DEF Once, Chosen
    <2>2. CASE e = R!This(t)
      BY <2>1, <2>2
    <2>3. CASE e # R!This(t)
      BY <2>1, <2>3 DEF IInv, Once, Chosen, OptionsKept
    <2>4. QED
      BY <2>2, <2>3
  <1>8. QED
    BY <1>3, <1>4, <1>5, <1>6, <1>7 DEF IInv

\* What a thread that works on an element relies on.
LEMMA AtWork ==
    ASSUME IInv, NEW t \in Threads, batch[t].at \in Working
    PROVE  /\ R!This(t) \in Elements /\ batch[t].plan # <<>> /\ batch[t] \in R!Batch
           /\ element[R!This(t)] \in SomeElement /\ doubted \in SUBSET Elements
           /\ flying \in SUBSET (Elements \X Threads)
           /\ R!This(t) \notin doubted =>
                /\ element[R!This(t)].status = "suggested" => element[R!This(t)].runs = 0
                /\ element[R!This(t)].runs <= 1
                /\ Chosen(strayed, R!This(t), element[R!This(t)].prompt, element[R!This(t)].by)
                /\ batch[t].at \in {"fields", "kick"} =>
                     element[R!This(t)].status = "suggested"
                /\ batch[t].at = "kick" => Chosen(strayed, R!This(t), element[R!This(t)].options, t)
  <1>1. R!This(t) \in Elements /\ batch[t].plan # <<>>
    BY ThisType DEF IInv
  <1>2. batch[t] \in R!Batch /\ element[R!This(t)] \in SomeElement /\ doubted \in SUBSET Elements
        /\ flying \in SUBSET (Elements \X Threads)
    BY <1>1 DEF IInv, Typed
  <1>3. QED
    BY <1>1, <1>2 DEF IInv, Once, Kicking

\* The result of an element, with which its lock is released.
LEMMA Finished ==
    ASSUME IInv, NEW t \in Threads, batch[t].at \in Working, NEW outcome \in R!Outcomes,
           NEW stop \in BOOLEAN, R!Finishes(t, outcome, stop)
    PROVE  \E r \in R!Batch : /\ r.at \notin Working /\ R!Goes(t, r)
                              /\ lock' = [lock EXCEPT ![R!This(t)] = Nobody]
  <1> DEFINE r == [R!Result(batch[t], outcome) EXCEPT !.stopped = stop]
  <1>1. r \in R!Batch /\ r.at = "lock"
    BY AtWork, ResultType
  <1>2. R!Goes(t, r) /\ lock' = [lock EXCEPT ![R!This(t)] = Nobody]
    BY DEF R!Finishes
  <1> HIDE DEF r
  <1>3. QED
    BY <1>1, <1>2 DEF Working

LEMMA SetFieldsStep ==
    ASSUME IInv, NEW t \in Threads, R!SetFields(t)
    PROVE  IInv'
  <1> DEFINE x == R!This(t)
  <1>1. /\ batch[t].at = "fields" /\ UNCHANGED <<flying, setting, strayed, lock, doubted>>
        /\ element' = [element EXCEPT ![x].options = t]
    BY DEF R!SetFields
  <1>2. batch[t].at \in Working /\ x \in Elements /\ element \in [Elements -> SomeElement]
    BY <1>1, AtWork DEF Working, IInv, Typed
  <1>3. /\ element' \in [Elements -> SomeElement]
        /\ \A e \in Elements \ {x} : element'[e] = element[e]
        /\ element'[x].options = t /\ element'[x].status = element[x].status
        /\ element'[x].runs = element[x].runs /\ element'[x].by = element[x].by
        /\ element'[x].prompt = element[x].prompt
    <2> HIDE DEF x
    <2> DEFINE k == [element[x] EXCEPT !.options = t]
    <2>1. k \in SomeElement /\ k.options = t /\ k.status = element[x].status
          /\ k.runs = element[x].runs /\ k.by = element[x].by /\ k.prompt = element[x].prompt
      BY <1>2 DEF SomeElement
    <2>2. element' = [element EXCEPT ![x] = k]
      BY <1>1
    <2> HIDE DEF k
    <2>3. QED
      BY <1>2, <2>1, <2>2
  <1>4. \A e \in Elements : <<e, t>> \in flying => e \in doubted
    BY <1>1, NoneFlies
  <1>5. /\ batch' \in [Threads -> R!Batch] /\ batch'[t].at = "kick"
        /\ batch'[t].plan = batch[t].plan /\ R!This(t)' = R!This(t)
        /\ \A u \in Threads \ {t} : batch'[u] = batch[u] /\ R!This(u)' = R!This(u)
    BY Moves DEF R!SetFields, R!Places
  <1>6. x \notin doubted =>
          Chosen(strayed', x, element'[x].prompt, element'[x].by)
          /\ Chosen(strayed', x, element'[x].options, t)
    <2>1. x \notin doubted => Chosen(strayed, x, element[x].prompt, element[x].by)
      BY <1>2, AtWork
    <2>2. x \notin doubted => Chosen(strayed, x, element'[x].prompt, element'[x].by)
      BY <1>3, <2>1
    <2>3. Chosen(strayed, x, element'[x].options, t) /\ strayed' = strayed
      BY <1>1, <1>3 DEF Chosen
    <2> HIDE DEF x
    <2>4. QED
      BY <2>2, <2>3
  <1>7. QED
    BY <1>1, <1>2, <1>3, <1>4, <1>5, <1>6, NoneStray, AtWork, Remains

\* The answer to the request for options is lost.
LEMMA FieldsLostStep ==
    ASSUME IInv, NEW t \in Threads, R!FieldsLost(t)
    PROVE  IInv'
  <1>1. /\ batch[t].at = "fields" /\ UNCHANGED <<element, flying, doubted>>
        /\ setting' = setting \cup {<<R!This(t), t>>} /\ strayed' = strayed \cup {<<R!This(t), t>>}
    BY DEF R!FieldsLost
  <1>2. batch[t].at \in Working
    BY <1>1 DEF Working
  <1>3. R!This(t) \in Elements /\ doubted' \in SUBSET Elements
    BY <1>1, <1>2, AtWork
  <1>4. OptionsKept
    BY <1>1, <1>3 DEF IInv, Typed, OptionsKept
  <1>5. CASE UNCHANGED <<batch, lock>>
    <2>1. \A u \in Threads : R!This(u)' = R!This(u)
      BY <1>5 DEF R!This
    <2>2. Typed' /\ Holds'
      BY <1>1, <1>4, <1>5, <2>1 DEF IInv, Typed, Holds, OptionsKept
    <2>3. InFlight' /\ Kicking' /\ Once'
      BY <1>1, <1>4, <1>5, <2>1 DEF IInv, InFlight, Kicking, Once, Chosen, OptionsKept
    <2>4. QED
      BY <2>2, <2>3 DEF IInv
  <1>6. CASE R!Finishes(t, "failed", FALSE)
    <2>1. PICK r \in R!Batch : /\ r.at \notin Working /\ R!Goes(t, r)
                               /\ lock' = [lock EXCEPT ![R!This(t)] = Nobody]
      BY <1>2, <1>6, Finished DEF R!Outcomes
    <2>2. QED
      BY <1>1, <1>2, <1>3, <1>4, <2>1, NoneFlies, Leaves
  <1>7. QED
    BY <1>5, <1>6 DEF R!FieldsLost

\* The kickoff of an element that is in no doubt finds it as its thread has left it.
LEMMA KickedOnce ==
    ASSUME IInv, NEW t \in Threads, batch[t].at = "kick", R!Kicked(R!This(t), t)
    PROVE  /\ element' \in [Elements -> SomeElement]
           /\ \A e \in Elements \ {R!This(t)} : element'[e] = element[e]
           /\ element'[R!This(t)].status = "started"
           /\ R!This(t) \notin doubted =>
                /\ element'[R!This(t)].runs <= 1
                /\ Chosen(strayed, R!This(t), element'[R!This(t)].prompt, element'[R!This(t)].by)
  <1>1. batch[t].at \in Working /\ R!This(t) \in Elements /\ Typed
    BY AtWork DEF Working, IInv
  <1>2. element[R!This(t)] \in SomeElement
    BY <1>1, AtWork
  <1>3. R!This(t) \notin doubted =>
            /\ element[R!This(t)].runs = 0
            /\ Chosen(strayed, R!This(t), element[R!This(t)].options, t)
    BY <1>1, AtWork
  <1>4. QED
    BY <1>1, <1>3, KickedType

LEMMA KickoffStep ==
    ASSUME IInv, NEW t \in Threads, R!Kickoff(t)
    PROVE  IInv'
  <1>1. /\ batch[t].at = "kick" /\ R!Kicked(R!This(t), t) /\ UNCHANGED <<flying, setting, strayed, doubted>>
        /\ R!Finishes(t, "started", FALSE)
    BY DEF R!Kickoff
  <1>2. batch[t].at \in Working
    BY <1>1 DEF Working
  <1>3. \A e \in Elements : <<e, t>> \in flying => e \in doubted
    BY <1>1, NoneFlies
  <1>4. PICK r \in R!Batch : /\ r.at \notin Working /\ R!Goes(t, r)
                             /\ lock' = [lock EXCEPT ![R!This(t)] = Nobody]
    BY <1>1, <1>2, Finished DEF R!Outcomes
  <1>5. QED
    BY <1>1, <1>2, <1>3, <1>4, KickedOnce, AtWork, NoneStray, Releases

\* The answer to the kickoff is lost.
LEMMA KickoffLostStep ==
    ASSUME IInv, NEW t \in Threads, R!KickoffLost(t)
    PROVE  IInv'
  <1>1. /\ batch[t].at = "kick" /\ UNCHANGED <<setting, strayed, lock, doubted>>
        /\ R!Goes(t, [batch[t] EXCEPT !.at = "reconcile"])
    BY DEF R!KickoffLost
  <1>2. batch[t].at \in Working
    BY <1>1 DEF Working
  <1>3. \A e \in Elements : <<e, t>> \in flying => e \in doubted
    BY <1>1, NoneFlies
  <1>4. /\ batch' \in [Threads -> R!Batch] /\ batch'[t].at = "reconcile"
        /\ batch'[t].plan = batch[t].plan /\ R!This(t)' = R!This(t)
        /\ \A u \in Threads \ {t} : batch'[u] = batch[u] /\ R!This(u)' = R!This(u)
    BY <1>1, Moves DEF R!Places
  <1>5. CASE R!Kicked(R!This(t), t) /\ UNCHANGED flying
    BY <1>1, <1>2, <1>3, <1>4, <1>5, KickedOnce, AtWork, NoneStray, Remains
  <1>6. CASE flying' = flying \cup {<<R!This(t), t>>} /\ UNCHANGED element
    <2>1. flying' \in SUBSET (Elements \X Threads)
      BY <1>2, <1>6, AtWork
    <2>2. \A e \in Elements, u \in Threads :
              <<e, u>> \in flying' => <<e, u>> \in flying \/ (e = R!This(t) /\ u = t)
      BY <1>6
    <2>3. element' \in [Elements -> SomeElement]
      BY <1>6 DEF IInv, Typed
    <2>4. QED
      BY <1>1, <1>2, <1>4, <1>6, <2>1, <2>2, <2>3, AtWork, NoneStray, Remains
  <1>7. QED
    BY <1>5, <1>6 DEF R!KickoffLost

\* ... or taken for an error of another kind.
LEMMA KickoffMisreportedStep ==
    ASSUME IInv, NEW t \in Threads, R!KickoffMisreported(t)
    PROVE  IInv'
  <1>1. /\ batch[t].at = "kick" /\ doubted' = doubted \cup {R!This(t)}
        /\ R!Finishes(t, "failed", FALSE) /\ UNCHANGED <<setting, strayed>>
    BY DEF R!KickoffMisreported, R!Doubts
  <1>2. batch[t].at \in Working
    BY <1>1 DEF Working
  <1>3. R!This(t) \in Elements /\ doubted' \in SUBSET Elements /\ doubted \subseteq doubted'
        /\ R!This(t) \in doubted'
    BY <1>1, <1>2, AtWork
  <1>4. \A e \in Elements : <<e, t>> \in flying => e \in doubted
    BY <1>1, NoneFlies
  <1>5. PICK r \in R!Batch : /\ r.at \notin Working /\ R!Goes(t, r)
                             /\ lock' = [lock EXCEPT ![R!This(t)] = Nobody]
    BY <1>1, <1>2, Finished DEF R!Outcomes
  <1>6. CASE R!Kicked(R!This(t), t) /\ UNCHANGED flying
    <2>1. \A e \in Elements : <<e, t>> \in flying' => e \in doubted'
      BY <1>3, <1>4, <1>6
    <2>2. QED
      BY <1>1, <1>2, <1>3, <1>5, <1>6, <2>1, KickedOnce, AtWork, NoneStray, Releases
  <1>7. CASE flying' = flying \cup {<<R!This(t), t>>} /\ UNCHANGED element
    <2>1. flying' \in SUBSET (Elements \X Threads)
      BY <1>2, <1>7, AtWork
    <2>2. \A e \in Elements, u \in Threads :
              <<e, u>> \in flying' => <<e, u>> \in flying \/ (e = R!This(t) /\ u = t)
      BY <1>7
    <2>3. \A e \in Elements : <<e, t>> \in flying' => e \in doubted'
      BY <1>3, <1>4, <1>7
    <2>4. element' \in [Elements -> SomeElement]
      BY <1>7 DEF IInv, Typed
    <2>5. QED
      BY <1>1, <1>2, <1>3, <1>5, <1>7, <2>1, <2>2, <2>3, <2>4, NoneStray, Releases
  <1>8. QED
    BY <1>6, <1>7 DEF R!KickoffMisreported

\* The element is read until it has started.
LEMMA ReconcileStep ==
    ASSUME IInv, NEW t \in Threads, R!Reconcile(t)
    PROVE  IInv'
  <1> DEFINE x == R!This(t)
  <1>1. batch[t].at = "reconcile" /\ UNCHANGED <<element, flying, setting, strayed>>
    BY DEF R!Reconcile
  <1>2. batch[t].at \in Working /\ element \in [Elements -> SomeElement]
    BY <1>1 DEF Working, IInv, Typed
  <1>3. x \in Elements /\ batch[t] \in R!Batch /\ doubted \in SUBSET Elements
        /\ flying \in SUBSET (Elements \X Threads)
    BY <1>2, AtWork
  <1>4. \A e \in Elements : <<e, t>> \in flying /\ e \notin doubted =>
            e = x /\ element[x].status = "suggested" /\ Chosen(strayed, x, element[x].options, t)
    BY DEF IInv, InFlight
  <1>5. CASE element[x].status = "started" /\ R!Finishes(t, "started", FALSE)
             /\ UNCHANGED doubted
    <2>1. PICK r \in R!Batch : /\ r.at \notin Working /\ R!Goes(t, r)
                               /\ lock' = [lock EXCEPT ![R!This(t)] = Nobody]
      BY <1>2, <1>5, Finished DEF R!Outcomes
    <2>2. \A e \in Elements : <<e, t>> \in flying => e \in doubted'
      BY <1>4, <1>5
    <2>3. QED
      BY <1>1, <1>2, <1>3, <1>5, <2>1, <2>2, NoneStray, Leaves
  <1>6. CASE /\ batch[t].reads + 1 < Reads
             /\ R!Goes(t, [batch[t] EXCEPT !.reads = @ + 1]) /\ UNCHANGED <<lock, doubted>>
    <2> DEFINE r == [batch[t] EXCEPT !.reads = @ + 1]
    <2>1. batch[t].reads + 1 \in 0 .. Reads
      BY <1>3, <1>6, BoundsAssumption DEF R!Batch
    <2>2. r \in R!Batch /\ r.at = "reconcile" /\ r.plan = batch[t].plan
      BY <1>1, <1>3, <2>1 DEF R!Batch
    <2>3. R!Goes(t, r)
      BY <1>6
    <2> HIDE DEF r
    <2>4. /\ batch' \in [Threads -> R!Batch] /\ batch'[t] = r
          /\ \A u \in Threads \ {t} : batch'[u] = batch[u]
      BY <2>2, <2>3, GoesType DEF IInv
    <2>5. R!This(t)' = R!This(t) /\ \A u \in Threads \ {t} : R!This(u)' = R!This(u)
      BY <2>2, <2>4 DEF R!This
    <2>6. QED
      BY <1>1, <1>2, <1>3, <1>4, <1>6, <2>2, <2>4, <2>5, AtWork, NoneStray, Remains
  <1>7. CASE R!Finishes(t, "unknown", FALSE) /\ R!Doubts(t)
    <2>1. PICK r \in R!Batch : /\ r.at \notin Working /\ R!Goes(t, r)
                               /\ lock' = [lock EXCEPT ![R!This(t)] = Nobody]
      BY <1>2, <1>7, Finished DEF R!Outcomes
    <2>2. doubted' = doubted \cup {x}
      BY <1>7 DEF R!Doubts
    <2>3. \A e \in Elements : <<e, t>> \in flying => e \in doubted'
      BY <1>4, <2>2
    <2>4. QED
      BY <1>1, <1>2, <1>3, <2>1, <2>2, <2>3, NoneStray, Leaves
  <1>8. QED
    BY <1>5, <1>6, <1>7 DEF R!Reconcile

LEMMA ReconcileRaisesStep ==
    ASSUME IInv, NEW t \in Threads, R!ReconcileRaises(t)
    PROVE  IInv'
  <1>1. /\ batch[t].at = "reconcile" /\ UNCHANGED <<element, flying, setting, strayed>> /\ R!Goes(t, R!Idle)
        /\ lock' = [lock EXCEPT ![R!This(t)] = Nobody]
        /\ doubted' = doubted \cup {R!This(t)}
    BY DEF R!ReconcileRaises, R!Doubts
  <1>2. batch[t].at \in Working
    BY <1>1 DEF Working
  <1>3. R!This(t) \in Elements /\ doubted \in SUBSET Elements
    BY <1>2, AtWork
  <1>4. \A e \in Elements : <<e, t>> \in flying => e \in doubted'
    BY <1>1 DEF IInv, InFlight
  <1>5. R!Idle \in R!Batch /\ R!Idle.at \notin Working
    BY IdleType DEF Working
  <1>6. QED
    BY <1>1, <1>2, <1>3, <1>4, <1>5, NoneStray, Leaves

LEMMA BatchSteps ==
    ASSUME IInv, NEW t \in Threads, R!BatchStep(t)
    PROVE  IInv'
  BY EndSteps, LockStep, CheckStep, SetFieldsStep, FieldsLostStep, KickoffStep, KickoffLostStep,
     KickoffMisreportedStep, ReconcileStep, ReconcileRaisesStep DEF R!BatchStep

\* A kickoff that was under way is executed, or never will be.
LEMMA FlightStep ==
    ASSUME IInv, NEW e \in Elements, NEW t \in Threads, R!Arrives(e, t) \/ R!Vanishes(e, t)
    PROVE  IInv'
  <1>2. /\ UNCHANGED <<setting, strayed, lock, batch, doubted>> /\ flying' = flying \ {<<e, t>>}
        /\ <<e, t>> \in flying /\ \A u \in Threads : R!This(u)' = R!This(u)
    BY DEF R!Arrives, R!Vanishes, R!This
  <1>3. Holds'
    BY <1>2 DEF IInv, Holds
  <1>4. CASE UNCHANGED element
    BY <1>2, <1>3, <1>4 DEF IInv, Typed, InFlight, Kicking, Once
  <1>5. CASE R!Kicked(e, t)
    <2>1. /\ element' \in [Elements -> SomeElement]
          /\ \A f \in Elements \ {e} : element'[f] = element[f]
          /\ element'[e].status = "started" /\ element'[e].runs = element[e].runs + 1
          /\ element'[e].by = t /\ element'[e].prompt = element[e].options
      BY <1>5, KickedType DEF IInv
    <2>2. e \notin doubted =>
              /\ batch[t].at = "reconcile" /\ e = R!This(t)
              /\ Chosen(strayed, e, element[e].options, t) /\ element[e].runs = 0
      BY <1>2 DEF IInv, InFlight, Once
    <2>3. \A u \in Threads : u # t /\ e \notin doubted /\ batch[u].at \in Working =>
              R!This(u) # e
      BY <2>2, OthersElements DEF Working
    <2>4. Typed'
      BY <1>2, <2>1 DEF IInv, Typed
    <2>5. InFlight'
      <3>1. \A f \in Elements, u \in Threads : <<f, u>> \in flying' /\ f \notin doubted => f # e
        BY <1>2, <2>2, <2>3 DEF IInv, InFlight, Working
      <3>2. QED
        BY <1>2, <2>1, <3>1 DEF IInv, InFlight
    <2>6. Kicking'
      <3>1. \A u \in Threads : batch[u].at \in {"fields", "kick"} /\ R!This(u) \notin doubted =>
                R!This(u) # e
        BY <2>2, <2>3 DEF Working
      <3>2. \A u \in Threads : batch[u].at \in {"fields", "kick"} => R!This(u) \in Elements
        BY AtWork DEF Working
      <3>3. QED
        BY <1>2, <2>1, <3>1, <3>2 DEF IInv, Kicking
    <2>7. Once'
      <3>1. SUFFICES ASSUME NEW f \in Elements, f \notin doubted'
                     PROVE  /\ element'[f].status = "suggested" => element'[f].runs = 0
                            /\ element'[f].runs <= 1
                            /\ Chosen(strayed', f, element'[f].prompt, element'[f].by)
        BY DEF Once
      <3>2. CASE f = e
        BY <1>2, <2>1, <2>2, <3>1, <3>2
      <3>3. CASE f # e
        BY <1>2, <2>1, <3>1, <3>3 DEF IInv, Once
      <3>4. QED
        BY <3>2, <3>3
    <2>8. QED
      BY <1>3, <2>4, <2>5, <2>6, <2>7 DEF IInv
  <1>6. QED
    BY <1>4, <1>5 DEF R!Arrives, R!Vanishes

\* A request for options arrives late: it is one of those that went astray.
LEMMA FieldsArriveStep ==
    ASSUME IInv, NEW e \in Elements, NEW t \in Threads, R!FieldsArrive(e, t)
    PROVE  IInv'
  <1> DEFINE k == [element[e] EXCEPT !.options = t]
  <1>1. /\ <<e, t>> \in setting /\ setting' = setting \ {<<e, t>>}
        /\ UNCHANGED <<flying, strayed, lock, batch, doubted>>
        /\ \A u \in Threads : R!This(u)' = R!This(u)
        /\ element' = [element EXCEPT ![e] = k]
    BY DEF R!FieldsArrive, R!This
  <1>2. element[e] \in SomeElement /\ <<e, t>> \in strayed
    BY <1>1 DEF IInv, Typed
  <1>3. /\ k \in SomeElement /\ k.options = t /\ k.status = element[e].status
        /\ k.runs = element[e].runs /\ k.by = element[e].by /\ k.prompt = element[e].prompt
    BY <1>2 DEF SomeElement
  <1> HIDE DEF k
  <1>4. /\ element' \in [Elements -> SomeElement]
        /\ \A f \in Elements :
             /\ element'[f].status = element[f].status /\ element'[f].runs = element[f].runs
             /\ element'[f].by = element[f].by /\ element'[f].prompt = element[f].prompt
             /\ \A u : Chosen(strayed, f, element[f].options, u) =>
                        Chosen(strayed, f, element'[f].options, u)
    BY <1>1, <1>2, <1>3 DEF IInv, Typed, Chosen
  <1>5. Typed' /\ Holds'
    BY <1>1, <1>4 DEF IInv, Typed, Holds
  <1>6. InFlight' /\ Once'
    BY <1>1, <1>4 DEF IInv, InFlight, Once
  <1>7. Kicking'
    <2>1. \A u \in Threads : batch[u].at \in {"fields", "kick"} => R!This(u) \in Elements
      BY AtWork DEF Working
    <2>2. QED
      BY <1>1, <1>4, <2>1 DEF IInv, Kicking
  <1>8. QED
    BY <1>5, <1>6, <1>7 DEF IInv

-----------------------------------------------------------------------------
\* The other parts of the notebook leave the elements alone.

LEMMA ElementSteps ==
    ASSUME Next
    PROVE  \/ UNCHANGED elementVars \/ R!FlightEnds
           \/ \E t \in Threads : R!StartsBatch(t) \/ R!BatchStep(t)
  <1>1. ASSUME NEW t \in Threads, Call(t)
        PROVE  UNCHANGED elementVars \/ R!StartsBatch(t)
    BY <1>1 DEF Call, Adds, Researches, Makes, Elaborates
  <1>2. ASSUME NEW t \in Threads, Step(t)
        PROVE  UNCHANGED elementVars \/ R!BatchStep(t)
    BY <1>2 DEF Step, Adds, Researches, Makes, Elaborates
  <1>3. ASSUME NEW t \in Threads,
               \/ StartsPipeline(t) \/ StartsMultiFormat(t) \/ NextStep(t) \/ PipelineEnds(t)
        PROVE  UNCHANGED elementVars
    BY <1>3 DEF StartsPipeline, StartsMultiFormat, NextStep, PipelineEnds
  <1>4. ASSUME Service
        PROVE  UNCHANGED elementVars \/ R!FlightEnds
    BY <1>4 DEF Service, Adds, Researches, Makes, Elaborates
  <1>5. QED
    BY <1>1, <1>2, <1>3, <1>4 DEF Next

LEMMA Initially == Init => IInv
  <1>1. SUFFICES ASSUME Init PROVE IInv
    OBVIOUS
  <1>2. /\ flying = {} /\ setting = {} /\ strayed = {} /\ doubted = {} /\ lock = [e \in Elements |-> Nobody]
        /\ batch = [t \in Threads |-> R!Idle]
        /\ element = [e \in Elements |->
             [status |-> "suggested", options |-> Nobody, runs |-> 0, by |-> Nobody,
              prompt |-> Nobody]]
    BY <1>1 DEF Init, R!ElementsInit
  <1>3. Typed
    BY <1>2, IdleType DEF Typed, SomeElement
  <1>4. \A t \in Threads : batch[t].at = "idle"
    BY <1>2, IdleType
  <1>5. Holds /\ InFlight /\ Kicking
    BY <1>2, <1>4 DEF Holds, InFlight, Kicking, Working
  <1>6. Once
    BY <1>2 DEF Once, Chosen
  <1>7. QED
    BY <1>3, <1>5, <1>6 DEF IInv

LEMMA Preserved == IInv /\ [Next]_vars => IInv'
  <1>1. SUFFICES ASSUME IInv, [Next]_vars PROVE IInv'
    OBVIOUS
  <1>2. CASE UNCHANGED elementVars
    BY <1>1, <1>2 DEF elementVars, IInv, Typed, Holds, InFlight, Kicking, Once, R!This
  <1>3. CASE R!FlightEnds
    BY <1>1, <1>3, FlightStep, FieldsArriveStep DEF R!FlightEnds
  <1>4. CASE \E t \in Threads : R!StartsBatch(t) \/ R!BatchStep(t)
    BY <1>1, <1>4, GenerateStep, BatchSteps
  <1>5. QED
    BY <1>1, <1>2, <1>3, <1>4, ElementSteps DEF vars

\* The locks of the elements are held by those who work on them, and what a call has
\* written to an element is there until its kickoff has been executed, unless a request for
\* the options that are there instead was left without an answer.
THEOREM LocksProtect == Spec => []IInv
  BY Initially, Preserved, PTL DEF Spec

\* However many threads call, and whatever answers are lost: an element is generated a
\* second time only if some call has said that it failed or that it does not know.
THEOREM NeverTwice == Spec => []StartsOnce
  <1>1. IInv => StartsOnce
    <2>1. SUFFICES ASSUME IInv, NEW e \in Elements, element[e].runs > 1 PROVE e \in doubted
      BY DEF StartsOnce, R!StartsOnce
    <2>2. element[e].runs \in Nat
      BY <2>1 DEF IInv, Typed, SomeElement
    <2>3. QED
      BY <2>1, <2>2 DEF IInv, Once
  <1>2. QED
    BY <1>1, LocksProtect, PTL

\* ... and it is generated with the options of the call that kicked it off, or with those of
\* a request that was left without an answer.
THEOREM NeverMixed == Spec => []OwnOptions
  <1>1. IInv => OwnOptions
    BY DEF IInv, Once, Chosen, OwnOptions, R!OwnOptions
  <1>2. QED
    BY <1>1, LocksProtect, PTL

-----------------------------------------------------------------------------
\* Research.

Fields == {"at", "auto", "id", "shown", "query", "byQuery", "got", "pre", "polls", "missed",
           "imported"}

\* From the poll on whose result a call goes to import until it has: what it has got is the
\* task it was asked for, or a poll did not list that one under its id.
Importing == {"look", "snapshot", "import", "pending"}
Asked(r) ==
    /\ (r.at \in Importing \/ r.imported) /\ r.id # F!NoTask /\ r.got # r.id => r.missed
    /\ r.imported => r.at = "idle"

Asking ==
    /\ research = [t \in Threads |-> research[t]]
    /\ \A t \in Threads : Fields \subseteq DOMAIN research[t] /\ Asked(research[t])

LEMMA AskingGoes ==
    ASSUME Asking, NEW t \in Threads, NEW r, Fields \subseteq DOMAIN r, Asked(r), F!Goes(t, r)
    PROVE  Asking'
  BY DEF Asking, F!Goes

LEMMA NoResearchAsks ==
    Fields \subseteq DOMAIN F!NoResearch /\ ~F!NoResearch.imported
    /\ F!NoResearch.at = "idle" /\ ~F!NoResearch.missed
  BY DEF Fields, F!NoResearch

\* Steps that end a call, or begin one that has nothing yet.
LEMMA AskingEnds ==
    ASSUME Asking, NEW t \in Threads, F!Ends(t)
    PROVE  Asking'
  <1>1. Asked(F!NoResearch)
    BY NoResearchAsks DEF Asked, Importing
  <1>2. QED
    BY <1>1, NoResearchAsks, AskingGoes DEF F!Ends

LEMMA AskingStarts ==
    ASSUME Asking, NEW t \in Threads, F!StartsResearch(t)
    PROVE  Asking'
  <1>1. ASSUME NEW query \in Names, NEW check \in BOOLEAN, NEW auto \in BOOLEAN,
               F!Start(t, query, check, auto)
        PROVE  Asking'
    <2> DEFINE r == [F!NoResearch EXCEPT !.at = IF check THEN "check" ELSE "start",
                                         !.auto = auto, !.query = query]
    <2>1. F!Goes(t, r)
      BY <1>1 DEF F!Start
    <2>2. Fields \subseteq DOMAIN r /\ r.at \notin Importing /\ ~r.imported
      BY NoResearchAsks DEF Fields, Importing
    <2> HIDE DEF r
    <2>3. QED
      BY <2>1, <2>2, AskingGoes DEF Asked
  <1>2. ASSUME NEW query \in Names, NEW byQuery \in BOOLEAN, NEW shown \in BOOLEAN,
               NEW id \in DOMAIN tasks \cup {F!NoTask},
               F!Status(t, id, shown, byQuery, query)
        PROVE  Asking'
    <2> DEFINE r == [F!NoResearch EXCEPT !.at = "poll", !.auto = TRUE, !.id = id,
                                         !.shown = shown, !.byQuery = byQuery, !.query = query]
    <2>1. F!Goes(t, r)
      BY <1>2 DEF F!Status
    <2>2. Fields \subseteq DOMAIN r /\ r.at \notin Importing /\ ~r.imported
      BY NoResearchAsks DEF Fields, Importing
    <2> HIDE DEF r
    <2>3. QED
      BY <2>1, <2>2, AskingGoes DEF Asked
  <1>3. ASSUME NEW id \in DOMAIN tasks, NEW shown \in BOOLEAN, F!Import(t, id, shown)
        PROVE  Asking'
    <2> DEFINE r == [F!NoResearch EXCEPT !.at = "look", !.id = id, !.shown = shown, !.got = id]
    <2>1. F!Goes(t, r)
      BY <1>3 DEF F!Import
    <2>2. Fields \subseteq DOMAIN r /\ r.got = r.id /\ ~r.imported
      BY NoResearchAsks DEF Fields
    <2> HIDE DEF r
    <2>3. QED
      BY <2>1, <2>2, AskingGoes DEF Asked
  <1>4. QED
    BY <1>1, <1>2, <1>3 DEF F!StartsResearch

\* A poll lists the task under its id, or the call knows that it did not.
LEMMA PolledAsks ==
    ASSUME NEW id, NEW shown, NEW byQuery, NEW query, F!ById(id, shown)
    PROVE  F!Polled(id, shown, byQuery, query) = id
  BY DEF F!Polled

LEMMA AskingSteps ==
    ASSUME Asking, NEW t \in Threads, F!ResearchStep(t)
    PROVE  Asking'
  <1> DEFINE c == research[t]
  <1>1. Fields \subseteq DOMAIN c /\ Asked(c)
    BY DEF Asking
  <1>2. CASE F!Check(t)
    <2> DEFINE r == [c EXCEPT !.at = "start"]
    <2>1. Fields \subseteq DOMAIN r /\ r.at = "start" /\ r.imported = c.imported
          /\ r.id = c.id /\ r.got = c.got /\ r.missed = c.missed
      BY <1>1 DEF Fields
    <2>2. ~c.imported /\ (F!Goes(t, r) \/ F!Ends(t))
      BY <1>1, <1>2 DEF F!Check, F!At, Asked
    <2> HIDE DEF r
    <2>3. Asked(r)
      BY <2>1, <2>2 DEF Asked, Importing
    <2>4. QED
      BY <2>1, <2>2, <2>3, AskingGoes, AskingEnds
  <1>3. CASE F!Started(t)
    <2>1. SUFFICES ASSUME ~F!Ends(t) PROVE Asking'
      BY AskingEnds
    <2> DEFINE q == [c EXCEPT !.id = Len(tasks) + 1]
               r == [q EXCEPT !.at = "poll"]
    <2>2. F!Goes(t, r)
      BY <1>3, <2>1 DEF F!Started
    <2>3. Fields \subseteq DOMAIN r /\ r.at = "poll" /\ r.imported = c.imported
      BY <1>1 DEF Fields
    <2>4. ~c.imported
      BY <1>1, <1>3 DEF F!Started, F!At, Asked
    <2> HIDE DEF r
    <2>5. QED
      BY <2>2, <2>3, <2>4, AskingGoes DEF Asked, Importing
  <1>4. CASE F!StartFails(t) \/ F!PollFails(t) \/ F!ImportFails(t)
    BY <1>4, AskingEnds DEF F!StartFails, F!PollFails, F!ImportFails
  <1>5. CASE F!Poll(t)
    <2>1. SUFFICES ASSUME ~F!Ends(t) PROVE Asking'
      BY AskingEnds
    <2> DEFINE q == F!Seen(c)
               r == [q EXCEPT !.at = "look", !.shown = TRUE]
    <2>2. F!Goes(t, r)
      BY <1>5, <2>1 DEF F!Poll
    <2>3. /\ Fields \subseteq DOMAIN q /\ q.id = c.id /\ q.imported = c.imported
          /\ F!ById(c.id, c.shown) => q.got = c.id
          /\ ~F!ById(c.id, c.shown) => q.missed
      BY <1>1, PolledAsks DEF Fields, F!Seen
    <2>4. ~c.imported
      BY <1>1, <1>5 DEF F!Poll, F!At, Asked
    <2> HIDE DEF q
    <2>5. /\ Fields \subseteq DOMAIN r /\ r.id = q.id /\ r.imported = q.imported
          /\ r.got = q.got /\ r.missed = q.missed
      BY <2>3 DEF Fields
    <2> HIDE DEF r
    <2>6. Asked(r)
      BY <2>3, <2>4, <2>5 DEF Asked
    <2>7. QED
      BY <2>2, <2>5, <2>6, AskingGoes
  <1>6. CASE F!Look(t)
    <2>1. SUFFICES ASSUME ~F!Ends(t) PROVE Asking'
      BY AskingEnds
    <2> DEFINE got == F!Polled(c.got, c.shown, FALSE, c.query)
               listed == F!ById(c.got, c.shown)
               r == [c EXCEPT !.at = "snapshot", !.got = got, !.missed = @ \/ ~listed]
    <2>2. F!Goes(t, r)
      BY <1>6, <2>1 DEF F!Look
    <2>3. listed => got = c.got
      BY PolledAsks
    <2>4. ~c.imported /\ c.at = "look"
      BY <1>1, <1>6 DEF F!Look, F!At, Asked
    <2> HIDE DEF got, listed
    <2>5. /\ Fields \subseteq DOMAIN r /\ r.id = c.id /\ r.imported = c.imported
          /\ r.got = got /\ r.missed = (c.missed \/ ~listed)
      BY <1>1 DEF Fields
    <2> HIDE DEF r
    <2>6. Asked(r)
      BY <1>1, <2>3, <2>4, <2>5 DEF Asked, Importing
    <2>7. QED
      BY <2>2, <2>5, <2>6, AskingGoes
  <1>7. CASE F!Snapshot(t)
    <2>1. PICK pre \in {F!Listed, {}} : F!Goes(t, [c EXCEPT !.at = "import", !.pre = pre])
      BY <1>7 DEF F!Snapshot
    <2> DEFINE r == [c EXCEPT !.at = "import", !.pre = pre]
    <2>2. /\ Fields \subseteq DOMAIN r /\ r.at = "import" /\ r.id = c.id
          /\ r.imported = c.imported /\ r.got = c.got /\ r.missed = c.missed
      BY <1>1 DEF Fields
    <2>3. ~c.imported /\ c.at = "snapshot" /\ F!Goes(t, r)
      BY <1>1, <1>7, <2>1 DEF F!Snapshot, F!At, Asked
    <2> HIDE DEF r
    <2>4. Asked(r)
      BY <1>1, <2>2, <2>3 DEF Asked, Importing
    <2>5. QED
      BY <2>2, <2>3, <2>4, AskingGoes
  <1>8. CASE F!ImportPending(t)
    <2> DEFINE r == [c EXCEPT !.at = "pending"]
    <2>1. /\ Fields \subseteq DOMAIN r /\ r.at = "pending" /\ r.id = c.id
          /\ r.imported = c.imported /\ r.got = c.got /\ r.missed = c.missed
      BY <1>1 DEF Fields
    <2>2. ~c.imported /\ c.at = "import" /\ F!Goes(t, r)
      BY <1>1, <1>8 DEF F!ImportPending, F!At, Asked
    <2> HIDE DEF r
    <2>3. Asked(r)
      BY <1>1, <2>1, <2>2 DEF Asked, Importing
    <2>4. QED
      BY <2>1, <2>2, <2>3, AskingGoes
  <1>9. ASSUME F!Imported(t, c), c.at \in Importing PROVE Asking'
    <2> DEFINE r == [F!NoResearch EXCEPT !.id = c.id, !.got = c.got, !.missed = c.missed,
                                         !.imported = TRUE]
    <2>1. /\ Fields \subseteq DOMAIN r /\ r.at = "idle" /\ r.id = c.id /\ r.got = c.got
          /\ r.missed = c.missed
      BY NoResearchAsks DEF Fields
    <2>2. F!Goes(t, r)
      BY <1>9 DEF F!Imported
    <2> HIDE DEF r
    <2>3. Asked(r)
      BY <1>1, <1>9, <2>1 DEF Asked
    <2>4. QED
      BY <2>1, <2>2, <2>3, AskingGoes
  <1>10. CASE F!ImportAnswered(t)
    BY <1>9, <1>10 DEF F!ImportAnswered, F!At, Importing
  <1>11. CASE F!Appeared(t)
    <2>1. c.at = "pending" /\ ~c.imported
      BY <1>1, <1>11 DEF F!Appeared, F!At, Asked
    <2> DEFINE r == [c EXCEPT !.polls = @ + 1]
    <2>2. F!Imported(t, c) \/ F!Goes(t, r) \/ F!Ends(t)
      BY <1>11 DEF F!Appeared
    <2>3. /\ Fields \subseteq DOMAIN r /\ r.at = c.at /\ r.id = c.id
          /\ r.imported = c.imported /\ r.got = c.got /\ r.missed = c.missed
      BY <1>1 DEF Fields
    <2> HIDE DEF r
    <2>4. Asked(r)
      BY <1>1, <2>1, <2>3 DEF Asked, Importing
    <2>5. QED
      BY <1>9, <2>1, <2>2, <2>3, <2>4, AskingGoes, AskingEnds DEF Importing
  <1>12. CASE F!ResearchReplayed(t)
    BY <1>12 DEF F!ResearchReplayed, Asking
  <1>13. QED
    BY <1>2, <1>3, <1>4, <1>5, <1>6, <1>7, <1>8, <1>10, <1>11, <1>12 DEF F!ResearchStep

\* An import brings in what the task asked for has found, or the call knew that a poll had
\* not listed that one: for any number of threads, tasks and calls.
THEOREM AskedIsImported == Spec => []ImportsAsked
  <1>1. Init => Asking
    <2>1. Asked(F!NoResearch)
      BY NoResearchAsks DEF Asked, Importing
    <2>2. QED
      BY <2>1, NoResearchAsks DEF Init, F!ResearchInit, Asking
  <1>2. Asking /\ [Next]_vars => Asking'
    <2>1. SUFFICES ASSUME Asking, [Next]_vars PROVE Asking'
      OBVIOUS
    <2>2. UNCHANGED research \/ \E t \in Threads : F!StartsResearch(t) \/ F!ResearchStep(t)
      <3>1. ASSUME NEW t \in Threads, Call(t)
            PROVE  UNCHANGED research \/ F!StartsResearch(t)
        BY <3>1 DEF Call, Adds, Researches, Makes, Elaborates, researchVars
      <3>2. ASSUME NEW t \in Threads, Step(t)
            PROVE  UNCHANGED research \/ F!ResearchStep(t)
        BY <3>2 DEF Step, Adds, Researches, Makes, Elaborates, researchVars
      <3>3. ASSUME NEW t \in Threads,
                   \/ StartsPipeline(t) \/ StartsMultiFormat(t) \/ NextStep(t) \/ PipelineEnds(t)
            PROVE  UNCHANGED research
        BY <3>3 DEF StartsPipeline, StartsMultiFormat, NextStep, PipelineEnds, researchVars
      <3>4. ASSUME Service PROVE UNCHANGED research
        BY <3>4 DEF Service, Adds, Researches, Makes, Elaborates, researchVars, F!Progress
      <3>5. QED
        BY <2>1, <3>1, <3>2, <3>3, <3>4 DEF Next, vars, researchVars
    <2>3. CASE UNCHANGED research
      BY <2>1, <2>3 DEF Asking
    <2>4. QED
      BY <2>1, <2>2, <2>3, AskingStarts, AskingSteps
  <1>3. Asking => ImportsAsked
    BY DEF Asking, Asked, ImportsAsked, F!ImportsAsked
  <1>4. QED
    BY <1>1, <1>2, <1>3, PTL DEF Spec

-----------------------------------------------------------------------------
\* Artifacts.

Record(r) == {"at", "kind", "given", "of", "id", "dated", "result"} \subseteq DOMAIN r
Records == making = [t \in Threads |-> making[t]] /\ \A t \in Threads : Record(making[t])

LEMMA NotMakingIs ==
    /\ Record(M!NotMaking) /\ M!NotMaking.at = "idle" /\ M!NotMaking.result = "none"
  BY DEF Record, M!NotMaking

LEMMA RecordsGoes ==
    ASSUME Records, NEW t \in Threads, NEW r, Record(r), M!Goes(t, r)
    PROVE  Records'
  BY DEF Records, M!Goes

LEMMA RecordsReports ==
    ASSUME Records, NEW t \in Threads, NEW r, NEW result, M!Ends(t) \/ M!Reports(t, r, result)
    PROVE  Records'
  <1>1. ASSUME NEW q, q = [M!NotMaking EXCEPT !.kind = r.kind, !.of = r.of, !.id = r.id,
                                              !.result = result]
        PROVE  Record(q)
    BY <1>1, NotMakingIs DEF Record
  <1>2. QED
    BY <1>1, NotMakingIs, RecordsGoes DEF M!Ends, M!Reports

LEMMA RecordsSteps ==
    ASSUME Records, NEW t \in Threads, M!StudioStep(t)
    PROVE  Records'
  <1> DEFINE r == making[t]
  <1>1. Record(r)
    BY DEF Records
  <1>2. ASSUME NEW q, NEW of, NEW place,
               \/ q = [r EXCEPT !.of = of, !.at = place] \/ q = [r EXCEPT !.at = place]
               \/ q = [r EXCEPT !.at = place, !.dated = of]
        PROVE  Record(q)
    BY <1>1, <1>2 DEF Record
  <1>3. CASE M!Resolve(t)
    BY <1>2, <1>3, RecordsGoes, RecordsReports DEF M!Resolve
  <1>4. CASE M!Generate(t) \/ M!DeleteFails(t)
    BY <1>2, <1>4, RecordsGoes, RecordsReports DEF M!Generate, M!DeleteFails
  <1>5. CASE M!ListMaps(t)
    BY <1>2, <1>5, RecordsGoes DEF M!ListMaps
  <1>6. CASE M!Unmap(t)
    BY <1>2, <1>6, RecordsGoes, RecordsReports DEF M!Unmap
  <1>7. CASE \/ M!ResolveFails(t) \/ M!CreateRejected(t) \/ M!CreateLost(t)
             \/ M!Save(t) \/ M!Revise(t) \/ M!Delete(t) \/ M!Untime(t) \/ M!MapDeletionFails(t)
             \/ M!Created(t)
    <2>1. M!Ends(t) \/ \E q, result : M!Reports(t, q, result)
      BY <1>7 DEF M!ResolveFails, M!CreateRejected, M!CreateLost, M!Save, M!Revise, M!Delete,
                  M!Untime, M!MapDeletionFails, M!Created
    <2>2. QED
      BY <2>1, RecordsReports
  <1>8. CASE M!MakeReplayed(t)
    BY <1>8 DEF M!MakeReplayed, Records
  <1>9. QED
    BY <1>3, <1>4, <1>5, <1>6, <1>7, <1>8 DEF M!StudioStep

LEMMA CreatingRecords ==
    ASSUME Records, NEW t \in Threads, NEW kind, NEW given, M!Create(t, kind, given)
    PROVE  Records'
  <1>1. ASSUME NEW q, q = [M!NotMaking EXCEPT !.at = "resolve", !.kind = kind,
                                              !.given = (given # {}), !.of = given]
        PROVE  Record(q)
    BY <1>1, NotMakingIs DEF Record
  <1>2. QED
    BY <1>1, RecordsGoes DEF M!Create

LEMMA StartsRecords ==
    ASSUME Records, NEW t \in Threads, M!StartsStudio(t)
    PROVE  Records'
  <1>1. ASSUME NEW a, NEW q,
               \/ q = [M!NotMaking EXCEPT !.at = "delete", !.kind = artifacts[a].kind, !.id = a]
               \/ q = [M!NotMaking EXCEPT !.at = "revise", !.id = a]
        PROVE  Record(q)
    BY <1>1, NotMakingIs DEF Record
  <1>2. ASSUME NEW a, M!StartDelete(t, a) \/ M!StartRevise(t, a)
        PROVE  Records'
    BY <1>1, <1>2, RecordsGoes DEF M!StartDelete, M!StartRevise
  <1>3. QED
    BY <1>2, CreatingRecords DEF M!StartsStudio

LEMMA RecordsAlways == Spec => []Records
  <1>1. Init => Records
    BY NotMakingIs DEF Init, M!StudioInit, Records
  <1>2. Records /\ [Next]_vars => Records'
    <2>1. SUFFICES ASSUME Records, [Next]_vars PROVE Records'
      OBVIOUS
    <2>2. CASE UNCHANGED making
      BY <2>1, <2>2 DEF Records
    <2>3. ASSUME NEW t \in Threads, Call(t) \/ Step(t)
          PROVE  UNCHANGED making \/ M!StartsStudio(t) \/ M!StudioStep(t)
      BY <2>3 DEF Call, Step, Adds, Researches, Makes, Elaborates, studioVars
    <2>4. ASSUME NEW t \in Threads,
                 \/ StartsPipeline(t) \/ StartsMultiFormat(t) \/ NextStep(t) \/ PipelineEnds(t)
          PROVE  UNCHANGED making \/ M!Create(t, "media", {})
      BY <2>4 DEF StartsPipeline, StartsMultiFormat, NextStep, PipelineEnds, studioVars
    <2>5. ASSUME Service PROVE UNCHANGED making
      BY <2>5 DEF Service, Adds, Researches, Makes, Elaborates, studioVars, M!Generated
    <2>6. QED
      BY <2>1, <2>2, <2>3, <2>4, <2>5, StartsRecords, RecordsSteps, CreatingRecords
         DEF Next, vars, studioVars
  <1>3. QED
    BY <1>1, <1>2, PTL DEF Spec

-----------------------------------------------------------------------------
\* Sources.

Sources(s) ==
    /\ Len(s) \in Nat /\ s = [i \in 1 .. Len(s) |-> s[i]]
    /\ \A i \in 1 .. Len(s) : {"name", "by", "status"} \subseteq DOMAIN s[i]

\* The sources that a call has made, which are there.
Mine(number, s) == {i \in DOMAIN s : s[i].by = number /\ s[i].status # "gone"}
Single(A) == \A i, j \in A : i = j
AtMost(A, k) == IsFiniteSet(A) /\ Cardinality(A) <= k

LEMMA AtMostLess ==
    ASSUME NEW A, NEW k \in Nat, AtMost(A, k), NEW B \in SUBSET A, NEW j \in Nat, k <= j
    PROVE  AtMost(B, j)
  <1>1. IsFiniteSet(B) /\ Cardinality(B) <= Cardinality(A)
    BY FS_Subset DEF AtMost
  <1>2. Cardinality(A) \in Nat /\ Cardinality(B) \in Nat
    BY <1>1, FS_CardinalityType DEF AtMost
  <1>3. QED
    BY <1>1, <1>2 DEF AtMost

LEMMA AtMostNone ==
    ASSUME NEW k \in Nat
    PROVE  AtMost({}, k)
  BY FS_EmptySet DEF AtMost

LEMMA AtMostOneMore ==
    ASSUME NEW A, NEW k \in Nat, AtMost(A, k), NEW D, Single(D), NEW B \in SUBSET (A \cup D)
    PROVE  AtMost(B, 1 + k)
  <1>1. CASE D = {}
    BY <1>1, AtMostLess
  <1>2. ASSUME NEW x, D = {x}
        PROVE  AtMost(B, 1 + k)
    <2>1. /\ IsFiniteSet(A \cup {x}) /\ Cardinality(A) \in Nat
          /\ Cardinality(A \cup {x}) \in {Cardinality(A), Cardinality(A) + 1}
      BY FS_AddElement, FS_CardinalityType DEF AtMost
    <2>2. AtMost(A \cup {x}, 1 + k)
      BY <2>1 DEF AtMost
    <2>3. QED
      BY <1>2, <2>2, AtMostLess
  <1>3. QED
    BY <1>1, <1>2 DEF Single

\* What the listing shows, or has shown.
Seen(s) == {i \in DOMAIN s : s[i].status # "hidden"}

\* A source is never another one, what was seen never hides, and a deleted one never comes
\* back; new ones are those of one call, and of the names that it has asked for.
Grows(s, z, number, names) ==
    /\ Sources(z) /\ DOMAIN s \subseteq DOMAIN z
    /\ \A i \in DOMAIN z \ DOMAIN s : z[i].by = number /\ z[i].name \in names
    /\ \A i \in DOMAIN s :
         /\ z[i].by = s[i].by /\ z[i].name = s[i].name
         /\ s[i].status # "hidden" => z[i].status # "hidden"
         /\ z[i].status # "gone" => s[i].status # "gone"

LEMMA CardinalityIs ==
    ASSUME NEW A
    PROVE  S!Cardinality(A) = Cardinality(A)
  BY DEF Cardinality, S!Cardinality

LEMMA SetToSeqIs ==
    ASSUME NEW A, IsFiniteSet(A)
    PROVE  /\ S!SetToSeq(A) \in [1 .. Cardinality(A) -> A] /\ Cardinality(A) \in Nat
           /\ S!SetToSeq(A) \in Seq(A) /\ Len(S!SetToSeq(A)) = Cardinality(A)
  <1>1. Cardinality(A) \in Nat /\ ExistsBijection(1 .. Cardinality(A), A)
    BY FS_CardinalityType
  <1>2. \E f \in [1 .. Cardinality(A) -> A] : S!IsInjective(f)
    BY <1>1 DEF ExistsBijection, Bijection, Injection, IsInjective, S!IsInjective
  <1>3. S!SetToSeq(A) \in [1 .. Cardinality(A) -> A]
    BY <1>2, CardinalityIs DEF S!SetToSeq
  <1>4. QED
    BY <1>1, <1>3

LEMMA PutGrows ==
    ASSUME Sources(notebook), NEW names \in SUBSET Names, NEW number, NEW status,
           S!Put(names, number, status)
    PROVE  /\ Grows(notebook, notebook', number, names)
           /\ names = {} => notebook' = notebook
           /\ \A n : names = {n} => Single(DOMAIN notebook' \ DOMAIN notebook)
           /\ \A i \in S!NewIds(names) : i \in DOMAIN notebook' /\ notebook'[i].status = status
  <1> DEFINE record(n) == [name |-> n, by |-> number, status |-> status]
             A == {record(n) : n \in names}
             z == S!SetToSeq(A)
  <1>1. IsFiniteSet(names)
    BY NamesAssumption, FS_Subset
  <1>2. [n \in names |-> record(n)] \in Surjection(names, A)
    BY DEF Surjection
  <1>3. IsFiniteSet(A) /\ Cardinality(A) = Cardinality(names)
    <2>1. [n \in names |-> record(n)] \in Injection(names, A)
      BY DEF Injection, IsInjective
    <2>2. QED
      BY <1>1, <1>2, <2>1, FS_Surjection
  <1>4. notebook' = notebook \o z
    BY DEF S!Put
  <1>5. \A x \in A : /\ x.name \in names /\ x.by = number /\ x.status = status
                    /\ {"name", "by", "status"} \subseteq DOMAIN x
    OBVIOUS
  <1>6. names = {} => A = {}
    OBVIOUS
  <1> HIDE DEF A
  <1>7. z \in [1 .. Cardinality(A) -> A] /\ z \in Seq(A) /\ Len(z) = Cardinality(A)
        /\ Cardinality(A) \in Nat
    BY <1>3, SetToSeqIs
  <1> HIDE DEF z
  <1> DEFINE B == {notebook[i] : i \in 1 .. Len(notebook)} \cup A
             len == Len(notebook)
  <1>8. notebook \in [1 .. len -> B] /\ len \in Nat
    BY DEF Sources
  <1>9. notebook \in Seq(B)
    BY <1>8
  <1>10. z \in Seq(B)
    BY <1>7
  <1> HIDE DEF B
  <1>11. /\ notebook' \in Seq(B) /\ Len(notebook') = len + Len(z)
         /\ \A i \in 1 .. len + Len(z) :
                notebook'[i] = IF i <= len THEN notebook[i] ELSE z[i - len]
    BY <1>4, <1>9, <1>10, ConcatProperties
  <1>12. /\ DOMAIN notebook' = 1 .. (len + Len(z)) /\ DOMAIN notebook = 1 .. len
         /\ notebook' = [i \in 1 .. Len(notebook') |-> notebook'[i]]
    BY <1>8, <1>11, LenProperties
  <1>13. \A i \in 1 .. len : i \in DOMAIN notebook' /\ notebook'[i] = notebook[i]
    BY <1>7, <1>8, <1>11, <1>12
  <1>14. \A i \in DOMAIN notebook' \ DOMAIN notebook :
            i - len \in 1 .. Len(z) /\ notebook'[i] = z[i - len]
    BY <1>7, <1>8, <1>11, <1>12
  <1>15. \A i \in DOMAIN notebook' \ DOMAIN notebook : notebook'[i] \in A
    BY <1>7, <1>14
  <1>16. Sources(notebook')
    BY <1>5, <1>7, <1>8, <1>11, <1>12, <1>13, <1>15 DEF Sources
  <1>17. Grows(notebook, notebook', number, names)
    BY <1>5, <1>12, <1>13, <1>15, <1>16 DEF Grows
  <1>18. names = {} => notebook' = notebook
    <2>1. SUFFICES ASSUME names = {} PROVE notebook' = notebook
      OBVIOUS
    <2>2. Len(z) = 0
      BY <1>6, <1>7, <2>1, FS_EmptySet
    <2>3. DOMAIN notebook' = DOMAIN notebook
      BY <1>8, <1>12, <2>2
    <2>4. QED
      BY <1>8, <1>12, <1>13, <2>3, <1>11, <2>2
  <1>19. ASSUME NEW n, names = {n} PROVE Single(DOMAIN notebook' \ DOMAIN notebook)
    <2>1. Cardinality(names) = 1
      BY <1>19, FS_Singleton
    <2>2. Len(z) = 1
      BY <1>3, <1>7, <2>1
    <2>3. QED
      BY <1>7, <1>8, <1>12, <2>2 DEF Single
  <1>20. ASSUME NEW i \in S!NewIds(names)
         PROVE  i \in DOMAIN notebook' /\ notebook'[i].status = status
    <2>1. S!NewIds(names) = (len + 1) .. (len + Len(z))
      BY <1>3, <1>7, CardinalityIs DEF S!NewIds
    <2>2. i \in DOMAIN notebook' \ DOMAIN notebook
      BY <1>7, <1>8, <1>12, <2>1
    <2>3. QED
      BY <1>5, <1>15, <2>2
  <1>21. QED
    BY <1>17, <1>18, <1>19, <1>20

LEMMA StaysGrows ==
    ASSUME Sources(notebook), UNCHANGED notebook, NEW number, NEW names
    PROVE  Grows(notebook, notebook', number, names)
  BY DEF Grows, Sources

\* Sources that change their status.
LEMMA ChangesGrows ==
    ASSUME Sources(notebook), NEW number, NEW names, DOMAIN notebook' = DOMAIN notebook,
           notebook' = [i \in DOMAIN notebook |-> notebook'[i]],
           \A i \in DOMAIN notebook :
               \/ notebook'[i] = notebook[i]
               \/ \E status : /\ notebook'[i] = [notebook[i] EXCEPT !.status = status]
                              /\ status = "gone" \/ notebook[i].status # "gone"
                              /\ status # "hidden"
    PROVE  Grows(notebook, notebook', number, names)
  <1>1. DOMAIN notebook = 1 .. Len(notebook) /\ Len(notebook) \in Nat
    BY DEF Sources
  <1>2. \A i \in DOMAIN notebook :
            /\ {"name", "by", "status"} \subseteq DOMAIN notebook'[i]
            /\ notebook'[i].by = notebook[i].by /\ notebook'[i].name = notebook[i].name
            /\ notebook'[i].status # "gone" => notebook[i].status # "gone"
            /\ notebook[i].status # "hidden" => notebook'[i].status # "hidden"
    <2>1. TAKE i \in DOMAIN notebook
    <2>2. {"name", "by", "status"} \subseteq DOMAIN notebook[i]
      BY <1>1 DEF Sources
    <2>3. CASE notebook'[i] = notebook[i]
      BY <2>2, <2>3
    <2>4. ASSUME NEW status, notebook'[i] = [notebook[i] EXCEPT !.status = status],
                 status = "gone" \/ notebook[i].status # "gone", status # "hidden"
          PROVE  /\ {"name", "by", "status"} \subseteq DOMAIN notebook'[i]
                 /\ notebook'[i].status # "hidden"
                 /\ notebook'[i].by = notebook[i].by /\ notebook'[i].name = notebook[i].name
                 /\ notebook'[i].status # "gone" => notebook[i].status # "gone"
      BY <2>2, <2>4
    <2>5. QED
      BY <2>3, <2>4
  <1>3. Len(notebook') = Len(notebook)
    BY <1>1
  <1>4. Sources(notebook')
    BY <1>1, <1>2, <1>3 DEF Sources
  <1>5. QED
    BY <1>2, <1>4 DEF Grows

LEMMA AppendGrows ==
    ASSUME Sources(notebook), NEW x, {"name", "by", "status"} \subseteq DOMAIN x, NEW names,
           x.name \in names, notebook' = Append(notebook, x)
    PROVE  Grows(notebook, notebook', x.by, names)
  <1> DEFINE B == {notebook[i] : i \in 1 .. Len(notebook)} \cup {x}
             len == Len(notebook)
  <1>1. notebook \in [1 .. len -> B] /\ len \in Nat
    BY DEF Sources
  <1>2. notebook \in Seq(B) /\ x \in B
    BY <1>1
  <1> HIDE DEF B
  <1>3. /\ notebook' \in Seq(B) /\ Len(notebook') = len + 1 /\ notebook'[len + 1] = x
        /\ \A i \in 1 .. len : notebook'[i] = notebook[i]
    BY <1>2, AppendProperties
  <1>4. /\ DOMAIN notebook' = 1 .. (len + 1) /\ DOMAIN notebook = 1 .. len
        /\ notebook' = [i \in 1 .. Len(notebook') |-> notebook'[i]]
    BY <1>1, <1>3, LenProperties
  <1>5. /\ \A i \in DOMAIN notebook : i \in DOMAIN notebook' /\ notebook'[i] = notebook[i]
        /\ \A i \in DOMAIN notebook' \ DOMAIN notebook : notebook'[i] = x
    BY <1>1, <1>3, <1>4
  <1>6. Sources(notebook')
    BY <1>1, <1>3, <1>4, <1>5 DEF Sources
  <1>7. QED
    BY <1>5, <1>6 DEF Grows

CallFields == {"at", "kind", "names", "wait", "number", "via", "first", "again", "polls",
               "retries", "replays", "ids", "found", "looked", "result"}

\* The call has made one source at most, or one in each format when it has looked for the
\* first in vain until the last poll, beyond those that were sent again.
Sound(c, s) ==
    \/ AtMost(Mine(c.number, s), 1 + c.replays)
    \/ AtMost(Mine(c.number, s), 1 + (1 + c.replays)) /\ c.polls = MaxPolls /\ ~c.looked

\* Nothing has been answered yet, or nothing but the first format.
Before(c, s) == AtMost(Mine(c.number, s), c.replays) /\ ~c.looked
Between(c, s) ==
    /\ c.first /\ AtMost(Mine(c.number, s), 1 + c.replays)
    /\ c.looked => AtMost(Mine(c.number, s), c.replays)

\* What the call with one URL knows, place by place.
Tells(c, s) ==
    /\ c.at \in {"choose", "post", "reconcile"} =>
         (\E n : c.names = {n}) /\ \A i \in Mine(c.number, s) : s[i].name \in c.names
    /\ c.at = "choose" => Before(c, s)
    /\ c.at = "post" => Before(c, s) \/ (Between(c, s) /\ c.via = "v2" /\ c.polls = MaxPolls)
    /\ c.at = "reconcile" => Between(c, s)
    /\ Sound(c, s)

Adder(c) ==
    CallFields \subseteq DOMAIN c /\ c.names \subseteq Names /\ c.number \in Nat /\ c.replays \in Nat

\* The numbers of calls are their own.
Numbered ==
    /\ adds \in Nat
    /\ \A t \in Threads : adding[t].number <= adds
    /\ \A t, u \in Threads : t # u /\ adding[t].number > 0 => adding[t].number # adding[u].number
    /\ \A i \in DOMAIN notebook : notebook[i].by \in 0 .. adds

Telling ==
    /\ Sources(notebook) /\ Numbered
    /\ adding = [t \in Threads |-> adding[t]]
    /\ \A t \in Threads :
         /\ Adder(adding[t])
         /\ adding[t].kind = "url" /\ adding[t].number > 0 => Tells(adding[t], notebook)

\* What others do leaves a call with what it has made, or less.
LEMMA TellsGrows ==
    ASSUME NEW s, NEW z, NEW number, NEW names, Grows(s, z, number, names), NEW c,
           c.number # number \/ names = {}, c.replays \in Nat, Tells(c, s)
    PROVE  Tells(c, z)
  <1>1. /\ Mine(c.number, z) \subseteq Mine(c.number, s)
        /\ \A i \in Mine(c.number, z) : z[i].name = s[i].name
    <2>1. ASSUME NEW i \in DOMAIN z, z[i].by = c.number, z[i].status # "gone"
          PROVE  i \in Mine(c.number, s) /\ z[i].name = s[i].name
      <3>1. i \in DOMAIN s
        BY <2>1 DEF Grows
      <3>2. QED
        BY <2>1, <3>1 DEF Grows, Mine
    <2>2. QED
      BY <2>1 DEF Mine
  <1>2. \A k \in Nat : AtMost(Mine(c.number, s), k) => AtMost(Mine(c.number, z), k)
    BY <1>1, AtMostLess
  <1>3. /\ AtMost(Mine(c.number, s), c.replays) => AtMost(Mine(c.number, z), c.replays)
        /\ AtMost(Mine(c.number, s), 1 + c.replays) => AtMost(Mine(c.number, z), 1 + c.replays)
        /\ AtMost(Mine(c.number, s), 1 + (1 + c.replays)) =>
             AtMost(Mine(c.number, z), 1 + (1 + c.replays))
    BY <1>2
  <1>4. QED
    BY <1>1, <1>3 DEF Tells, Before, Between, Sound

\* A call with nothing to lose but that it is sound.
LEMMA SoundTells ==
    ASSUME NEW c, NEW s, Sound(c, s), c.at \notin {"choose", "post", "reconcile"}
    PROVE  Tells(c, s)
  BY DEF Tells

\* A step of one call, which may have made sources, or of none.
LEMMA TellingGoes ==
    ASSUME Telling, NEW t \in Threads, NEW names,
           Grows(notebook, notebook', adding[t].number, names), UNCHANGED adds,
           NEW c, Adder(c), c.number = adding[t].number, S!Goes(t, c),
           c.kind = "url" /\ c.number > 0 => Tells(c, notebook')
    PROVE  Telling'
  <1>1. /\ adding' = [u \in Threads |-> adding'[u]] /\ adding'[t] = c
        /\ \A u \in Threads \ {t} : adding'[u] = adding[u]
    BY DEF Telling, S!Goes
  <1>2. Sources(notebook')
    BY DEF Grows
  <1>3. \A u \in Threads : adding'[u].number = adding[u].number
    BY <1>1
  <1>4. \A i \in DOMAIN notebook' : notebook'[i].by \in 0 .. adds
    <2>1. adding[t].number \in 0 .. adds
      BY DEF Telling, Numbered, Adder
    <2>2. ASSUME NEW i \in DOMAIN notebook' PROVE notebook'[i].by \in 0 .. adds
      <3>1. CASE i \in DOMAIN notebook
        BY <3>1 DEF Grows, Telling, Numbered
      <3>2. CASE i \notin DOMAIN notebook
        BY <2>1, <3>2 DEF Grows
      <3>3. QED
        BY <3>1, <3>2
    <2>3. QED
      BY <2>2
  <1>5. Numbered'
    BY <1>3, <1>4 DEF Telling, Numbered
  <1>6. \A u \in Threads \ {t} :
            adding[u].kind = "url" /\ adding[u].number > 0 => Tells(adding[u], notebook')
    BY TellsGrows DEF Telling, Numbered, Adder
  <1>7. QED
    BY <1>1, <1>2, <1>5, <1>6 DEF Telling

LEMMA TellingOthers ==
    ASSUME Telling, UNCHANGED <<adding, adds>>, NEW names, Grows(notebook, notebook', 0, names)
    PROVE  Telling'
  <1>1. Sources(notebook')
    BY DEF Grows
  <1>2. \A i \in DOMAIN notebook' : notebook'[i].by \in 0 .. adds
    <2>1. 0 \in 0 .. adds
      BY DEF Telling, Numbered
    <2>2. ASSUME NEW i \in DOMAIN notebook' PROVE notebook'[i].by \in 0 .. adds
      <3>1. CASE i \in DOMAIN notebook
        BY <3>1 DEF Grows, Telling, Numbered
      <3>2. CASE i \notin DOMAIN notebook
        BY <2>1, <3>2 DEF Grows
      <3>3. QED
        BY <3>1, <3>2
    <2>3. QED
      BY <2>2
  <1>3. \A u \in Threads :
            adding[u].kind = "url" /\ adding[u].number > 0 => Tells(adding[u], notebook')
    BY TellsGrows DEF Telling, Adder
  <1>4. QED
    BY <1>1, <1>2, <1>3 DEF Telling, Numbered

\* A new call has a number that no source has.
LEMMA TellingStarts ==
    ASSUME Telling, NEW t \in Threads, UNCHANGED notebook, adds' = adds + 1,
           NEW c, Adder(c), c.number = adds + 1, S!Goes(t, c), ~c.looked,
           c.at \in {"choose", "post", "delete"},
           c.at # "delete" /\ c.kind = "url" => \E n : c.names = {n}
    PROVE  Telling'
  <1>1. /\ adding' = [u \in Threads |-> adding'[u]] /\ adding'[t] = c
        /\ \A u \in Threads \ {t} : adding'[u] = adding[u]
    BY DEF Telling, S!Goes
  <1>2. Numbered'
    BY <1>1 DEF Telling, Numbered, Adder
  <1>3. Mine(c.number, notebook) = {}
    BY DEF Mine, Telling, Numbered
  <1>4. AtMost({}, c.replays) /\ AtMost({}, 1 + c.replays)
    BY AtMostNone DEF Adder
  <1>5. c.kind = "url" => Tells(c, notebook)
    BY <1>3, <1>4 DEF Tells, Before, Sound
  <1>6. QED
    BY <1>1, <1>2, <1>5 DEF Telling

\* What a call keeps to its end.
Same(c, d) ==
    /\ Adder(d) /\ d.number = c.number /\ d.kind = c.kind /\ d.polls = c.polls
    /\ d.looked = c.looked /\ d.replays = c.replays

LEMMA IdleIs ==
    /\ CallFields \subseteq DOMAIN S!Idle /\ S!Idle.names = {} /\ S!Idle.kind = "url"
    /\ S!Idle.number = 0 /\ ~S!Idle.looked /\ S!Idle.at = "idle" /\ S!Idle.replays = 0
  BY DEF CallFields, S!Idle

LEMMA EndedIs ==
    ASSUME NEW c, Adder(c), NEW result
    PROVE  Same(c, S!Ended(c, result)) /\ S!Ended(c, result).at = "idle"
  <1> DEFINE d == S!Ended(c, result)
  <1>1. /\ CallFields \subseteq DOMAIN d /\ d.names = S!Idle.names /\ d.number = c.number
        /\ d.kind = c.kind /\ d.polls = c.polls /\ d.looked = c.looked /\ d.at = S!Idle.at
        /\ d.replays = c.replays
    BY IdleIs DEF CallFields, S!Ended
  <1> HIDE DEF d
  <1>2. QED
    BY <1>1, IdleIs DEF Same, Adder, d

LEMMA WithIdsIs ==
    ASSUME NEW c, Adder(c)
    PROVE  Same(c, S!WithIds(c)) /\ S!WithIds(c).at \in {"idle", "wait"}
  <1> DEFINE d == [c EXCEPT !.at = "wait"]
  <1>1. Same(c, d) /\ d.at = "wait"
    BY DEF Same, Adder, CallFields
  <1> HIDE DEF d
  <1>2. S!WithIds(c) = d \/ \E result : S!WithIds(c) = S!Ended(c, result)
    BY DEF S!WithIds, d
  <1>3. QED
    BY <1>1, <1>2, EndedIs

\* A call goes on, or ends, without anything more to be sent.
LEMMA TellingSettles ==
    ASSUME Telling, NEW t \in Threads, NEW names,
           Grows(notebook, notebook', adding[t].number, names), UNCHANGED adds,
           NEW d, Same(adding[t], d), S!Goes(t, d),
           d.at \notin {"choose", "post", "reconcile"},
           adding[t].kind = "url" /\ adding[t].number > 0 => Sound(adding[t], notebook')
    PROVE  Telling'
  <1>1. d.kind = "url" /\ d.number > 0 => Tells(d, notebook')
    BY SoundTells DEF Same, Sound
  <1>2. QED
    BY <1>1, TellingGoes DEF Same

LEMMA TellingStays ==
    ASSUME Telling, NEW t \in Threads, Grows(notebook, notebook', adding[t].number, {}),
           UNCHANGED adds, NEW d, Same(adding[t], d), S!Goes(t, d),
           d.at \notin {"choose", "post", "reconcile"}
    PROVE  Telling'
  <1>1. adding[t].kind = "url" /\ adding[t].number > 0 => Tells(adding[t], notebook')
    BY TellsGrows DEF Telling, Adder
  <1>2. adding[t].kind = "url" /\ adding[t].number > 0 => Sound(adding[t], notebook')
    BY <1>1 DEF Tells
  <1>3. QED
    BY <1>2, TellingSettles

\* A request with one URL adds one source, or none.
LEMMA Posted ==
    ASSUME Telling, NEW t \in Threads, adding[t].at = "post",
           NEW names \in SUBSET adding[t].names, NEW status,
           S!Put(names, adding[t].number, status)
    PROVE  LET c == adding[t]
               new == Mine(c.number, notebook')
           IN /\ Grows(notebook, notebook', c.number, names)
              /\ c.kind = "url" /\ c.number > 0 =>
                   /\ Sound(c, notebook')
                   /\ \E n : c.names = {n}
                   /\ \A i \in new : notebook'[i].name \in c.names
                   /\ \/ ~c.looked /\ AtMost(new, 1 + c.replays)
                      \/ /\ c.via = "v2" /\ c.polls = MaxPolls /\ c.first
                         /\ AtMost(new, 1 + (1 + c.replays))
                         /\ c.looked => AtMost(new, 1 + c.replays)
  <1> DEFINE c == adding[t]
             old == Mine(c.number, notebook)
             new == Mine(c.number, notebook')
  <1>1. /\ Grows(notebook, notebook', c.number, names)
        /\ names = {} => notebook' = notebook
        /\ \A n : names = {n} => Single(DOMAIN notebook' \ DOMAIN notebook)
    BY PutGrows DEF Telling, Adder
  <1>2. SUFFICES ASSUME c.kind = "url", c.number > 0
                 PROVE  /\ Sound(c, notebook') /\ \E n : c.names = {n}
                        /\ \A i \in new : notebook'[i].name \in c.names
                        /\ \/ ~c.looked /\ AtMost(new, 1 + c.replays)
                           \/ /\ c.via = "v2" /\ c.polls = MaxPolls /\ c.first
                              /\ AtMost(new, 1 + (1 + c.replays))
                              /\ c.looked => AtMost(new, 1 + c.replays)
    BY <1>1
  <1>3. Tells(c, notebook) /\ c.replays \in Nat
    BY <1>2 DEF Telling, Adder
  <1>4. \E n : c.names = {n}
    BY <1>3 DEF Tells
  <1>5. Single(DOMAIN notebook' \ DOMAIN notebook)
    <2>1. CASE names = {}
      BY <1>1, <2>1 DEF Single
    <2>2. CASE names # {}
      BY <1>1, <1>4, <2>2
    <2>3. QED
      BY <2>1, <2>2
  <1>6. /\ \A i \in new : i \in DOMAIN notebook => i \in old /\ notebook'[i].name = notebook[i].name
        /\ \A i \in new : i \notin DOMAIN notebook => notebook'[i].name \in c.names
    BY <1>1 DEF Grows, Mine
  <1>7. \A i \in new : notebook'[i].name \in c.names
    BY <1>3, <1>6 DEF Tells
  <1>8. new \subseteq old \cup (DOMAIN notebook' \ DOMAIN notebook)
    BY <1>6 DEF Mine
  <1>9. /\ AtMost(old, c.replays) => AtMost(new, 1 + c.replays)
        /\ AtMost(old, 1 + c.replays) => AtMost(new, 1 + (1 + c.replays))
    <2> HIDE DEF old, new
    <2>1. 1 + c.replays \in Nat
      BY <1>3
    <2>2. QED
      BY <1>3, <1>5, <1>8, <2>1, AtMostOneMore
  <1>10. Before(c, notebook) \/ (Between(c, notebook) /\ c.via = "v2" /\ c.polls = MaxPolls)
    BY <1>3 DEF Tells
  <1>11. \/ ~c.looked /\ AtMost(new, 1 + c.replays)
         \/ /\ c.via = "v2" /\ c.polls = MaxPolls /\ c.first
            /\ AtMost(new, 1 + (1 + c.replays))
            /\ c.looked => AtMost(new, 1 + c.replays)
    BY <1>9, <1>10 DEF Before, Between
  <1>12. QED
    BY <1>4, <1>7, <1>11 DEF Sound

LEMMA PostSteps ==
    ASSUME Telling, NEW t \in Threads,
           S!PostAnswered(t) \/ S!PostAmbiguous(t) \/ S!PostLost(t) \/ S!PostReplayed(t)
    PROVE  Telling'
  <1> DEFINE c == adding[t]
  <1>1. Adder(c) /\ c.at = "post" /\ UNCHANGED adds
    BY DEF Telling, S!PostAnswered, S!PostAmbiguous, S!PostLost, S!PostReplayed
  <1>2. PICK names \in SUBSET c.names : \E status : S!Put(names, c.number, status)
    BY DEF S!PostAnswered, S!PostAmbiguous, S!PostLost, S!PostReplayed, S!Unanswered
  <1>3. /\ Grows(notebook, notebook', c.number, names)
        /\ c.kind = "url" /\ c.number > 0 =>
             /\ Sound(c, notebook') /\ \E n : c.names = {n}
             /\ \A i \in Mine(c.number, notebook') : notebook'[i].name \in c.names
             /\ \/ ~c.looked /\ AtMost(Mine(c.number, notebook'), 1 + c.replays)
                \/ /\ c.via = "v2" /\ c.polls = MaxPolls /\ c.first
                   /\ AtMost(Mine(c.number, notebook'), 1 + (1 + c.replays))
                   /\ c.looked => AtMost(Mine(c.number, notebook'), 1 + c.replays)
    BY <1>1, <1>2, Posted
  <1>4. CASE S!PostAnswered(t)
    <2>1. PICK ids, r : /\ r = [c EXCEPT !.ids = ids]
                        /\ \/ S!Goes(t, [r EXCEPT !.at = "record"])
                           \/ S!Goes(t, [r EXCEPT !.at = "upload"])
                           \/ S!Goes(t, S!WithIds(r))
      BY <1>4 DEF S!PostAnswered
    <2>2. Same(c, r)
      BY <1>1, <2>1 DEF Same, Adder, CallFields
    <2>3. \A place : Same(c, [r EXCEPT !.at = place]) /\ [r EXCEPT !.at = place].at = place
      BY <2>2 DEF Same, Adder, CallFields
    <2>4. Same(c, S!WithIds(r)) /\ S!WithIds(r).at \in {"idle", "wait"}
      BY <2>2, WithIdsIs DEF Same
    <2>5. QED
      BY <1>1, <1>3, <2>1, <2>3, <2>4, TellingSettles
  <1>5. CASE S!PostLost(t)
    BY <1>1, <1>3, <1>5, EndedIs, TellingSettles DEF S!PostLost
  <1>6. CASE S!PostAmbiguous(t)
    <2>1. PICK code \in {3, 9} : S!Goes(t, S!Ambiguous(c, code))
      BY <1>6 DEF S!PostAmbiguous
    <2>2. CASE c.kind # "url"
      <3> DEFINE d1 == S!NewRequest([c EXCEPT !.again = FALSE])
                 d2 == [c EXCEPT !.at = "reconcile"]
                 d3 == S!NewRequest([c EXCEPT !.via = "v2"])
      <3>1. Same(c, d1) /\ Same(c, d2) /\ Same(c, d3)
        BY <1>1 DEF Same, Adder, CallFields, S!NewRequest
      <3>2. Same(c, S!Ended(c, "failed"))
        BY <1>1, EndedIs
      <3>3. S!Ambiguous(c, code) \in {d1, d2, d3, S!Ended(c, "failed")}
        BY <2>1, <2>2 DEF S!Ambiguous
      <3> HIDE DEF d1, d2, d3
      <3> DEFINE d == S!Ambiguous(c, code)
      <3>4. Same(c, d) /\ d.kind # "url"
        BY <2>2, <3>1, <3>2, <3>3 DEF Same
      <3> HIDE DEF d
      <3>5. S!Goes(t, d)
        BY <2>1 DEF d
      <3>6. QED
        BY <1>1, <1>3, <3>4, <3>5, TellingGoes DEF Same
    <2>3. CASE c.kind = "url" /\ code = 3 /\ S!Trying(c)
      <3> DEFINE d == [c EXCEPT !.at = "reconcile"]
      <3>1. S!Goes(t, d)
        BY <2>1, <2>3 DEF S!Ambiguous
      <3>2. Same(c, d) /\ d.at = "reconcile" /\ d.first = c.first /\ d.names = c.names
        BY <1>1 DEF Same, Adder, CallFields
      <3> HIDE DEF d
      <3>3. c.first /\ c.via = "v1"
        BY <2>3 DEF S!Trying
      <3>4. d.number > 0 => Tells(d, notebook')
        BY <1>3, <2>3, <3>2, <3>3 DEF Same, Tells, Between, Sound
      <3>5. QED
        BY <1>1, <1>3, <3>1, <3>2, <3>4, TellingGoes DEF Same
    <2>4. CASE c.kind = "url" /\ ~(code = 3 /\ S!Trying(c))
      <3>1. S!Goes(t, S!Ended(c, "failed"))
        BY <2>1, <2>4 DEF S!Ambiguous
      <3>2. QED
        BY <1>1, <1>3, <3>1, EndedIs, TellingSettles
    <2>5. QED
      BY <2>2, <2>3, <2>4
  <1>7. CASE S!PostReplayed(t)
    <2> DEFINE d == [c EXCEPT !.retries = @ + 1, !.replays = @ + 1]
    <2>1. S!Goes(t, d)
      BY <1>7 DEF S!PostReplayed
    <2>2. /\ Adder(d) /\ d.number = c.number /\ d.kind = c.kind /\ d.names = c.names
          /\ d.looked = c.looked /\ d.at = "post" /\ d.first = c.first /\ d.via = c.via
          /\ d.polls = c.polls /\ d.replays = 1 + c.replays
      BY <1>1 DEF Adder, CallFields
    <2> HIDE DEF d
    <2>3. ASSUME d.kind = "url", d.number > 0
          PROVE  Tells(d, notebook')
      <3> DEFINE new == Mine(d.number, notebook')
      <3>1. /\ \E n : d.names = {n}
            /\ \A i \in new : notebook'[i].name \in d.names
            /\ \/ ~d.looked /\ AtMost(new, d.replays)
               \/ /\ d.via = "v2" /\ d.polls = MaxPolls /\ d.first
                  /\ AtMost(new, 1 + d.replays)
                  /\ d.looked => AtMost(new, d.replays)
        BY <1>3, <2>2, <2>3
      <3>2. AtMost(new, d.replays) => AtMost(new, 1 + d.replays)
        <4> HIDE DEF new
        <4>1. d.replays \in Nat
          BY <2>2 DEF Adder
        <4>2. QED
          BY <4>1, AtMostLess
      <3>3. QED
        BY <2>2, <3>1, <3>2 DEF Tells, Before, Between, Sound
    <2>4. QED
      BY <1>1, <1>3, <2>1, <2>2, <2>3, TellingGoes
  <1>8. QED
    BY <1>4, <1>5, <1>6, <1>7

\* A poll is used up: after the last one the second format is sent.
LEMMA PolledTells ==
    ASSUME NEW c, NEW s, Adder(c), c.at = "reconcile",
           c.kind = "url" /\ c.number > 0 => Tells(c, s)
    PROVE  LET d == S!Polled(c)
           IN /\ Adder(d) /\ d.number = c.number /\ d.kind = c.kind
              /\ d.kind = "url" /\ d.number > 0 => Tells(d, s)
  <1> DEFINE d1 == [c EXCEPT !.polls = @ + 1]
             d2 == S!NewRequest([d1 EXCEPT !.via = "v2"])
             d3 == S!Ended(d1, "failed")
  <1>1. /\ Adder(d1) /\ d1.number = c.number /\ d1.kind = c.kind /\ d1.looked = c.looked
        /\ d1.at = c.at /\ d1.first = c.first /\ d1.names = c.names /\ d1.replays = c.replays
    BY DEF Adder, CallFields
  <1>2. S!Polled(c) = IF d1.polls < MaxPolls THEN d1
                      ELSE IF d1.polls = MaxPolls /\ c.kind = "url" THEN d2 ELSE d3
    <2>1. MaxPolls \in Nat
      BY BoundsAssumption
    <2>2. ~(d1.polls = MaxPolls /\ d1.polls < MaxPolls)
      BY <2>1
    <2>3. QED
      BY <2>2 DEF S!Polled
  <1> HIDE DEF d1
  <1>3. /\ Adder(d2) /\ d2.number = c.number /\ d2.kind = c.kind /\ d2.looked = c.looked
        /\ d2.at = "post" /\ d2.via = "v2" /\ d2.first = c.first /\ d2.names = c.names
        /\ d2.polls = d1.polls /\ d2.replays = c.replays
    BY <1>1 DEF Adder, CallFields, S!NewRequest
  <1>4. Same(d1, d3) /\ d3.at = "idle"
    BY <1>1, EndedIs
  <1> HIDE DEF d2, d3
  <1>5. ASSUME c.kind = "url", c.number > 0
        PROVE  Tells(d1, s) /\ (d1.polls = MaxPolls => Tells(d2, s)) /\ Tells(d3, s)
    <2>1. Tells(c, s)
      BY <1>5
    <2>2. Between(c, s) /\ AtMost(Mine(c.number, s), 1 + c.replays)
      BY <2>1 DEF Tells, Between
    <2>3. Tells(d1, s)
      BY <1>1, <2>1, <2>2 DEF Tells, Between, Sound
    <2>4. d1.polls = MaxPolls => Tells(d2, s)
      BY <1>1, <1>3, <2>1, <2>2 DEF Tells, Between, Sound
    <2>5. Tells(d3, s)
      BY <1>1, <1>4, <2>2 DEF Tells, Sound, Same
    <2>6. QED
      BY <2>3, <2>4, <2>5
  <1>6. QED
    BY <1>1, <1>2, <1>3, <1>4, <1>5 DEF Same

LEMMA PollSteps ==
    ASSUME Telling, NEW t \in Threads, S!NoMatch(t) \/ S!PollFails(t)
    PROVE  Telling'
  <1> DEFINE c == adding[t]
             b == [c EXCEPT !.looked = S!Of(c) \subseteq S!Listed]
  <1>1. Adder(c) /\ c.at = "reconcile" /\ UNCHANGED <<notebook, adds>>
    BY DEF Telling, S!NoMatch, S!PollFails, S!Stays
  <1>2. Grows(notebook, notebook', c.number, {})
    BY <1>1, StaysGrows DEF Telling
  <1>3. c.kind = "url" /\ c.number > 0 => Tells(c, notebook)
    BY DEF Telling
  <1>4. CASE S!PollFails(t)
    <2> DEFINE d == S!Polled(c)
    <2>1. /\ Adder(d) /\ d.number = c.number /\ d.kind = c.kind
          /\ d.kind = "url" /\ d.number > 0 => Tells(d, notebook)
      BY <1>1, <1>3, PolledTells
    <2>2. S!Goes(t, d)
      BY <1>4 DEF S!PollFails
    <2> HIDE DEF d
    <2>3. QED
      BY <1>1, <1>2, <2>1, <2>2, TellingGoes
  <1>5. CASE S!NoMatch(t)
    <2>1. /\ Adder(b) /\ b.number = c.number /\ b.kind = c.kind /\ b.at = "reconcile"
          /\ b.first = c.first /\ b.names = c.names /\ b.replays = c.replays
          /\ b.looked = (S!Of(c) \subseteq S!Listed)
      BY <1>1 DEF Adder, CallFields
    <2>2. S!Goes(t, S!Polled(b)) /\ \A i \in S!Listed : notebook[i].name \notin c.names
      BY <1>5 DEF S!NoMatch
    <2>3. S!Of(c) = Mine(c.number, notebook)
      BY DEF S!Of, Mine
    <2> HIDE DEF b
    <2>4. b.kind = "url" /\ b.number > 0 => Tells(b, notebook)
      <3>1. SUFFICES ASSUME c.kind = "url", c.number > 0 PROVE Tells(b, notebook)
        BY <2>1
      <3>2. Tells(c, notebook)
        BY <1>3, <3>1
      <3>3. b.looked => Mine(c.number, notebook) = {}
        BY <1>1, <2>1, <2>2, <2>3, <3>2 DEF Tells
      <3>4. b.looked => AtMost(Mine(c.number, notebook), c.replays)
        BY <1>1, <3>3, AtMostNone DEF Adder
      <3>5. QED
        BY <1>1, <2>1, <3>2, <3>4 DEF Tells, Between, Sound
    <2> DEFINE d == S!Polled(b)
    <2>5. /\ Adder(d) /\ d.number = c.number /\ d.kind = c.kind
          /\ d.kind = "url" /\ d.number > 0 => Tells(d, notebook)
      BY <2>1, <2>4, PolledTells
    <2>6. S!Goes(t, d)
      BY <2>2
    <2> HIDE DEF d
    <2>7. QED
      BY <1>1, <1>2, <2>5, <2>6, TellingGoes
  <1>6. QED
    BY <1>4, <1>5

\* The format that is recorded, or the first of the two.
LEMMA ChooseStep ==
    ASSUME Telling, NEW t \in Threads, S!Choose(t)
    PROVE  Telling'
  <1> DEFINE c == adding[t]
             d == [c EXCEPT !.at = "post", !.first = (recorded = "none"),
                            !.via = IF recorded = "none" THEN "v1" ELSE recorded]
  <1>1. Adder(c) /\ c.at = "choose" /\ UNCHANGED <<notebook, adds>> /\ S!Goes(t, d)
    BY DEF Telling, S!Choose, S!Stays
  <1>2. /\ Adder(d) /\ d.number = c.number /\ d.kind = c.kind /\ d.names = c.names
        /\ d.looked = c.looked /\ d.at = "post" /\ d.replays = c.replays
    BY <1>1 DEF Adder, CallFields
  <1> HIDE DEF d
  <1>3. AtMost(Mine(c.number, notebook), c.replays) =>
          AtMost(Mine(c.number, notebook), 1 + c.replays)
    BY <1>1, AtMostLess DEF Adder
  <1>4. d.kind = "url" /\ d.number > 0 => Tells(d, notebook)
    BY <1>1, <1>2, <1>3 DEF Telling, Tells, Before, Sound
  <1>5. Grows(notebook, notebook', c.number, {})
    BY <1>1, StaysGrows DEF Telling
  <1>6. QED
    BY <1>1, <1>2, <1>4, <1>5, TellingGoes

\* Steps that send nothing and leave the sources to themselves.
LEMMA QuietSteps ==
    ASSUME Telling, NEW t \in Threads,
           \/ S!Match(t) \/ S!Record(t) \/ S!UploadFails(t) \/ S!Ready(t)
           \/ S!ProcessingFailed(t) \/ S!WaitTimesOut(t)
    PROVE  Telling'
  <1> DEFINE c == adding[t]
  <1>1. Adder(c) /\ UNCHANGED <<notebook, adds>>
    BY DEF Telling, S!Match, S!Record, S!UploadFails, S!Ready, S!ProcessingFailed,
           S!WaitTimesOut, S!Stays
  <1>2. Grows(notebook, notebook', c.number, {})
    BY <1>1, StaysGrows DEF Telling
  <1>3. \A result : Same(c, S!Ended(c, result)) /\ S!Ended(c, result).at = "idle"
    BY <1>1, EndedIs
  <1>4. CASE S!Match(t)
    <2>1. PICK ids, d : /\ d = [c EXCEPT !.ids = ids, !.found = TRUE]
                        /\ S!Goes(t, [d EXCEPT !.at = "record"]) \/ S!Goes(t, S!Ended(d, "added"))
      BY <1>4 DEF S!Match
    <2>2. Same(c, d) /\ Same(c, [d EXCEPT !.at = "record"]) /\ [d EXCEPT !.at = "record"].at = "record"
      BY <1>1, <2>1 DEF Same, Adder, CallFields
    <2>3. Same(c, S!Ended(d, "added")) /\ S!Ended(d, "added").at = "idle"
      BY <2>2, EndedIs DEF Same
    <2>4. QED
      BY <1>1, <1>2, <2>1, <2>2, <2>3, TellingStays
  <1>5. CASE S!Record(t)
    <2>1. S!Goes(t, S!Ended(c, "added")) \/ S!Goes(t, S!WithIds(c))
      BY <1>5 DEF S!Record
    <2>2. Same(c, S!WithIds(c)) /\ S!WithIds(c).at \in {"idle", "wait"}
      BY <1>1, WithIdsIs
    <2>3. QED
      BY <1>1, <1>2, <1>3, <2>1, <2>2, TellingStays
  <1>6. CASE S!UploadFails(t) \/ S!Ready(t) \/ S!ProcessingFailed(t) \/ S!WaitTimesOut(t)
    <2>1. PICK result : S!Goes(t, S!Ended(c, result))
      BY <1>6 DEF S!UploadFails, S!Ready, S!ProcessingFailed, S!WaitTimesOut
    <2>2. QED
      BY <1>1, <1>2, <1>3, <2>1, TellingStays
  <1>7. QED
    BY <1>4, <1>5, <1>6

\* Steps that change what is there.
LEMMA ChangingSteps ==
    ASSUME Telling, NEW t \in Threads, S!Upload(t) \/ S!Delete(t) \/ S!DeletionFails(t)
    PROVE  Telling'
  <1> DEFINE c == adding[t]
  <1>1. Adder(c) /\ UNCHANGED adds /\ Sources(notebook)
    BY DEF Telling, S!Upload, S!Delete, S!DeletionFails
  <1>2. Grows(notebook, notebook', c.number, {})
    <2>1. CASE S!Upload(t)
      BY <1>1, <2>1, ChangesGrows DEF S!Upload
    <2>2. CASE notebook' = S!Without(c.ids)
      BY <1>1, <2>2, ChangesGrows DEF S!Without
    <2>3. CASE notebook' = notebook
      BY <1>1, <2>3, StaysGrows
    <2>4. QED
      BY <2>1, <2>2, <2>3 DEF S!Delete, S!DeletionFails
  <1>3. \A result : Same(c, S!Ended(c, result)) /\ S!Ended(c, result).at = "idle"
    BY <1>1, EndedIs
  <1>4. Same(c, S!WithIds(c)) /\ S!WithIds(c).at \in {"idle", "wait"}
    BY <1>1, WithIdsIs
  <1>5. S!Goes(t, S!WithIds(c)) \/ \E result : S!Goes(t, S!Ended(c, result))
    BY DEF S!Upload, S!Delete, S!DeletionFails
  <1>6. QED
    BY <1>1, <1>2, <1>3, <1>4, <1>5, TellingStays

LEMMA StartsTelling ==
    ASSUME Telling, NEW t \in Threads, S!StartsAdding(t)
    PROVE  Telling'
  <1>1. adds \in Nat
    BY DEF Telling, Numbered
  <1>2. ASSUME NEW kind, NEW names \in SUBSET Names, NEW wait, S!Add(t, kind, names, wait)
        PROVE  Telling'
    <2>1. PICK again : S!Goes(t, [S!Idle EXCEPT !.at = IF kind \in {"url", "batch"} THEN "choose" ELSE "post",
                                      !.kind = kind, !.names = names, !.wait = wait,
                                      !.number = adds + 1, !.again = again])
      BY <1>2 DEF S!Add
    <2> DEFINE c == [S!Idle EXCEPT !.at = IF kind \in {"url", "batch"} THEN "choose" ELSE "post",
                                   !.kind = kind, !.names = names, !.wait = wait,
                                   !.number = adds + 1, !.again = again]
    <2>2. /\ Adder(c) /\ c.number = adds + 1 /\ ~c.looked /\ c.at \in {"choose", "post"}
          /\ c.kind = kind /\ c.names = names
      BY <1>1, <1>2, IdleIs DEF Adder, CallFields
    <2>3. S!Goes(t, c) /\ UNCHANGED notebook /\ adds' = adds + 1
      BY <1>2, <2>1 DEF S!Add
    <2> HIDE DEF c
    <2>4. kind = "url" => \E n : names = {n}
      <3>1. IsFiniteSet(names)
        BY NamesAssumption, FS_Subset
      <3>2. kind = "url" => Cardinality(names) = 1
        BY <1>2, CardinalityIs DEF S!Add
      <3>3. QED
        BY <3>1, <3>2, FS_Singleton
    <2>5. QED
      BY <2>2, <2>3, <2>4, TellingStarts
  <1>3. ASSUME NEW ids, S!StartDeletion(t, ids)
        PROVE  Telling'
    <2> DEFINE c == [S!Idle EXCEPT !.at = "delete", !.number = adds + 1, !.ids = ids]
    <2>1. Adder(c) /\ c.number = adds + 1 /\ ~c.looked /\ c.at = "delete"
      BY <1>1, IdleIs DEF Adder, CallFields
    <2>2. S!Goes(t, c) /\ UNCHANGED notebook /\ adds' = adds + 1
      BY <1>3 DEF S!StartDeletion
    <2> HIDE DEF c
    <2>3. QED
      BY <2>1, <2>2, TellingStarts
  <1>4. QED
    BY <1>2, <1>3 DEF S!StartsAdding

LEMMA ServiceGrows ==
    ASSUME Telling, S!ServiceStep
    PROVE  UNCHANGED <<adding, adds>> /\ \E names : Grows(notebook, notebook', 0, names)
  <1>1. ASSUME NEW n \in Names, S!OthersAdd(n)
        PROVE  UNCHANGED <<adding, adds>> /\ Grows(notebook, notebook', 0, {n})
    <2>1. S!Put({n}, 0, "ready") /\ UNCHANGED <<adding, adds>>
      BY <1>1 DEF S!OthersAdd
    <2>2. QED
      BY <2>1, PutGrows DEF Telling
  <1>2. ASSUME NEW i \in DOMAIN notebook, S!Process(i)
        PROVE  UNCHANGED <<adding, adds>> /\ Grows(notebook, notebook', 0, {})
    <2>1. PICK status : notebook' = [notebook EXCEPT ![i].status = status]
                        /\ status # "hidden" /\ notebook[i].status \in {"hidden", "processing"}
      BY <1>2 DEF S!Process
    <2>2. notebook' = [j \in DOMAIN notebook |-> IF j = i THEN [notebook[i] EXCEPT !.status = status]
                                                 ELSE notebook[j]]
      BY <2>1 DEF Telling, Sources
    <2>3. Grows(notebook, notebook', 0, {})
      BY <2>1, <2>2, ChangesGrows DEF Telling
    <2>4. QED
      BY <1>2, <2>3 DEF S!Process
  <1>3. QED
    BY <1>1, <1>2 DEF S!ServiceStep

LEMMA ServiceTelling ==
    ASSUME Telling, S!ServiceStep
    PROVE  Telling'
  BY ServiceGrows, TellingOthers

\* What research imports belongs to no call.
LEMMA ImportsGrows ==
    ASSUME Telling, NEW t \in Threads, F!ResearchStep(t)
    PROVE  \E names : Grows(notebook, notebook', 0, names)
  <1>1. notebook' = notebook \/ \E status : F!Adds(t, status)
    BY DEF F!ResearchStep, F!ResearchReplayed, F!Check, F!Started, F!StartFails, F!Poll, F!PollFails, F!Look,
           F!Snapshot, F!ImportAnswered, F!ImportFails, F!ImportPending, F!Appeared, F!Stays
  <1>2. CASE notebook' = notebook
    BY <1>2, StaysGrows DEF Telling
  <1>3. ASSUME NEW status, F!Adds(t, status)
        PROVE  \E names : Grows(notebook, notebook', 0, names)
    <2> DEFINE x == [name |-> tasks[research[t].got].query, by |-> 0, status |-> status]
    <2>1. {"name", "by", "status"} \subseteq DOMAIN x /\ x.by = 0
      OBVIOUS
    <2>2. notebook' = Append(notebook, x)
      BY <1>3 DEF F!Adds
    <2> HIDE DEF x
    <2>3. Grows(notebook, notebook', x.by, {x.name})
      BY <2>1, <2>2, AppendGrows DEF Telling
    <2>4. QED
      BY <2>1, <2>3
  <1>4. QED
    BY <1>1, <1>2, <1>3

LEMMA ImportsTelling ==
    ASSUME Telling, UNCHANGED <<adding, adds>>, NEW t \in Threads, F!ResearchStep(t)
    PROVE  Telling'
  BY ImportsGrows, TellingOthers

LEMMA AddingSteps ==
    ASSUME Telling, NEW t \in Threads, S!AddStep(t)
    PROVE  Telling'
  BY ChooseStep, PostSteps, PollSteps, QuietSteps, ChangingSteps DEF S!AddStep

\* Which parts of Next are about sources.
LEMMA SourceSteps ==
    ASSUME Next
    PROVE  \/ UNCHANGED <<notebook, adding, adds>>
           \/ S!ServiceStep
           \/ \E t \in Threads :
                \/ S!StartsAdding(t) \/ S!AddStep(t)
                \/ F!ResearchStep(t) /\ UNCHANGED <<adding, adds>>
                \/ \E n \in Names, kind \in {"url", "text"} : S!Add(t, kind, {n}, FALSE)
  <1>1. ASSUME NEW t \in Threads, Call(t)
        PROVE  UNCHANGED <<notebook, adding, adds>> \/ S!StartsAdding(t)
    <2>1. CASE F!StartsResearch(t) /\ Researches(TRUE)
      BY <2>1 DEF Researches, addingVars, F!StartsResearch, F!Start, F!Status, F!Import, F!Stays
    <2>2. CASE M!StartsStudio(t) /\ Makes(TRUE)
      BY <2>2 DEF Makes, addingVars, M!StartsStudio, M!StartDelete, M!StartRevise, M!Calls
    <2>3. QED
      BY <1>1, <2>1, <2>2 DEF Call, Adds, Researches, Makes, Elaborates, addingVars
  <1>2. ASSUME NEW t \in Threads, Step(t)
        PROVE  \/ UNCHANGED <<notebook, adding, adds>> \/ S!AddStep(t)
               \/ F!ResearchStep(t) /\ UNCHANGED <<adding, adds>>
    <2>1. CASE M!StudioStep(t) /\ Makes(TRUE)
      BY <2>1 DEF Makes, addingVars, M!StudioStep, M!MakeReplayed, M!Resolve, M!ResolveFails, M!Created,
         M!CreateRejected, M!CreateLost, M!Generate, M!Save, M!Revise, M!Delete, M!DeleteFails,
         M!ListMaps, M!Unmap, M!Untime, M!MapDeletionFails, M!Stays
    <2>2. QED
      BY <1>2, <2>1 DEF Step, Adds, Researches, Makes, Elaborates, addingVars
  <1>3. ASSUME NEW t \in Threads, StartsMultiFormat(t) \/ NextStep(t) \/ PipelineEnds(t)
        PROVE  UNCHANGED <<notebook, adding, adds>>
    BY <1>3 DEF StartsMultiFormat, NextStep, PipelineEnds, addingVars
  <1>4. ASSUME Service
        PROVE  UNCHANGED <<notebook, adding, adds>> \/ S!ServiceStep
    BY <1>4 DEF Service, Adds, Researches, Makes, Elaborates, addingVars, F!Progress, M!Generated
  <1>5. ASSUME NEW t \in Threads, StartsPipeline(t)
        PROVE  \E n \in Names, kind \in {"url", "text"} : S!Add(t, kind, {n}, FALSE)
    BY <1>5 DEF StartsPipeline
  <1>6. QED
    BY <1>1, <1>2, <1>3, <1>4, <1>5 DEF Next

LEMMA TellingAlways == Spec => []Telling
  <1>1. Init => Telling
    <2>1. SUFFICES ASSUME S!SourcesInit PROVE Telling
      BY DEF Init
    <2>2. Sources(notebook) /\ DOMAIN notebook = {}
      BY <2>1 DEF S!SourcesInit, Sources
    <2>3. adds = 0 /\ adding = [t \in Threads |-> adding[t]] /\ \A t \in Threads : adding[t] = S!Idle
      BY <2>1 DEF S!SourcesInit
    <2>4. QED
      BY <2>2, <2>3, IdleIs DEF Telling, Numbered, Adder
  <1>2. Telling /\ [Next]_vars => Telling'
    <2>1. SUFFICES ASSUME Telling, [Next]_vars PROVE Telling'
      OBVIOUS
    <2>2. CASE UNCHANGED <<notebook, adding, adds>>
      BY <2>1, <2>2 DEF Telling, Numbered
    <2>3. ASSUME NEW t \in Threads, NEW n \in Names, NEW kind \in {"url", "text"},
                 S!Add(t, kind, {n}, FALSE)
          PROVE  Telling'
      <3>1. S!StartsAdding(t)
        BY <2>3 DEF S!StartsAdding, S!Kinds
      <3>2. QED
        BY <2>1, <3>1, StartsTelling
    <2>4. QED
      BY <2>1, <2>2, <2>3, SourceSteps, StartsTelling, AddingSteps, ServiceTelling, ImportsTelling
         DEF vars, addingVars
  <1>3. QED
    BY <1>1, <1>2, PTL DEF Spec

\* For any number of threads, names, calls and retries, whatever the service answers and
\* however the calls overlap: of a URL added alone, every copy but one is a request that was
\* sent again, and one more of the second format only when the polls were spent and the last
\* listing that came could not show the first copy.
THEOREM TwiceOnlyInDoubt == Spec => []TwiceOnlyUnseen
  <1>1. Telling => TwiceOnlyUnseen
    <2>1. SUFFICES ASSUME Telling, NEW t \in Threads, adding[t].kind = "url", adding[t].number > 0
                   PROVE  LET c == adding[t]
                              unseen == c.polls = MaxPolls /\ ~c.looked
                          IN S!Cardinality(S!Of(c)) <= 1 + c.replays + (IF unseen THEN 1 ELSE 0)
      BY DEF TwiceOnlyUnseen, S!TwiceOnlyUnseen
    <2> DEFINE c == adding[t]
               A == S!Of(c)
    <2>2. Sound(c, notebook) /\ c.replays \in Nat
      BY <2>1 DEF Telling, Tells, Adder
    <2>3. A = Mine(c.number, notebook)
      BY DEF S!Of, Mine
    <2>4. S!Cardinality(A) = Cardinality(A)
      BY CardinalityIs
    <2> HIDE DEF A
    <2>5. /\ Cardinality(A) \in Nat
          /\ \/ Cardinality(A) <= 1 + c.replays
             \/ Cardinality(A) <= 1 + (1 + c.replays) /\ c.polls = MaxPolls /\ ~c.looked
      BY <2>2, <2>3, FS_CardinalityType DEF Sound, AtMost
    <2>6. QED
      BY <2>2, <2>4, <2>5 DEF A
  <1>2. QED
    BY <1>1, TellingAlways, PTL

-----------------------------------------------------------------------------
\* Pipelines.

LEMMA Smallest ==
    ASSUME NEW A \in SUBSET Nat, A # {}
    PROVE  \E x \in A : \A y \in A : x <= y
  <1> DEFINE Less == {p \in Nat \X Nat : p[1] < p[2]}
  <1>1. IsWellFoundedOn(Less, Nat)
    BY NatLessThanWellFounded DEF OpToRel
  <1> HIDE DEF Less
  <1>2. PICK x \in A : \A y \in A : <<y, x>> \notin Less
    BY <1>1, WFMin
  <1>3. \A y \in A : ~(y < x)
    BY <1>2 DEF Less
  <1>4. QED
    BY <1>3

\* The ids that a call has got, and those that it reports, are of sources that are shown.
Knows(c, s) ==
    /\ c.at \in {"record", "upload", "wait"} \/ c.result = "added" => c.ids \subseteq Seen(s)
    /\ c.result = "added" => c.at = "idle"

\* Steps of a pipeline after the first: the source is among those of the artifact.
Feeds(p, r, s) ==
    /\ p.stage = "begin" => p.added = {}
    /\ p.stage = "making" =>
         /\ p.added \subseteq Seen(s)
         /\ r.at \in {"idle", "resolve", "create"}
         /\ r.at = "resolve" => ~r.given /\ r.kind = "media" /\ r.result # "created"
         /\ r.at = "create" \/ r.result = "created" =>
              \A i \in p.added : i \in r.of \/ s[i].status = "gone"

Knowing == \A t \in Threads : Knows(adding[t], notebook)

Feeding ==
    /\ pipeline = [t \in Threads |-> pipeline[t]]
    /\ \A t \in Threads : /\ {"stage", "left", "added"} \subseteq DOMAIN pipeline[t]
                          /\ Feeds(pipeline[t], making[t], notebook)

LEMMA SeenGrows ==
    ASSUME NEW s, NEW z, NEW number, NEW names, Grows(s, z, number, names)
    PROVE  Seen(s) \subseteq Seen(z)
  BY DEF Grows, Seen

LEMMA KnowingGoes ==
    ASSUME Telling, Knowing, NEW number, NEW names, Grows(notebook, notebook', number, names),
           NEW t \in Threads, NEW c, S!Goes(t, c), Knows(c, notebook')
    PROVE  Knowing'
  <1>1. /\ adding'[t] = c /\ \A u \in Threads \ {t} : adding'[u] = adding[u]
    BY DEF Telling, S!Goes
  <1>2. \A u \in Threads : Knows(adding[u], notebook')
    BY SeenGrows DEF Knowing, Knows
  <1>3. QED
    BY <1>1, <1>2 DEF Knowing

LEMMA EndedKnows ==
    ASSUME NEW c, Adder(c), NEW result, NEW s, result = "added" => c.ids \subseteq Seen(s)
    PROVE  Knows(S!Ended(c, result), s)
  <1> DEFINE d == S!Ended(c, result)
  <1>1. d.at = S!Idle.at /\ d.ids = c.ids /\ d.result = result
    BY IdleIs DEF CallFields, S!Ended
  <1> HIDE DEF d
  <1>2. Knows(d, s)
    BY <1>1, IdleIs DEF Knows
  <1>3. QED
    BY <1>2 DEF d

LEMMA WithIdsKnows ==
    ASSUME NEW c, Adder(c), NEW s, c.ids \subseteq Seen(s), c.result # "added"
    PROVE  Knows(S!WithIds(c), s)
  <1> DEFINE d == [c EXCEPT !.at = "wait"]
  <1>1. d.at = "wait" /\ d.ids = c.ids /\ d.result = c.result
    BY DEF Adder, CallFields
  <1> HIDE DEF d
  <1>2. Knows(d, s)
    BY <1>1 DEF Knows
  <1>3. S!WithIds(c) = d \/ \E result : S!WithIds(c) = S!Ended(c, result)
    BY DEF S!WithIds, d
  <1>4. QED
    BY <1>2, <1>3, EndedKnows

\* A call that neither has got ids nor reports any.
LEMMA EmptyKnows ==
    ASSUME NEW c, NEW s, c.at \notin {"record", "upload", "wait"}, c.result # "added"
    PROVE  Knows(c, s)
  BY DEF Knows

LEMMA AddGrows ==
    ASSUME Telling, NEW t \in Threads, S!AddStep(t)
    PROVE  \E names : Grows(notebook, notebook', adding[t].number, names)
  <1> DEFINE c == adding[t]
  <1>1. Adder(c) /\ Sources(notebook)
    BY DEF Telling
  <1>2. CASE S!PostAnswered(t) \/ S!PostAmbiguous(t) \/ S!PostLost(t) \/ S!PostReplayed(t)
    <2>1. c.at = "post" /\ \E names \in SUBSET c.names : \E status : S!Put(names, c.number, status)
      BY <1>2 DEF S!PostAnswered, S!PostAmbiguous, S!PostLost, S!PostReplayed, S!Unanswered
    <2>2. QED
      BY <2>1, Posted
  <1>3. CASE notebook' = notebook
    BY <1>1, <1>3, StaysGrows
  <1>4. CASE S!Upload(t)
    BY <1>1, <1>4, ChangesGrows DEF S!Upload
  <1>5. CASE notebook' = S!Without(c.ids)
    BY <1>1, <1>5, ChangesGrows DEF S!Without
  <1>6. QED
    BY <1>2, <1>3, <1>4, <1>5
       DEF S!AddStep, S!Choose, S!Match, S!NoMatch, S!PollFails, S!Record, S!UploadFails, S!Ready,
           S!ProcessingFailed, S!WaitTimesOut, S!Delete, S!DeletionFails, S!Stays

LEMMA KnowingAnswered ==
    ASSUME Telling, Knowing, NEW t \in Threads, S!PostAnswered(t)
    PROVE  Knowing'
  <1> DEFINE c == adding[t]
  <1>1. Adder(c) /\ c.at = "post" /\ c.result # "added"
    BY DEF Telling, Knowing, Knows, S!PostAnswered
  <1>2. PICK names \in SUBSET c.names, read \in BOOLEAN :
           /\ S!Put(names, c.number, IF c.kind = "file" THEN "empty" ELSE "processing")
           /\ LET r == [c EXCEPT !.ids = IF read THEN S!NewIds(names) ELSE {}]
              IN S!Goes(t, CASE r.first                        -> [r EXCEPT !.at = "record"]
                             [] r.kind = "file" /\ r.ids # {} -> [r EXCEPT !.at = "upload"]
                             [] OTHER                          -> S!WithIds(r))
    BY DEF S!PostAnswered
  <1> DEFINE status == IF c.kind = "file" THEN "empty" ELSE "processing"
  <1>3. status # "hidden" /\ S!Put(names, c.number, status) /\ names \in SUBSET Names
    BY <1>1, <1>2 DEF Adder
  <1> HIDE DEF status
  <1>4. /\ Grows(notebook, notebook', c.number, names)
        /\ \A i \in S!NewIds(names) : i \in DOMAIN notebook' /\ notebook'[i].status = status
    BY <1>3, PutGrows DEF Telling
  <1> DEFINE ids == IF read THEN S!NewIds(names) ELSE {}
             r == [c EXCEPT !.ids = ids]
  <1>5. ids \subseteq Seen(notebook')
    BY <1>3, <1>4 DEF Seen
  <1>6. /\ S!Goes(t, [r EXCEPT !.at = "record"]) \/ S!Goes(t, [r EXCEPT !.at = "upload"])
            \/ S!Goes(t, S!WithIds(r))
    BY <1>2
  <1> HIDE DEF ids
  <1>7. Adder(r) /\ r.ids = ids /\ r.result # "added"
    BY <1>1 DEF Adder, CallFields
  <1> HIDE DEF r
  <1>8. \A place \in {"record", "upload"} : Knows([r EXCEPT !.at = place], notebook')
    <2>1. SUFFICES ASSUME NEW place \in {"record", "upload"}
                   PROVE  Knows([r EXCEPT !.at = place], notebook')
      OBVIOUS
    <2> DEFINE d == [r EXCEPT !.at = place]
    <2>2. d.at = place /\ d.ids = ids /\ d.result = r.result
      BY <1>7 DEF Adder, CallFields
    <2> HIDE DEF d
    <2>3. Knows(d, notebook')
      BY <1>5, <1>7, <2>2 DEF Knows
    <2>4. QED
      BY <2>3 DEF d
  <1>9. Knows(S!WithIds(r), notebook')
    BY <1>5, <1>7, WithIdsKnows
  <1>10. QED
    BY <1>4, <1>6, <1>8, <1>9, KnowingGoes

LEMMA KnowingSteps ==
    ASSUME Telling, Knowing, NEW t \in Threads, S!AddStep(t)
    PROVE  Knowing'
  <1> DEFINE c == adding[t]
  <1>1. Adder(c) /\ Sources(notebook) /\ Knows(c, notebook)
    BY DEF Telling, Knowing
  <1>2. PICK names : Grows(notebook, notebook', c.number, names)
    BY AddGrows
  <1>3. c.at # "idle"
    BY DEF S!AddStep, S!Choose, S!PostReplayed, S!PostAnswered, S!PostAmbiguous, S!PostLost, S!Match, S!NoMatch,
           S!PollFails, S!Record, S!Upload, S!UploadFails, S!Ready, S!ProcessingFailed,
           S!WaitTimesOut, S!Delete, S!DeletionFails
  <1>4. c.result # "added"
    BY <1>1, <1>3 DEF Knows
  <1>5. Seen(notebook) \subseteq Seen(notebook')
    BY <1>2, SeenGrows
  <1>6. SUFFICES ASSUME ~S!PostAnswered(t)
                 PROVE  \E d : S!Goes(t, d) /\ Knows(d, notebook')
    BY <1>2, KnowingGoes, KnowingAnswered
  <1>7. \A result : Knows(S!Ended(c, result), notebook') \/ result = "added"
    BY <1>1, EndedKnows
  <1>8. CASE S!PostLost(t) \/ S!UploadFails(t) \/ S!ProcessingFailed(t) \/ S!WaitTimesOut(t)
             \/ S!Delete(t) \/ S!DeletionFails(t)
    BY <1>7, <1>8 DEF S!PostLost, S!UploadFails, S!ProcessingFailed, S!WaitTimesOut, S!Delete,
                      S!DeletionFails
  <1>9. CASE S!Choose(t)
    <2> DEFINE d == [c EXCEPT !.at = "post", !.first = (recorded = "none"),
                              !.via = IF recorded = "none" THEN "v1" ELSE recorded]
    <2>1. S!Goes(t, d)
      BY <1>9 DEF S!Choose
    <2>2. d.at = "post" /\ d.result = c.result
      BY <1>1 DEF Adder, CallFields
    <2> HIDE DEF d
    <2>3. QED
      BY <1>4, <2>1, <2>2, EmptyKnows
  <1>10. CASE S!PostAmbiguous(t)
    <2>1. PICK code \in {3, 9} : S!Goes(t, S!Ambiguous(c, code))
      BY <1>10 DEF S!PostAmbiguous
    <2> DEFINE d1 == S!NewRequest([c EXCEPT !.again = FALSE])
               d2 == [c EXCEPT !.at = "reconcile"]
               d3 == S!NewRequest([c EXCEPT !.via = "v2"])
    <2>2. /\ d1.at = "post" /\ d1.result = c.result /\ d2.at = "reconcile" /\ d2.result = c.result
          /\ d3.at = "post" /\ d3.result = c.result
      BY <1>1 DEF Adder, CallFields, S!NewRequest
    <2>3. S!Ambiguous(c, code) \in {d1, d2, d3, S!Ended(c, "failed")}
      BY DEF S!Ambiguous
    <2> HIDE DEF d1, d2, d3
    <2>4. c.at = "post"
      BY <1>10 DEF S!PostAmbiguous
    <2>5. Knows(d1, notebook') /\ Knows(d2, notebook') /\ Knows(d3, notebook')
      BY <1>4, <2>2, <2>4, EmptyKnows
    <2>6. QED
      BY <1>7, <2>1, <2>3, <2>5
  <1>11. CASE S!Match(t)
    <2> DEFINE found == {i \in S!Listed : notebook[i].name \in c.names}
               id == CHOOSE i \in found : \A j \in found : i <= j
               d == [c EXCEPT !.ids = {id}, !.found = TRUE]
               e == [d EXCEPT !.at = "record"]
    <2>1. found # {} /\ (S!Goes(t, e) \/ S!Goes(t, S!Ended(d, "added")))
      BY <1>11 DEF S!Match
    <2>2. found \in SUBSET Nat /\ found \subseteq Seen(notebook)
      BY <1>1 DEF Sources, S!Listed, Seen
    <2>3. id \in found
      <3> HIDE DEF found
      <3>1. \E i \in found : \A j \in found : i <= j
        BY <2>1, <2>2, Smallest
      <3>2. QED
        BY <3>1
    <2>4. {id} \subseteq Seen(notebook')
      BY <1>5, <2>2, <2>3
    <2> HIDE DEF found, id
    <2>5. Adder(d) /\ d.ids = {id} /\ d.result = c.result
      BY <1>1 DEF Adder, CallFields
    <2>6. e.at = "record" /\ e.ids = {id} /\ e.result = c.result
      BY <1>1 DEF Adder, CallFields
    <2> HIDE DEF d, e
    <2>7. Knows(e, notebook') /\ Knows(S!Ended(d, "added"), notebook')
      BY <1>4, <2>4, <2>5, <2>6, EndedKnows DEF Knows
    <2>8. QED
      BY <2>1, <2>7 DEF e
  <1>12. CASE S!NoMatch(t) \/ S!PollFails(t)
    <2>1. PICK b : /\ b = c \/ b = [c EXCEPT !.looked = S!Of(c) \subseteq S!Listed]
                   /\ S!Goes(t, S!Polled(b))
      BY <1>12 DEF S!NoMatch, S!PollFails
    <2>2. Adder(b) /\ b.at = c.at /\ b.result = c.result
      BY <1>1, <2>1 DEF Adder, CallFields
    <2>3. c.at = "reconcile"
      BY <1>12 DEF S!NoMatch, S!PollFails
    <2> DEFINE d1 == [b EXCEPT !.polls = @ + 1]
               d2 == S!NewRequest([d1 EXCEPT !.via = "v2"])
    <2>4. Adder(d1) /\ d1.at = "reconcile" /\ d1.result = c.result
      BY <2>2, <2>3 DEF Adder, CallFields
    <2>5. S!Polled(b) \in {d1, d2, S!Ended(d1, "failed")}
      BY DEF S!Polled
    <2> HIDE DEF d1
    <2>6. d2.at = "post" /\ d2.result = c.result
      BY <2>4 DEF Adder, CallFields, S!NewRequest
    <2> HIDE DEF d2
    <2>7. Knows(d1, notebook') /\ Knows(d2, notebook') /\ Knows(S!Ended(d1, "failed"), notebook')
      BY <1>4, <2>4, <2>6, EmptyKnows, EndedKnows
    <2>8. QED
      BY <2>1, <2>5, <2>7
  <1>13. CASE S!Record(t) \/ S!Upload(t) \/ S!Ready(t)
    <2>1. S!Goes(t, S!Ended(c, "added")) \/ S!Goes(t, S!WithIds(c))
      BY <1>13 DEF S!Record, S!Upload, S!Ready
    <2>2. c.ids \subseteq Seen(notebook')
      BY <1>1, <1>5, <1>13 DEF Knows, S!Record, S!Upload, S!Ready
    <2>3. QED
      BY <1>1, <1>4, <2>1, <2>2, EndedKnows, WithIdsKnows
  <1>14. CASE S!PostReplayed(t)
    <2> DEFINE d == [c EXCEPT !.retries = @ + 1, !.replays = @ + 1]
    <2>1. S!Goes(t, d) /\ c.at = "post"
      BY <1>14 DEF S!PostReplayed
    <2>2. d.at = c.at /\ d.result = c.result
      BY <1>1 DEF Adder, CallFields
    <2> HIDE DEF d
    <2>3. QED
      BY <1>4, <2>1, <2>2, EmptyKnows
  <1>15. QED
    BY <1>6, <1>8, <1>9, <1>10, <1>11, <1>12, <1>13, <1>14 DEF S!AddStep

\* No step makes a source another one, hides it again or brings it back.
LEMMA NextGrows ==
    ASSUME Telling, [Next]_vars
    PROVE  \E number, names : Grows(notebook, notebook', number, names)
  <1>1. CASE UNCHANGED notebook
    BY <1>1, StaysGrows DEF Telling
  <1>2. ASSUME NEW t \in Threads,
               S!StartsAdding(t)
               \/ \E n \in Names, kind \in {"url", "text"} : S!Add(t, kind, {n}, FALSE)
        PROVE  UNCHANGED notebook
    BY <1>2 DEF S!StartsAdding, S!Add, S!StartDeletion
  <1>3. QED
    BY <1>1, <1>2, SourceSteps, ServiceGrows, AddGrows, ImportsGrows DEF vars

LEMMA KnowingStarts ==
    ASSUME Telling, Knowing, NEW t \in Threads,
           (\E kind, names, wait : S!Add(t, kind, names, wait)) \/ (\E ids : S!StartDeletion(t, ids))
    PROVE  Knowing'
  <1>1. UNCHANGED notebook
    BY DEF S!Add, S!StartDeletion
  <1>2. S!Idle.result = "none" /\ CallFields \subseteq DOMAIN S!Idle
    BY DEF S!Idle, CallFields
  <1>3. ASSUME NEW kind, NEW names, NEW wait, S!Add(t, kind, names, wait)
        PROVE  \E d : S!Goes(t, d) /\ d.at \in {"choose", "post", "delete"} /\ d.result = "none"
    <2>1. PICK again :
            S!Goes(t, [S!Idle EXCEPT !.at = IF kind \in {"url", "batch"} THEN "choose" ELSE "post",
                                     !.kind = kind, !.names = names, !.wait = wait,
                                     !.number = adds + 1, !.again = again])
      BY <1>3 DEF S!Add
    <2> DEFINE d == [S!Idle EXCEPT !.at = IF kind \in {"url", "batch"} THEN "choose" ELSE "post",
                                   !.kind = kind, !.names = names, !.wait = wait,
                                   !.number = adds + 1, !.again = again]
    <2>2. S!Goes(t, d)
      BY <2>1
    <2>3. d.at \in {"choose", "post"} /\ d.result = "none"
      BY <1>2 DEF CallFields
    <2> HIDE DEF d
    <2>4. QED
      BY <2>2, <2>3
  <1>4. ASSUME NEW ids, S!StartDeletion(t, ids)
        PROVE  \E d : S!Goes(t, d) /\ d.at \in {"choose", "post", "delete"} /\ d.result = "none"
    <2> DEFINE d == [S!Idle EXCEPT !.at = "delete", !.number = adds + 1, !.ids = ids]
    <2>1. S!Goes(t, d)
      BY <1>4 DEF S!StartDeletion
    <2>2. d.at = "delete" /\ d.result = "none"
      BY <1>2 DEF CallFields
    <2> HIDE DEF d
    <2>3. QED
      BY <2>1, <2>2
  <1>5. PICK d : S!Goes(t, d) /\ d.at \in {"choose", "post", "delete"} /\ d.result = "none"
    BY <1>3, <1>4
  <1>6. Knows(d, notebook')
    BY <1>5, EmptyKnows
  <1>7. Grows(notebook, notebook', 0, {})
    BY <1>1, StaysGrows DEF Telling
  <1>8. QED
    BY <1>5, <1>6, <1>7, KnowingGoes

LEMMA KnowingNext ==
    ASSUME Telling, Knowing, [Next]_vars
    PROVE  Knowing'
  <1>1. CASE UNCHANGED adding
    BY <1>1, NextGrows, SeenGrows DEF Knowing, Knows
  <1>2. ASSUME NEW t \in Threads, S!StartsAdding(t)
        PROVE  Knowing'
    BY <1>2, KnowingStarts DEF S!StartsAdding
  <1>3. QED
    BY <1>1, <1>2, SourceSteps, ServiceGrows, KnowingSteps, KnowingStarts DEF vars, addingVars

LEMMA FeedsGrows ==
    ASSUME NEW p, NEW r, NEW s, NEW z, NEW number, NEW names, Grows(s, z, number, names),
           Feeds(p, r, s)
    PROVE  Feeds(p, r, z)
  <1>1. Seen(s) \subseteq Seen(z)
    BY SeenGrows
  <1>2. ASSUME p.stage = "making", NEW i \in p.added, s[i].status = "gone"
        PROVE  z[i].status = "gone"
    <2>1. i \in DOMAIN s
      BY <1>2 DEF Feeds, Seen
    <2>2. QED
      BY <1>2, <2>1 DEF Grows
  <1>3. QED
    BY <1>1, <1>2 DEF Feeds

Parts(p) == {"stage", "left", "added"} \subseteq DOMAIN p

\* A step that is one of thread t, if it is one of a pipeline or makes an artifact.
LEMMA FeedingGoes ==
    ASSUME Feeding, NEW number, NEW names, Grows(notebook, notebook', number, names),
           NEW t \in Threads, pipeline' = [u \in Threads |-> pipeline'[u]],
           \A u \in Threads \ {t} : pipeline'[u] = pipeline[u] /\ making'[u] = making[u],
           Parts(pipeline'[t]), Feeds(pipeline'[t], making'[t], notebook')
    PROVE  Feeding'
  <1>1. \A u \in Threads : Feeds(pipeline[u], making[u], notebook')
    BY FeedsGrows DEF Feeding
  <1>2. QED
    BY <1>1 DEF Feeding, Parts

LEMMA FeedingStays ==
    ASSUME Feeding, NEW number, NEW names, Grows(notebook, notebook', number, names),
           UNCHANGED <<pipeline, making>>
    PROVE  Feeding'
  BY FeedsGrows DEF Feeding

LEMMA NotFeeding ==
    ASSUME NEW p, NEW r, NEW s, p.stage \notin {"begin", "making"}
    PROVE  Feeds(p, r, s)
  BY DEF Feeds

\* A studio call by itself is not one of a pipeline.
LEMMA FeedingCalls ==
    ASSUME Telling, Records, Feeding, NEW t \in Threads, Free(t), Makes(M!StartsStudio(t))
    PROVE  Feeding'
  <1>1. UNCHANGED <<notebook, pipeline>>
    BY DEF Makes, M!StartsStudio, M!Calls, M!StartDelete, M!StartRevise
  <1>2. PICK r : M!Goes(t, r)
    BY DEF Makes, M!StartsStudio, M!Create, M!StartDelete, M!StartRevise
  <1>3. \A u \in Threads \ {t} : making'[u] = making[u]
    BY <1>2 DEF M!Goes, Records
  <1>4. Grows(notebook, notebook', 0, {})
    BY <1>1, StaysGrows DEF Telling
  <1>5. Feeds(pipeline[t], making'[t], notebook')
    BY NotFeeding DEF Free
  <1>6. QED
    BY <1>1, <1>3, <1>4, <1>5, FeedingGoes DEF Feeding, Parts

\* The studio step of a pipeline: at the sources, it takes all that are listed.
LEMMA FeedingSteps ==
    ASSUME Telling, Records, Feeding, NEW t \in Threads, Makes(M!StudioStep(t))
    PROVE  Feeding'
  <1> DEFINE p == pipeline[t]
             r == making[t]
  <1>1. UNCHANGED pipeline /\ M!StudioStep(t)
    BY DEF Makes
  <1>0. CASE M!MakeReplayed(t)
    <2>1. UNCHANGED <<notebook, making>>
      BY <1>0 DEF M!MakeReplayed
    <2>2. Grows(notebook, notebook', 0, {})
      BY <2>1, StaysGrows DEF Telling
    <2>3. QED
      BY <1>1, <2>1, <2>2, FeedingStays
  <1>2. UNCHANGED notebook
    BY <1>1 DEF M!StudioStep, M!MakeReplayed, M!Resolve, M!ResolveFails, M!Created,
         M!CreateRejected, M!CreateLost, M!Generate, M!Save, M!Revise, M!Delete, M!DeleteFails,
         M!ListMaps, M!Unmap, M!Untime, M!MapDeletionFails, M!Stays
  <1>3. Grows(notebook, notebook', 0, {})
    BY <1>2, StaysGrows DEF Telling
  <1>. SUFFICES ASSUME ~M!MakeReplayed(t) PROVE Feeding'
    BY <1>0
  <1>4. PICK q : M!Goes(t, q)
    BY <1>1 DEF M!StudioStep, M!Resolve, M!ResolveFails, M!Created, M!Ends, M!Reports,
         M!CreateRejected, M!CreateLost, M!Generate, M!Save, M!Revise, M!Delete, M!DeleteFails,
         M!ListMaps, M!Unmap, M!Untime, M!MapDeletionFails
  <1>5. \A u \in Threads \ {t} : making'[u] = making[u]
    BY <1>4 DEF M!Goes, Records
  <1>6. SUFFICES Feeds(p, making'[t], notebook)
    BY <1>1, <1>2, <1>3, <1>5, FeedingGoes DEF Feeding, Parts
  <1>7. Feeds(p, r, notebook) /\ Record(r) /\ making = [u \in Threads |-> making[u]]
    BY DEF Feeding, Records
  <1>8. SUFFICES ASSUME p.stage = "making" PROVE Feeds(p, making'[t], notebook)
    BY <1>7 DEF Feeds
  <1>9. Feeds(p, M!NotMaking, notebook)
    BY <1>7, <1>8, NotMakingIs DEF Feeds
  <1>10. CASE M!Ends(t)
    BY <1>7, <1>9, <1>10 DEF M!Ends, M!Goes
  <1>11. CASE M!Resolve(t) /\ ~M!Ends(t)
    <2>1. ~r.given /\ r.kind = "media" /\ r.at = "resolve" /\ r.result # "created"
      BY <1>7, <1>8, <1>11 DEF Feeds, M!Resolve, M!At
    <2> DEFINE d == [r EXCEPT !.of = M!AllSources, !.at = "create"]
    <2>2. M!Goes(t, d)
      BY <1>11, <2>1 DEF M!Resolve
    <2>3. d.of = M!AllSources /\ d.at = "create" /\ d.result = r.result
      BY <1>7 DEF Record
    <2> HIDE DEF d
    <2>4. making'[t] = d
      BY <1>7, <2>2 DEF M!Goes
    <2>5. \A i \in p.added : i \in M!AllSources \/ notebook[i].status = "gone"
      BY <1>7, <1>8 DEF Feeds, Seen, M!AllSources, M!Listed
    <2>6. QED
      BY <1>7, <1>8, <2>3, <2>4, <2>5 DEF Feeds
  <1>12. CASE M!Created(t)
    <2>1. r.at = "create"
      BY <1>12 DEF M!Created, M!At
    <2> DEFINE id == Len(artifacts) + 1
               b == [r EXCEPT !.id = id]
               d == [M!NotMaking EXCEPT !.kind = b.kind, !.of = b.of, !.id = b.id,
                                        !.result = "created"]
    <2>2. M!Goes(t, d)
      BY <1>12 DEF M!Created, M!Reports
    <2>3. b.of = r.of
      BY <1>7 DEF Record
    <2> HIDE DEF b
    <2>4. d.of = r.of /\ d.at = "idle"
      BY <2>3, NotMakingIs DEF Record
    <2> HIDE DEF d
    <2>5. making'[t] = d
      BY <1>7, <2>2 DEF M!Goes
    <2>6. QED
      BY <1>7, <1>8, <2>1, <2>4, <2>5 DEF Feeds
  <1>13. r.at \in {"idle", "resolve", "create"}
    BY <1>7, <1>8 DEF Feeds
  <1>14. QED
    BY <1>1, <1>10, <1>11, <1>12, <1>13
       DEF M!StudioStep, M!ResolveFails, M!CreateRejected, M!CreateLost, M!Generate, M!Save,
           M!Revise, M!Delete, M!DeleteFails, M!ListMaps, M!Unmap, M!Untime, M!MapDeletionFails,
           M!At

\* A pipeline begins or ends.
LEMMA FeedingTurns ==
    ASSUME Telling, Feeding, NEW t \in Threads,
           StartsPipeline(t) \/ StartsMultiFormat(t) \/ PipelineEnds(t)
    PROVE  Feeding'
  <1>1. UNCHANGED <<notebook, making>>
    BY DEF StartsPipeline, StartsMultiFormat, PipelineEnds, S!Add, studioVars
  <1>2. PICK p : /\ pipeline' = [pipeline EXCEPT ![t] = p] /\ Parts(p)
                 /\ p.stage \in {"none", "adding", "begin"} /\ p.added = {}
    <2> DEFINE OneOf(p) == Parts(p) /\ p.stage \in {"none", "adding", "begin"} /\ p.added = {}
    <2>1. /\ OneOf([stage |-> "adding", left |-> 1, added |-> {}])
          /\ OneOf([stage |-> "begin", left |-> MaxCreates, added |-> {}])
          /\ OneOf(NoPipeline)
      BY DEF NoPipeline, Parts
    <2> HIDE DEF OneOf
    <2>2. \E p : pipeline' = [pipeline EXCEPT ![t] = p] /\ OneOf(p)
      BY <2>1 DEF StartsPipeline, StartsMultiFormat, PipelineEnds
    <2>3. QED
      BY <2>2 DEF OneOf
  <1>3. /\ pipeline' = [u \in Threads |-> pipeline'[u]] /\ pipeline'[t] = p
        /\ \A u \in Threads \ {t} : pipeline'[u] = pipeline[u]
    BY <1>2 DEF Feeding
  <1>4. Grows(notebook, notebook', 0, {})
    BY <1>1, StaysGrows DEF Telling
  <1>5. Feeds(p, making'[t], notebook')
    BY <1>2 DEF Feeds
  <1>6. QED
    BY <1>1, <1>2, <1>3, <1>4, <1>5, FeedingGoes

\* The next step takes what the first one has reported.
LEMMA FeedingNext ==
    ASSUME Telling, Records, Knowing, Feeding, NEW t \in Threads, NextStep(t)
    PROVE  Feeding'
  <1> DEFINE p == pipeline[t]
             added == IF p.stage = "adding" THEN adding[t].ids ELSE p.added
             q == [stage |-> "making", left |-> p.left - 1, added |-> added]
             r == [M!NotMaking EXCEPT !.at = "resolve", !.kind = "media", !.given = ({} # {}),
                                      !.of = {}]
  <1>1. /\ UNCHANGED notebook /\ M!Goes(t, r) /\ WentWell(t)
        /\ pipeline' = [pipeline EXCEPT ![t] = q]
    BY DEF NextStep, M!Create
  <1>2. Feeds(p, making[t], notebook) /\ Knows(adding[t], notebook)
    BY DEF Feeding, Knowing
  <1>3. p.stage \in {"begin", "adding", "making"}
    BY <1>1 DEF WentWell
  <1>4. p.stage = "adding" => adding[t].result = "added"
    BY <1>1 DEF WentWell
  <1>5. added \subseteq Seen(notebook)
    BY <1>2, <1>3, <1>4 DEF Feeds, Knows
  <1>6. r.at = "resolve" /\ ~r.given /\ r.kind = "media" /\ r.result = "none"
    BY NotMakingIs DEF Record
  <1> HIDE DEF r, added
  <1>7. Parts(q) /\ Feeds(q, r, notebook)
    BY <1>5, <1>6 DEF Parts, Feeds
  <1> HIDE DEF q
  <1>8. /\ pipeline' = [u \in Threads |-> pipeline'[u]] /\ pipeline'[t] = q
        /\ \A u \in Threads \ {t} : pipeline'[u] = pipeline[u]
    BY <1>1 DEF Feeding
  <1>9. making'[t] = r /\ \A u \in Threads \ {t} : making'[u] = making[u]
    BY <1>1 DEF M!Goes, Records
  <1>10. Grows(notebook, notebook', 0, {})
    BY <1>1, StaysGrows DEF Telling
  <1>11. QED
    BY <1>1, <1>7, <1>8, <1>9, <1>10, FeedingGoes

LEMMA FeedingAll ==
    ASSUME Telling, Records, Knowing, Feeding, [Next]_vars
    PROVE  Feeding'
  <1>1. CASE UNCHANGED <<pipeline, making>>
    BY <1>1, NextGrows, FeedingStays
  <1>2. ASSUME NEW t \in Threads, Call(t)
        PROVE  (UNCHANGED <<pipeline, making>>) \/ (Free(t) /\ Makes(M!StartsStudio(t)))
    BY <1>2 DEF Call, Adds, Researches, Elaborates, studioVars
  <1>3. ASSUME NEW t \in Threads, Step(t)
        PROVE  UNCHANGED <<pipeline, making>> \/ Makes(M!StudioStep(t))
    BY <1>3 DEF Step, Adds, Researches, Elaborates, studioVars
  <1>4. ASSUME Service
        PROVE  UNCHANGED <<pipeline, making>>
    BY <1>4 DEF Service, Adds, Researches, Elaborates, Makes, studioVars, M!Generated
  <1>5. QED
    BY <1>1, <1>2, <1>3, <1>4, FeedingCalls, FeedingSteps, FeedingTurns, FeedingNext
       DEF Next, vars, studioVars

\* For any number of threads and steps, and whatever the other calls add and delete: the
\* source that a pipeline has added is one of those that its artifact is made of.
THEOREM PipelineTakesIts == Spec => []PipelineUsesSource
  <1>1. Init => Knowing /\ Feeding
    <2>1. SUFFICES ASSUME Init PROVE Knowing /\ Feeding
      OBVIOUS
    <2>2. \A t \in Threads : adding[t] = S!Idle /\ pipeline[t] = NoPipeline
      BY <2>1 DEF Init, S!SourcesInit
    <2>3. pipeline = [t \in Threads |-> pipeline[t]]
      BY <2>1 DEF Init
    <2>4. S!Idle.at = "idle" /\ S!Idle.result = "none"
      BY DEF S!Idle
    <2>5. Knowing
      BY <2>2, <2>4, EmptyKnows DEF Knowing
    <2>6. Feeding
      BY <2>2, <2>3 DEF Feeding, Feeds, NoPipeline
    <2>7. QED
      BY <2>5, <2>6
  <1>2. Telling /\ Records /\ Knowing /\ Feeding /\ [Next]_vars => (Knowing /\ Feeding)'
    BY KnowingNext, FeedingAll
  <1>3. Feeding => PipelineUsesSource
    BY DEF Feeding, Feeds, PipelineUsesSource
  <1>4. QED
    BY <1>1, <1>2, <1>3, TellingAlways, RecordsAlways, PTL DEF Spec
=============================================================================
