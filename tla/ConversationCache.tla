------------------------- MODULE ConversationCache -------------------------
(***************************************************************************)
(* core/conversation.py: the cache of past turns that a client keeps for   *)
(* follow-up questions, an OrderedDict bounded in conversations (least     *)
(* recently used out first) and in turns per conversation (oldest out      *)
(* first).  Every operator is one critical section under _state_lock.      *)
(*                                                                         *)
(* A turn is the conversation in which the service said it answered; texts *)
(* and their truncation are left out.  A conversation has a cache entry if *)
(* and only if it has turns: the code never leaves an empty list behind.   *)
(***************************************************************************)
EXTENDS Integers, SequencesExt

CONSTANTS
    Conversations,      \* the conversation ids, local and the service's
    MaxConversations,   \* NOTEBOOKLM_CONVERSATION_MAX_CONVS, 0 for no limit
    MaxTurns            \* NOTEBOOKLM_CONVERSATION_MAX_TURNS, 0 for no limit

ASSUME CapsAssumption == MaxConversations \in Nat /\ MaxTurns \in Nat

VARIABLES
    order,      \* the keys of the OrderedDict, least recently used first
    turns       \* its values, <<>> for a conversation that is not cached

cacheVars == <<order, turns>>

CacheTypeOK ==
    /\ order \in Seq(Conversations)
    /\ turns \in [Conversations -> Seq(Conversations)]

CacheInit ==
    /\ order = <<>>
    /\ turns = [c \in Conversations |-> <<>>]

Cached(c) == turns[c] # <<>>

-----------------------------------------------------------------------------
\* A list of keys without c; the order with c as the most recently used.
Without(keys, c) ==
    IF Contains(keys, c)
    THEN RemoveAt(keys, CHOOSE i \in 1..Len(keys) : keys[i] = c) ELSE keys
Newest(c) == Append(Without(order, c), c)

\* The last MaxTurns of a list of turns.
Trimmed(list) ==
    IF MaxTurns > 0 /\ Len(list) > MaxTurns
    THEN SubSeq(list, Len(list) - MaxTurns + 1, Len(list)) ELSE list

\* The conversation that has to go before c comes in: a new key in a full cache.
Evicted(c) ==
    IF ~Cached(c) /\ MaxConversations > 0 /\ Len(order) >= MaxConversations
    THEN {order[1]} ELSE {}

\* _build_conversation_history, get_conversation_history: c becomes the newest.
Touch(c) ==
    /\ order' = IF Cached(c) THEN Newest(c) ELSE order
    /\ UNCHANGED turns

\* _cache_conversation_turn
CacheTurn(c, turn) ==
    /\ order' = IF Evicted(c) = {} THEN Newest(c) ELSE Append(Tail(order), c)
    /\ turns' = [d \in Conversations |->
                   IF d = c THEN Trimmed(Append(turns[c], turn))
                   ELSE IF d \in Evicted(c) THEN <<>> ELSE turns[d]]

\* The service answered a request for `from` under the id `to`: the entry is moved
\* to the new key (over an entry that was there), which becomes the newest.
Migrate(from, to) ==
    /\ order' = IF Cached(from) THEN Append(Without(Without(order, from), to), to) ELSE Newest(to)
    /\ turns' = IF Cached(from) THEN [turns EXCEPT ![to] = turns[from], ![from] = <<>>] ELSE turns

\* clear_conversation, delete_chat_history
Forget(c) ==
    /\ order' = Without(order, c)
    /\ turns' = [turns EXCEPT ![c] = <<>>]

-----------------------------------------------------------------------------
\* The two views of the OrderedDict agree.
Keyed ==
    /\ \A i, j \in 1..Len(order) : order[i] = order[j] => i = j
    /\ \A c \in Conversations : Cached(c) <=> \E i \in 1..Len(order) : order[i] = c

\* However turns, look-ups, renames and deletions of several threads interleave, the
\* cache of a long-lived server stays within both caps, and its order names each
\* cached conversation once (the promise of _cache_conversation_turn, issue #213).
CacheBounded ==
    /\ Keyed
    /\ MaxConversations > 0 => Len(order) <= MaxConversations
    /\ MaxTurns > 0 => \A c \in Conversations : Len(turns[c]) <= MaxTurns
=============================================================================
