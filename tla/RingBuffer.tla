---------------------------- MODULE RingBuffer ----------------------------
(* The compact replay buffer of buffer/ring.py. A row holds a record without *)
(* its move history: it refers to a game slot, which keeps one history for   *)
(* all rows of a game, and remembers how long its own prefix of it is. A     *)
(* slot is freed with its last row. Slots count from 1 and 0 stands for -1;  *)
(* the key of a game without slots is an empty list. A policy target is a    *)
(* list of positive parts of a whole; policy is the one on the square,       *)
(* policyV2 the one on the board, and missing is in parts of its whole.      *)
EXTENDS Integers, FiniteSets, Sequences, SequencesExt, FiniteSetsExt

CONSTANTS
    Capacity,      \* rows of the buffer
    Width,         \* entries of a policy target that are kept
    GameIds,       \* ids of games
    OfferedRecords        \* position records appended to it

ASSUME CapacityOK == Capacity \in Nat \ {0}
ASSUME WidthOK == Width \in Nat \ {0}
ASSUME OfferedOK ==
    \A rec \in OfferedRecords :
       /\ rec.game \in GameIds /\ rec.player \in {0, 1} /\ rec.outcome \in Int
       /\ rec.history \in Seq(ToSet(rec.history))
       /\ \A p \in {rec.policy, rec.policyV2} : p.parts \in Seq(Nat \ {0}) /\ p.of \in Nat \ {0}
       /\ rec.missing \in Nat

Row == 0 .. Capacity - 1

(* What __init__ and clear() leave behind. *)
EmptyRing ==
    [slot |-> [i \in Row |-> 0], plies |-> [i \in Row |-> 0], data |-> [i \in Row |-> <<>>],
     hist |-> <<>>, refs |-> <<>>, owner |-> <<>>, byId |-> [id \in GameIds |-> <<>>],
     free |-> <<>>, head |-> 0, tail |-> 0, size |-> 0, newest |-> 0]

------------------------------------------------------------------------------
(* Storing. *)

Mass(parts) == FoldLeft(LAMBDA a, b : a + b, 0, parts)

(* The entries of a policy that there is room for. *)
CutPolicy(policy) == [policy EXCEPT !.parts = SubSeq(@, 1, Min({Width, Len(@)}))]

(* The outcome is stored from the mover's side. *)
Sided(player, value) == IF player = 0 THEN value ELSE -value

(* What _write_policy, _write_aux_targets and _write_v2_targets keep: the    *)
(* first entries of each policy, and what was cut off of the second one as   *)
(* missing mass. The targets and diagnostics that are copied as they are     *)
(* make up the rest.                                                         *)
Packed(rec) ==
    [game |-> rec.game, player |-> rec.player, rest |-> rec.rest,
     value |-> Sided(rec.player, rec.outcome),
     policy |-> CutPolicy(rec.policy), policyV2 |-> CutPolicy(rec.policyV2),
     missing |-> rec.missing + Mass(SubSeq(rec.policyV2.parts, Width + 1, Len(rec.policyV2.parts)))]

(* slots.remove(slot), where the slot is on the list. *)
DropFirst(seq, x) ==
    LET places == {k \in DOMAIN seq : seq[k] = x}
    IN  IF places = {} THEN seq ELSE RemoveAt(seq, Min(places))

(* Mutant: a slot without rows stays on its game's list. *)
ReleaseRowKeepingSlot(b, i) ==
    LET s == b.slot[i]
        loose == [b EXCEPT !.slot[i] = 0, !.plies[i] = 0]
    IN  IF s = 0 THEN loose ELSE [loose EXCEPT !.refs[s] = @ - 1]

(* _release_row: the row lets go of its slot; the last one frees it. *)
ReleaseRow(b, i) ==
    LET s == b.slot[i]
        loose == [b EXCEPT !.slot[i] = 0, !.plies[i] = 0]
    IN  IF s = 0 THEN loose
        ELSE IF b.refs[s] > 1 THEN [loose EXCEPT !.refs[s] = @ - 1]
        ELSE [loose EXCEPT !.refs[s] = 0, !.hist[s] = <<>>, !.free = Append(@, s),
                           !.byId[b.owner[s]] = DropFirst(@, s)]

SharesGame(g, h) == IsPrefix(g, h) \/ IsPrefix(h, g)

(* The places in the game's list of slots whose history agrees with h. *)
Sharing(b, id, h) ==
    {k \in DOMAIN b.byId[id] : SharesGame(b.hist[b.byId[id][k]], h)}

(* A slot of the game that agrees, else the slot freed last, else a new one. *)
SlotFor(b, id, h) ==
    IF Sharing(b, id, h) # {} THEN b.byId[id][Min(Sharing(b, id, h))]
    ELSE IF b.free # <<>> THEN Last(b.free)
    ELSE Len(b.hist) + 1

PutAt(seq, k, x) == IF k <= Len(seq) THEN [seq EXCEPT ![k] = x] ELSE Append(seq, x)

(* Mutant: the history of the newest row replaces that of the slot. *)
TakeSlotOverwriting(b, id, h) ==
    LET s == SlotFor(b, id, h)
    IN  [b EXCEPT !.refs = PutAt(@, s, IF Sharing(b, id, h) # {} THEN b.refs[s] + 1 ELSE 1),
                  !.hist = PutAt(@, s, h), !.owner = PutAt(@, s, id),
                  !.free = IF @ = <<>> \/ Sharing(b, id, h) # {} THEN @ ELSE Front(@),
                  !.byId[id] = IF Sharing(b, id, h) # {} THEN @ ELSE Append(@, s)]

(* _find_or_create_game_slot, and the row's reference to what it returns. *)
TakeSlot(b, id, h) ==
    LET s == SlotFor(b, id, h)
    IN  IF Sharing(b, id, h) # {}
        THEN [b EXCEPT !.refs[s] = @ + 1, !.hist[s] = IF Len(h) > Len(@) THEN h ELSE @]
        ELSE [b EXCEPT !.refs = PutAt(@, s, 1), !.hist = PutAt(@, s, h), !.owner = PutAt(@, s, id),
                       !.free = IF @ = <<>> THEN @ ELSE Front(@), !.byId[id] = Append(@, s)]

(* _append_unlocked. *)
Push(b, rec) ==
    LET i == b.head
        freed == ReleaseRow(b, i)
        taken == TakeSlot(freed, rec.game, rec.history)
    IN  [taken EXCEPT !.slot[i] = SlotFor(freed, rec.game, rec.history),
                      !.plies[i] = Len(rec.history),
                      !.data[i] = Packed(rec),
                      !.head = (i + 1) % Capacity,
                      !.tail = IF b.size = Capacity THEN (@ + 1) % Capacity ELSE @,
                      !.size = IF @ = Capacity THEN @ ELSE @ + 1,
                      !.newest = IF rec.game > @ THEN rec.game ELSE @]

Extend(b, recs) == FoldLeft(Push, b, recs)

------------------------------------------------------------------------------
(* Reading. *)

(* _normalize_policy: what is there becomes the whole. *)
Normalized(policy) == IF Mass(policy.parts) = 0 THEN policy ELSE [policy EXCEPT !.of = Mass(policy.parts)]

(* The V2 policy is normalized only if nothing of it is missing and it sums  *)
(* to one within a hundredth; else its entries are parts of the old whole.   *)
NormalizedV2(policy, missing) ==
    IF missing = 0 /\ 100 * Mass(policy.parts) \in 99 * policy.of .. 101 * policy.of
    THEN Normalized(policy) ELSE policy

(* _record_unlocked. *)
Decode(b, i) ==
    LET d == b.data[i]
    IN  [game |-> d.game, player |-> d.player, rest |-> d.rest,
         outcome |-> Sided(d.player, d.value), policy |-> Normalized(d.policy),
         policyV2 |-> NormalizedV2(d.policyV2, d.missing), missing |-> d.missing,
         history |-> SubSeq(b.hist[b.slot[i]], 1, Min({b.plies[i], Len(b.hist[b.slot[i]])}))]

(* _active_indices_unlocked, and records(). *)
Active(b) == [k \in 1 .. b.size |-> (b.tail + k - 1) % Capacity]
StoredRecords(b) == [k \in 1 .. b.size |-> Decode(b, Active(b)[k])]

(* A record as it comes back. *)
Kept(rec) ==
    LET p == Packed(rec)
    IN  [game |-> rec.game, player |-> rec.player, rest |-> rec.rest, outcome |-> rec.outcome,
         policy |-> Normalized(p.policy), policyV2 |-> NormalizedV2(p.policyV2, p.missing),
         missing |-> p.missing, history |-> rec.history]

------------------------------------------------------------------------------
VARIABLE ring

RingInit == ring = EmptyRing

AppendRecord == \E rec \in OfferedRecords : ring' = Push(ring, rec)
ClearRing == ring' = EmptyRing

RingNext == AppendRecord \/ ClearRing
RingSpec == RingInit /\ [][RingNext]_ring

------------------------------------------------------------------------------
(* The buffer implements the window of the last records although histories   *)
(* are shared, extended by later rows of a game, and slots are used again.   *)
Window == INSTANCE ReplayWindow WITH window <- StoredRecords(ring), Width <- Capacity,
                                     Stored <- {Kept(rec) : rec \in OfferedRecords}
KeepsTheLast == Window!WindowSpec

(* A slot counts the rows that refer to it, and is free, off its game's list *)
(* and without a history exactly when there are none: nothing leaks and no   *)
(* row reads the history of a slot that was given away.                      *)
SlotsCounted ==
    /\ \A s \in DOMAIN ring.refs :
          /\ ring.refs[s] = Cardinality({i \in Row : ring.slot[i] = s})
          /\ ring.refs[s] = 0 <=> \E k \in DOMAIN ring.free : ring.free[k] = s
          /\ ring.refs[s] > 0 <=> \E k \in DOMAIN ring.byId[ring.owner[s]] :
                                     ring.byId[ring.owner[s]][k] = s
    /\ \A j, k \in DOMAIN ring.free : ring.free[j] = ring.free[k] => j = k
    /\ Len(ring.refs) <= Capacity
=============================================================================
