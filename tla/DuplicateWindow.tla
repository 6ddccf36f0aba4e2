--------------------------- MODULE DuplicateWindow ---------------------------
(***************************************************************************)
(* isDuplicate of internal/app/app.go: the identifiers of the messages     *)
(* handled last, as a set and as a ring that says which one leaves the set *)
(* next.  Only incomingLoop calls it.                                      *)
(***************************************************************************)
EXTENDS Integers, Sequences

CONSTANT RingSize  \* dedupeWindow

ASSUME RingAssumption == RingSize \in Nat \ {0}

VARIABLES seen, seenRing, seenNext,
          handled  \* history: the identifiers let through, in order

windowVars == <<seen, seenRing, seenNext, handled>>

Slots == 0 .. RingSize - 1

\* New: an empty set, and a ring of zeros.
WindowInit ==
  /\ seen = {} /\ seenRing = [j \in Slots |-> 0] /\ seenNext = 0
  /\ handled = <<>>

Known(id) == id = 0 \/ id \in seen

\* Mutant: the index moves on before the old identifier is read.
RememberLate(id) ==
  LET next == IF seenNext + 1 = RingSize THEN 0 ELSE seenNext + 1
      old == seenRing[next]
  IN  /\ seen' = (IF old # 0 THEN seen \ {old} ELSE seen) \cup {id}
      /\ seenRing' = [seenRing EXCEPT ![seenNext] = id]
      /\ seenNext' = next
      /\ handled' = Append(handled, id)

\* The oldest identifier leaves, id takes its slot.
Remember(id) ==
  LET old == seenRing[seenNext] IN
    /\ seen' = (IF old # 0 THEN seen \ {old} ELSE seen) \cup {id}
    /\ seenRing' = [seenRing EXCEPT ![seenNext] = id]
    /\ seenNext' = IF seenNext + 1 = RingSize THEN 0 ELSE seenNext + 1
    /\ handled' = Append(handled, id)

isDuplicate(id) ==
  \/ Known(id) /\ UNCHANGED windowVars
  \/ ~Known(id) /\ Remember(id)

WindowNext == \E id \in Nat : isDuplicate(id)

WindowSpec == WindowInit /\ [][WindowNext]_windowVars

-----------------------------------------------------------------------------
(* Properties.                                                             *)

\* "A bounded duplicate window" (docs/PROTOCOL.md): isDuplicate lets an
\* identifier through again only when RingSize others went through since.
WindowRespected ==
  \A i, k \in 1 .. Len(handled) :
    i < k /\ handled[i] = handled[k] => k - i > RingSize

\* What is remembered is what was handled last, RingSize of it and no more:
\* the set and the ring do not drift apart.
RemembersRecent ==
  seen = {handled[i] : i \in {k \in 1 .. Len(handled) : k > Len(handled) - RingSize}}
=============================================================================
