------------------------ MODULE SecureChannelProofs ------------------------
(* Theorems about SecureChannel.tla: for every window, size of the set,    *)
(* number of frames and restarts, and every behaviour of the clock.        *)
EXTENDS SecureChannel, FiniteSetTheorems, WellFoundedInduction, TLAPS

\* What the guard remembers after a frame is the old set with its number,
\* or one number less; nothing is lost while the set is not overfull.
LEMMA RecordedType ==
    ASSUME TypeOK, NEW f \in Frame
    PROVE  /\ Recorded(f.seq) \subseteq seen \cup {f.seq}
           /\ IsFiniteSet(Recorded(f.seq))
           /\ ~Overfull(seen \cup {f.seq}) => Recorded(f.seq) = seen \cup {f.seq}
<1>1. IsFiniteSet(seen \cup {f.seq})
  BY FS_AddElement DEF TypeOK
<1>2. Recorded(f.seq) \subseteq seen \cup {f.seq}
  BY DEF Recorded
<1>3. IsFiniteSet(Recorded(f.seq))
  BY <1>1, <1>2, FS_Subset
<1> QED BY <1>2, <1>3 DEF Recorded

LEMMA TypeInit == Init => TypeOK
<1> SUFFICES ASSUME Init PROVE TypeOK
  OBVIOUS
<1>1. IsFiniteSet(seen)
  BY FS_EmptySet DEF Init
<1>2. forgot \in BOOLEAN
  BY DEF Init
<1>3. nextSeq \in Nat /\ life \in Nat
  BY DEF Init
<1> QED BY <1>1, <1>2, <1>3 DEF Init, TypeOK

LEMMA TypeStep == TypeOK /\ [Next]_vars => TypeOK'
<1> SUFFICES ASSUME TypeOK, [Next]_vars PROVE TypeOK'
  OBVIOUS
<1>1. CASE Encrypt
  BY <1>1 DEF Encrypt, TypeOK, Frame
<1>2. ASSUME NEW f \in sent, Decrypt(f) PROVE TypeOK'
  <2>1. f \in Frame
    BY DEF TypeOK
  <2>2. seen' \in {seen, Recorded(f.seq)} /\ seen' \subseteq Nat /\ IsFiniteSet(seen')
    BY <1>2, <2>1, RecordedType DEF Decrypt, TypeOK, Frame
  <2> QED BY <1>2, <2>1, <2>2 DEF Decrypt, TypeOK, Overfull
<1>3. CASE SenderRestart
  BY <1>3 DEF SenderRestart, TypeOK, Frame
<1>4. CASE ReceiverRestart
  BY <1>4, FS_EmptySet DEF ReceiverRestart, TypeOK
<1>5. CASE Clock
  BY <1>5 DEF Clock, TypeOK
<1>6. CASE UNCHANGED vars
  BY <1>6 DEF vars, TypeOK
<1> QED BY <1>1, <1>2, <1>3, <1>4, <1>5, <1>6 DEF Next

\* Every reachable state is typed; in particular no number of the sender's
\* current life is at or above next_seq.
THEOREM TypeCorrect == Spec => []TypeOK
BY TypeInit, TypeStep, PTL DEF Spec

(***************************************************************************)
(* What the guard remembers, relates to what was handed over: until it     *)
(* forgets, it remembers the number of every frame accepted; always, what  *)
(* it remembers came from a frame accepted; and a life of the sender uses  *)
(* a number once.                                                          *)
(***************************************************************************)

OneFramePerNumber ==
    \A f, g \in sent : f.life = g.life /\ f.seq = g.seq => f = g

GuardInv ==
    /\ TypeOK
    /\ OneFramePerNumber
    /\ ~forgot => \A f \in accepted : f.seq \in seen
    /\ \A s \in seen : \E g \in accepted : g.seq = s
    /\ NeverTwiceUnlessForgot
    /\ FalseAlarmNeedsRestart

LEMMA GuardInvStep == GuardInv /\ [Next]_vars => GuardInv'
<1> SUFFICES ASSUME GuardInv, [Next]_vars PROVE GuardInv'
  OBVIOUS
<1>0. TypeOK /\ TypeOK'
  BY TypeStep DEF GuardInv
<1>1. CASE Encrypt
  <2>1. OneFramePerNumber'
    BY <1>0, <1>1 DEF Encrypt, GuardInv, OneFramePerNumber, TypeOK, Frame
  <2> QED BY <1>0, <1>1, <2>1
          DEF Encrypt, GuardInv, NeverTwiceUnlessForgot, FalseAlarmNeedsRestart
<1>2. ASSUME NEW f \in sent, Decrypt(f) PROVE GuardInv'
  <2>0. f \in Frame /\ OneFramePerNumber'
    BY <1>0, <1>2 DEF TypeOK, GuardInv, OneFramePerNumber, Decrypt
  <2>1. CASE f.seq \notin seen
    <3>1. /\ seen' = Recorded(f.seq)
          /\ forgot' = (forgot \/ Overfull(seen \cup {f.seq}))
          /\ accepted' = accepted \cup {f}
          /\ repeated' = repeated \cup ({f} \cap accepted)
          /\ refused' = refused
      BY <1>2, <2>1 DEF Decrypt
    <3>2. ~forgot' => \A g \in accepted' : g.seq \in seen'
      BY <1>0, <2>0, <3>1, RecordedType DEF GuardInv
    <3>3. \A s \in seen' : \E g \in accepted' : g.seq = s
      BY <1>0, <2>0, <3>1, RecordedType DEF GuardInv
    <3>4. NeverTwiceUnlessForgot'
      BY <2>1, <3>1 DEF GuardInv, NeverTwiceUnlessForgot
    <3>5. FalseAlarmNeedsRestart'
      BY <3>1 DEF GuardInv, FalseAlarmNeedsRestart
    <3> QED BY <1>0, <2>0, <3>2, <3>3, <3>4, <3>5 DEF GuardInv
  <2>2. CASE f.seq \in seen
    <3>1. /\ refused' = refused \cup ({f} \ accepted)
          /\ UNCHANGED <<seen, forgot, accepted, repeated>>
      BY <1>2, <2>2 DEF Decrypt
    <3>2. PICK g \in accepted : g.seq = f.seq
      BY <2>2 DEF GuardInv
    <3>3. f \notin accepted => g.life # f.life
      BY <1>0, <3>2 DEF GuardInv, OneFramePerNumber, TypeOK
    <3>4. FalseAlarmNeedsRestart'
      BY <3>1, <3>2, <3>3 DEF GuardInv, FalseAlarmNeedsRestart
    <3> QED BY <1>0, <2>0, <3>1, <3>4 DEF GuardInv, NeverTwiceUnlessForgot
  <2> QED BY <2>1, <2>2
<1>3. CASE SenderRestart
  BY <1>0, <1>3 DEF SenderRestart, GuardInv, OneFramePerNumber,
                    NeverTwiceUnlessForgot, FalseAlarmNeedsRestart
<1>4. CASE ReceiverRestart
  BY <1>0, <1>4 DEF ReceiverRestart, GuardInv, OneFramePerNumber,
                    NeverTwiceUnlessForgot, FalseAlarmNeedsRestart
<1>5. CASE Clock
  BY <1>0, <1>5 DEF Clock, GuardInv, OneFramePerNumber,
                    NeverTwiceUnlessForgot, FalseAlarmNeedsRestart
<1>6. CASE UNCHANGED vars
  BY <1>0, <1>6 DEF vars, GuardInv, OneFramePerNumber,
                    NeverTwiceUnlessForgot, FalseAlarmNeedsRestart
<1> QED BY <1>1, <1>2, <1>3, <1>4, <1>5, <1>6 DEF Next

LEMMA GuardInvInit == Init => GuardInv
BY TypeInit DEF Init, GuardInv, OneFramePerNumber, NeverTwiceUnlessForgot,
                FalseAlarmNeedsRestart

\* No payload is handed over twice unless the guard has forgotten a number.
THEOREM GuardSafety == Spec => []NeverTwiceUnlessForgot
<1>1. GuardInv => NeverTwiceUnlessForgot
  BY DEF GuardInv
<1> QED BY <1>1, GuardInvInit, GuardInvStep, PTL DEF Spec

\* A first arrival inside the window is refused only for a frame of another
\* life of the sender: late and reordered frames are never taken for repeated.
THEOREM FirstArrivalsPass == Spec => []FalseAlarmNeedsRestart
<1>1. GuardInv => FalseAlarmNeedsRestart
  BY DEF GuardInv
<1> QED BY <1>1, GuardInvInit, GuardInvStep, PTL DEF Spec

(***************************************************************************)
(* The memory of the guard. A set that is overfull by one has a least      *)
(* number, and what is left without it is within the bound.                *)
(***************************************************************************)

LEMMA LeastNumber ==
    ASSUME NEW S \in SUBSET Nat, IsFiniteSet(S), S # {}
    PROVE  \E x \in S : \A y \in S : ~(y < x)
<1> DEFINE Below(x) == {y \in S : y < x}
           T == {Below(x) : x \in S}
<1>1. IsWellFoundedOn(StrictSubsetOrdering(S), SUBSET S)
  BY FS_StrictSubsetOrderingWellFounded, FS_FiniteSubsetsOfFinite
<1>2. T \subseteq SUBSET S /\ T # {}
  OBVIOUS
<1>3. \E B \in T : \A C \in T : <<C, B>> \notin StrictSubsetOrdering(S)
  <2> DEFINE R == StrictSubsetOrdering(S)
             P == SUBSET S
  <2>1. IsWellFoundedOn(R, P) /\ T \subseteq P /\ T # {}
    BY <1>1, <1>2
  <2> HIDE DEF R, P, T
  <2>2. \E B \in T : \A C \in T : ~(<<C, B>> \in R)
    BY <2>1, WFMin
  <2> QED BY <2>2 DEF R, T
<1>4. PICK x \in S : \A C \in T : <<C, Below(x)>> \notin StrictSubsetOrdering(S)
  BY <1>3
<1>5. ASSUME NEW y \in S, y < x PROVE FALSE
  <2>1. Below(y) \subseteq Below(x) /\ y \in Below(x) /\ y \notin Below(y)
    <3>1. x \in Nat /\ y \in Nat /\ \A z \in S : z \in Nat
      OBVIOUS
    <3>2. ~(y < y) /\ \A z \in S : z < y => z < x
      BY <1>5, <3>1
    <3>3. \A z \in Below(y) : z \in Below(x)
      BY <3>2
    <3>4. y \in Below(x) /\ y \notin Below(y)
      BY <1>5, <3>2
    <3> QED BY <3>3, <3>4
  <2>2. <<Below(y), Below(x)>> \in StrictSubsetOrdering(S)
    <3> DEFINE p == <<Below(y), Below(x)>>
    <3>1. p \in (SUBSET S) \X (SUBSET S)
      OBVIOUS
    <3>2. p[1] \subseteq p[2] /\ p[1] # p[2]
      BY <2>1
    <3> QED BY <3>1, <3>2 DEF StrictSubsetOrdering
  <2> QED BY <1>4, <2>2
<1> QED BY <1>5

LEMMA RecordedBounded ==
    ASSUME TypeOK, SeenBounded, NEW f \in Frame
    PROVE  Cardinality(Recorded(f.seq)) <= MaxTracked
<1> DEFINE all == seen \cup {f.seq}
<1>1. IsFiniteSet(all) /\ Cardinality(all) \in Nat /\ Cardinality(all) <= MaxTracked + 1
  <2>1. IsFiniteSet(seen) /\ Cardinality(seen) \in Nat /\ Cardinality(seen) <= MaxTracked
    BY FS_CardinalityType DEF TypeOK, SeenBounded
  <2>2. /\ IsFiniteSet(all)
        /\ Cardinality(all) = IF f.seq \in seen THEN Cardinality(seen)
                              ELSE Cardinality(seen) + 1
    BY <2>1, FS_AddElement
  <2> QED BY <2>1, <2>2, BoundsAssumption
<1>2. CASE Overfull(all)
  <2>1. Recorded(f.seq) = {s \in all : \E t \in all : t < s}
    BY <1>2 DEF Recorded
  <2>2. PICK x \in all : \A y \in all : ~(y < x)
    BY <1>1, LeastNumber DEF TypeOK, Frame
  <2>3. Recorded(f.seq) \subseteq all /\ Recorded(f.seq) # all
    BY <2>1, <2>2
  <2>4. Cardinality(Recorded(f.seq)) \in Nat
        /\ Cardinality(Recorded(f.seq)) < Cardinality(all)
    BY <1>1, <2>3, FS_Subset, FS_CardinalityType
  <2> QED BY <1>1, <2>4, BoundsAssumption
<1>3. CASE ~Overfull(all)
  <2>1. Recorded(f.seq) = all
    BY <1>3 DEF Recorded
  <2> QED BY <1>1, <1>3, <2>1, BoundsAssumption DEF Overfull
<1> QED BY <1>2, <1>3

\* The guard never remembers more than MAX_TRACKED_SEQ numbers, whatever
\* arrives: dropping the least one after each insertion is enough.
THEOREM MemoryBounded == Spec => []SeenBounded
<1>1. Init => TypeOK /\ SeenBounded
  BY TypeInit, FS_EmptySet, BoundsAssumption DEF Init, SeenBounded
<1>2. TypeOK /\ SeenBounded /\ [Next]_vars => TypeOK' /\ SeenBounded'
  <2> SUFFICES ASSUME TypeOK, SeenBounded, [Next]_vars PROVE SeenBounded'
    BY TypeStep
  <2>1. ASSUME NEW f \in sent, Decrypt(f) PROVE SeenBounded'
    <3>1. f \in Frame
      BY DEF TypeOK
    <3>2. seen' \in {seen, Recorded(f.seq)}
      BY <2>1 DEF Decrypt
    <3> QED BY <3>1, <3>2, RecordedBounded DEF SeenBounded
  <2>2. CASE ReceiverRestart
    BY <2>2, FS_EmptySet, BoundsAssumption DEF ReceiverRestart, SeenBounded
  <2>3. CASE Encrypt \/ SenderRestart \/ Clock \/ UNCHANGED vars
    BY <2>3 DEF Encrypt, SenderRestart, Clock, vars, SeenBounded
  <2> QED BY <2>1, <2>2, <2>3 DEF Next
<1> QED BY <1>1, <1>2, PTL DEF Spec
=============================================================================
