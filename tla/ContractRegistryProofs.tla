----------------------- MODULE ContractRegistryProofs -----------------------
(***************************************************************************)
(* Proofs about ContractRegistry, for every set of contracts, versions and *)
(* shapes, every Arrow mapping and every bound: its type invariant, that   *)
(* no contract drifts silently, and that contracts that only move forward  *)
(* keep the shape of a frozen version or record the break.                 *)
(***************************************************************************)
EXTENDS ContractRegistry, TLAPS

\* What schema_registry --accept appends is a well-formed break.
LEMMA AcceptEffect ==
    ASSUME TypeOK, NEW reason \in Reasons \cup {NoReason}, Accept(reason)
    PROVE  /\ lock' \in Lock /\ lock'.contracts = declared
           /\ \/ FrozenChanges = {} /\ lock'.breaks = lock.breaks
              \/ /\ FrozenChanges # {} /\ reason \in Reasons
                 /\ lock'.breaks = Append(lock.breaks,
                        [contracts |-> FrozenChanges, reason |-> reason])
           /\ accepts < MaxAccepts /\ accepts' = accepts + 1
           /\ declared' = declared /\ emitter' = emitter /\ written' = written
<1>0. ASSUME NEW breaks \in Seq(Break) PROVE
        [emitter |-> emitter, contracts |-> declared, breaks |-> breaks] \in Lock
  BY DEF TypeOK, Lock
<1>1. lock.breaks \in Seq(Break)
  BY DEF TypeOK, Lock
<1>2. FrozenChanges \subseteq Contracts
  BY DEF FrozenChanges, Changed, Differing, Both
<1>3. CASE FrozenChanges = {}
  BY <1>0, <1>1, <1>3 DEF Accept, Rewrite
<1>4. CASE FrozenChanges # {}
  <2>1. reason \in Reasons
    BY <1>4 DEF Accept
  <2>2. [contracts |-> FrozenChanges, reason |-> reason] \in Break
    BY <1>2, <2>1 DEF Break
  <2> DEFINE break == [contracts |-> FrozenChanges, reason |-> reason]
  <2>3. Append(lock.breaks, break) \in Seq(Break)
    BY <1>1, <2>2
  <2>4. lock' = [emitter |-> emitter, contracts |-> declared,
                 breaks |-> Append(lock.breaks, break)]
        /\ accepts < MaxAccepts /\ accepts' = accepts + 1
        /\ UNCHANGED <<declared, emitter, written>>
    BY <1>4 DEF Accept, Rewrite
  <2> HIDE DEF break
  <2>5. lock' \in Lock /\ lock'.contracts = declared
        /\ lock'.breaks = Append(lock.breaks, break)
    BY <1>0, <2>3, <2>4
  <2> QED
    BY <1>4, <2>1, <2>4, <2>5 DEF break
<1> QED
  BY <1>3, <1>4

-----------------------------------------------------------------------------
(* The type invariant, and the check.                                      *)

LEMMA StepKeepsType ==
    ASSUME TypeOK, [Next]_vars
    PROVE  TypeOK'
<1>1. ASSUME NEW c \in Contracts, NEW s \in Contract \cup {None}, Declare(c, s) PROVE TypeOK'
  BY <1>1 DEF Declare, TypeOK
<1>2. ASSUME NEW e \in Emitters, Remap(e) PROVE TypeOK'
  BY <1>2 DEF Remap, TypeOK
<1>3. ASSUME NEW reason \in Reasons \cup {NoReason}, Accept(reason) PROVE TypeOK'
  <2>1. lock' \in Lock /\ accepts < MaxAccepts /\ accepts' = accepts + 1
        /\ declared' = declared /\ emitter' = emitter /\ written' = written
    BY <1>3, AcceptEffect
  <2> QED
    BY <2>1, RegistryBounds DEF TypeOK
<1>4. ASSUME NEW c \in Contracts, WriteFile(c) PROVE TypeOK'
  <2>1. Len(lock.breaks) \in Nat
    BY DEF TypeOK, Lock
  <2>2. declared[c] \in Contract
    BY <1>4 DEF WriteFile, TypeOK
  <2>3. [contract |-> c, spec |-> declared[c], since |-> Len(lock.breaks)] \in File
    BY <2>1, <2>2 DEF File
  <2>4. written' \subseteq File /\ UNCHANGED <<declared, emitter, lock, accepts>>
    BY <1>4, <2>3 DEF WriteFile, TypeOK
  <2> QED
    BY <2>4 DEF TypeOK
<1>5. CASE UNCHANGED vars
  BY <1>5 DEF TypeOK, vars
<1> QED
  BY <1>1, <1>2, <1>3, <1>4, <1>5 DEF Next

\* Every variable keeps its type: in particular every recorded break names
\* registered contracts and a reason that was given.
THEOREM TypeCorrect == Spec => []TypeOK
<1>1. Init => TypeOK
  BY RegistryBounds DEF Init, TypeOK, EmptyLock, Lock
<1>2. TypeOK /\ [Next]_vars => TypeOK'
  BY StepKeepsType
<1> QED
  BY <1>1, <1>2, PTL DEF Spec

\* When check finds nothing, the lock says of every contract what is declared.
LEMMA ReviewedMeansLocked ==
    ASSUME TypeOK, Reviewed
    PROVE  lock.contracts = declared
<1>1. \A c \in Contracts : lock.contracts[c] = declared[c]
  BY DEF Reviewed, Added, Removed, Bumped, Changed, Differing, Both, SameHash
<1>2. lock.contracts \in [Contracts -> Contract \cup {None}]
      /\ declared \in [Contracts -> Contract \cup {None}]
  BY DEF TypeOK, Lock
<1> QED
  BY <1>1, <1>2

\* The check of the registry reports every difference between a declaration
\* and the lock, whatever sequence of edits and accepts led there.
THEOREM DriftIsReported == Spec => []NoSilentDrift
<1>1. TypeOK => NoSilentDrift
  BY ReviewedMeansLocked DEF NoSilentDrift
<1> QED
  BY <1>1, TypeCorrect, PTL

\* Theorem: whatever is accepted, the breaks a lock records are only added to.
THEOREM BreaksAreKept == Spec => BreaksAppendOnly
<1> DEFINE Longer ==
        /\ Len(lock'.breaks) >= Len(lock.breaks)
        /\ \A i \in 1..Len(lock.breaks) : lock'.breaks[i] = lock.breaks[i]
<1>1. ASSUME TypeOK, [Next]_vars PROVE Longer \/ lock' = lock
  <2>1. CASE lock' = lock
    BY <2>1
  <2>2. CASE \E reason \in Reasons \cup {NoReason} : Accept(reason)
    <3>1. PICK reason \in Reasons \cup {NoReason} : Accept(reason)
      BY <2>2
    <3>2. lock.breaks \in Seq(Break) /\ lock' \in Lock
      BY <1>1, <3>1, AcceptEffect DEF TypeOK, Lock
    <3>3. CASE lock'.breaks = lock.breaks
      BY <3>2, <3>3
    <3>4. CASE lock'.breaks = Append(lock.breaks,
                    [contracts |-> FrozenChanges, reason |-> reason])
      BY <3>2, <3>4
    <3> QED
      BY <1>1, <3>1, <3>3, <3>4, AcceptEffect
  <2> QED
    BY <1>1, <2>1, <2>2 DEF Next, vars, Declare, Remap, WriteFile
<1>2. TypeOK /\ [Next]_vars => [Longer]_lock
  BY <1>1
<1> QED
  BY <1>2, TypeCorrect, PTL DEF Spec, BreaksAppendOnly

-----------------------------------------------------------------------------
(* Contracts that only move forward.                                       *)

\* The declarations have moved forward from the lock, and the lock from every
\* frozen file: to a later version, or to the file's shape unless a break of
\* the contract was recorded after the file was written.
Kept(f) ==
    LET now == lock.contracts[f.contract] IN
    /\ now # None
    /\ \/ now.version > f.spec.version
       \/ /\ now.version = f.spec.version /\ now.maturity = "frozen"
          /\ now.shape = f.spec.shape \/ BrokenSince(f)

ForwardInv ==
    /\ \A c \in Contracts :
        lock.contracts[c] # None => declared[c] # None /\ Ahead(lock.contracts[c], declared[c])
    /\ \A f \in written : f.since <= Len(lock.breaks) /\ (f.spec.maturity = "frozen" => Kept(f))

LEMMA AheadIsTransitive ==
    ASSUME NEW s \in Contract, NEW t \in Contract, NEW u \in Contract,
           Ahead(s, t), Ahead(t, u)
    PROVE  Ahead(s, u)
<1>1. s.version \in Nat /\ t.version \in Nat /\ u.version \in Nat
  BY VersionsArePositive DEF Contract
<1> QED
  BY <1>1 DEF Ahead

\* A recorded break stays recorded.
LEMMA BreaksStay ==
    ASSUME TypeOK, NEW reason \in Reasons \cup {NoReason}, Accept(reason),
           NEW f \in written, f.since <= Len(lock.breaks)
    PROVE  /\ BrokenSince(f) => BrokenSince(f)'
           /\ f.since <= Len(lock'.breaks)
           /\ f.contract \in FrozenChanges => BrokenSince(f)'
<1>1. lock.breaks \in Seq(Break) /\ f.since \in Nat /\ f \in File
  BY DEF TypeOK, Lock, File
<1>2. CASE FrozenChanges = {} /\ lock'.breaks = lock.breaks
  BY <1>2 DEF BrokenSince
<1>3. ASSUME lock'.breaks = Append(lock.breaks,
                    [contracts |-> FrozenChanges, reason |-> reason])
      PROVE  /\ BrokenSince(f) => BrokenSince(f)'
             /\ f.since <= Len(lock'.breaks)
             /\ f.contract \in FrozenChanges => BrokenSince(f)'
  <2>1. Len(lock'.breaks) = Len(lock.breaks) + 1
        /\ lock'.breaks[Len(lock.breaks) + 1]
               = [contracts |-> FrozenChanges, reason |-> reason]
        /\ \A i \in 1..Len(lock.breaks) : lock'.breaks[i] = lock.breaks[i]
    BY <1>1, <1>3
  <2>2. Len(lock.breaks) \in Nat
    BY <1>1
  <2>3. Len(lock.breaks) + 1 \in (f.since + 1)..Len(lock'.breaks)
    BY <1>1, <2>1, <2>2
  <2>4. f.contract \in FrozenChanges => BrokenSince(f)'
    BY <2>1, <2>3 DEF BrokenSince
  <2>5. BrokenSince(f) => BrokenSince(f)'
    BY <1>1, <2>1, <2>2 DEF BrokenSince
  <2> QED
    BY <1>1, <2>1, <2>2, <2>4, <2>5
<1> QED
  BY <1>2, <1>3, AcceptEffect

LEMMA StepMovesForward ==
    ASSUME Forward, TypeOK, ForwardInv, [Next]_vars
    PROVE  ForwardInv'
<1>1. ASSUME NEW c \in Contracts, NEW s \in Contract \cup {None}, Declare(c, s)
      PROVE  ForwardInv'
  <2>1. s # None /\ (declared[c] # None => Ahead(declared[c], s))
    BY <1>1 DEF Declare
  <2>2. declared' = [declared EXCEPT ![c] = s] /\ UNCHANGED <<lock, written>>
    BY <1>1 DEF Declare
  <2>3. ASSUME NEW d \in Contracts, lock.contracts[d] # None
        PROVE  declared'[d] # None /\ Ahead(lock.contracts[d], declared'[d])
    <3>1. declared[d] # None /\ Ahead(lock.contracts[d], declared[d])
      BY <2>3 DEF ForwardInv
    <3>2. CASE d = c
      <4>1. lock.contracts[c] \in Contract /\ declared[c] \in Contract /\ s \in Contract
        BY <2>1, <2>3, <3>1, <3>2 DEF TypeOK, Lock
      <4> QED
        BY <2>1, <2>2, <3>1, <3>2, <4>1, AheadIsTransitive DEF TypeOK
    <3>3. CASE d # c
      BY <2>2, <3>1, <3>3 DEF TypeOK
    <3> QED
      BY <3>2, <3>3
  <2> QED
    BY <2>2, <2>3 DEF ForwardInv, Kept, BrokenSince
<1>2. ASSUME NEW e \in Emitters, Remap(e) PROVE ForwardInv'
  BY <1>2 DEF Remap, ForwardInv, Kept, BrokenSince
<1>3. ASSUME NEW reason \in Reasons \cup {NoReason}, Accept(reason) PROVE ForwardInv'
  <2>1. lock'.contracts = declared /\ declared' = declared /\ written' = written
    BY <1>3, AcceptEffect
  <2>2. \A c \in Contracts : declared[c] # None => Ahead(declared[c], declared[c])
    BY DEF Ahead
  <2>3. ASSUME NEW f \in written, f.spec.maturity = "frozen" PROVE Kept(f)'
    <3> DEFINE c == f.contract
               old == lock.contracts[c]
               now == declared[c]
    <3>1. f \in File /\ c \in Contracts /\ f.spec \in Contract
      BY DEF TypeOK, File
    <3>2. Kept(f) /\ f.since <= Len(lock.breaks)
      BY <2>3 DEF ForwardInv
    <3>3. old \in Contract /\ now \in Contract /\ now # None /\ Ahead(old, now)
      BY <3>1, <3>2, NoneIsNothing DEF Kept, ForwardInv, TypeOK, Lock
    <3>4. CASE now.version > f.spec.version
      BY <2>1, <3>3, <3>4 DEF Kept
    <3>5. CASE ~(now.version > f.spec.version)
      <4>1. now.version \in Nat /\ old.version \in Nat /\ f.spec.version \in Nat
        BY <3>1, <3>3, VersionsArePositive DEF Contract
      <4>2. now.version = f.spec.version /\ old.version = now.version
        BY <3>2, <3>3, <3>5, <4>1 DEF Kept, Ahead
      <4>3. /\ old.maturity = "frozen" /\ now.maturity = "frozen"
            /\ old.shape = f.spec.shape \/ BrokenSince(f)
        BY <3>2, <3>3, <4>1, <4>2 DEF Kept, Ahead
      <4>4. old # now => c \in FrozenChanges
        BY <3>1, <3>2, <3>3, <4>2, <4>3
            DEF FrozenChanges, Changed, Differing, Both, SameHash, Kept
      <4>5. now.shape = f.spec.shape \/ BrokenSince(f)'
        BY <1>3, <3>2, <4>3, <4>4, BreaksStay
      <4> QED
        BY <2>1, <3>3, <4>2, <4>3, <4>5 DEF Kept
    <3> QED
      BY <3>4, <3>5
  <2>4. \A f \in written : f.since <= Len(lock'.breaks)
    BY <1>3, BreaksStay DEF ForwardInv
  <2> QED
    BY <2>1, <2>2, <2>3, <2>4 DEF ForwardInv
<1>4. ASSUME NEW c \in Contracts, WriteFile(c) PROVE ForwardInv'
  <2> DEFINE new == [contract |-> c, spec |-> declared[c], since |-> Len(lock.breaks)]
  <2>1. written' = written \cup {new} /\ UNCHANGED <<declared, lock>>
        /\ declared[c] # None /\ lock.contracts = declared
    BY <1>4, ReviewedMeansLocked DEF WriteFile
  <2>2. new.since <= Len(lock.breaks)
    BY DEF TypeOK, Lock
  <2>3. new.spec.maturity = "frozen" => Kept(new)
    BY <2>1 DEF Kept
  <2> HIDE DEF new
  <2> QED
    BY <2>1, <2>2, <2>3 DEF ForwardInv, Kept, BrokenSince
<1>5. CASE UNCHANGED vars
  BY <1>5 DEF vars, ForwardInv, Kept, BrokenSince
<1> QED
  BY <1>1, <1>2, <1>3, <1>4, <1>5 DEF Next

\* While contracts only move forward, through any sequence of edits and accepts
\* a frozen version keeps the shape its files were written in, or the lock
\* records the break after they were written.
THEOREM FrozenIsKept ==
    ASSUME Forward
    PROVE  Spec => []FrozenShapesKept
<1>1. Init => ForwardInv
  BY DEF Init, ForwardInv, EmptyLock
<1>2. TypeOK /\ ForwardInv /\ [Next]_vars => ForwardInv'
  BY StepMovesForward
<1>3. TypeOK /\ ForwardInv => FrozenShapesKept
  <2> SUFFICES ASSUME TypeOK, ForwardInv, Reviewed, NEW f \in written,
                      declared[f.contract] # None, f.spec.maturity = "frozen",
                      declared[f.contract].version = f.spec.version
               PROVE  declared[f.contract].shape = f.spec.shape \/ BrokenSince(f)
    BY DEF FrozenShapesKept
  <2>1. lock.contracts = declared /\ Kept(f)
    BY ReviewedMeansLocked DEF ForwardInv
  <2>2. f.spec.version \in Nat
    BY VersionsArePositive DEF TypeOK, File, Contract
  <2> QED
    BY <2>1, <2>2 DEF Kept
<1> QED
  BY <1>1, <1>2, <1>3, TypeCorrect, PTL DEF Spec
=============================================================================
