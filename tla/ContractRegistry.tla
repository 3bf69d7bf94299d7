-------------------------- MODULE ContractRegistry --------------------------
(***************************************************************************)
(* The contract registry and its lock: the contracts declared in code, the *)
(* checked-in lock file that pins them, schema_registry --accept, which    *)
(* rewrites it, and the contract files written by builds of a tree whose   *)
(* check passes (make verify).                                             *)
(*                                                                         *)
(* A shape stands for the canonical field list: names, kinds, nullability, *)
(* units and codesets.  The hash of a contract covers its version, its     *)
(* maturity and its shape, so two contracts hash alike when they are equal.*)
(***************************************************************************)
EXTENDS Naturals, Sequences, FiniteSets

CONSTANTS Contracts,
          Versions,       \* of a contract, from 1
          Shapes,         \* what its field list can be
          Columns(_),     \* the Arrow schema of a shape: no units, no codesets
          Emitters,       \* kind-to-Arrow mappings, as their hashes
          Reasons, NoReason,   \* the argument of --break-frozen, absent or empty
          None,           \* not declared, or not in the lock
          Forward,        \* do declarations only move forward?
          MaxAccepts, MaxFiles

Maturity == {"provisional", "frozen"}
Contract == [version : Versions, maturity : Maturity, shape : Shapes]

ASSUME VersionsArePositive == Versions \subseteq Nat \ {0}
ASSUME NoneIsNothing == None \notin Contract /\ NoReason \notin Reasons
ASSUME ForwardType == Forward \in BOOLEAN
ASSUME RegistryBounds == MaxAccepts \in Nat /\ MaxFiles \in Nat

VARIABLES declared,   \* the registered contract of each name
          emitter,    \* the hash of the current kind-to-Arrow mapping
          lock,       \* what contracts.json holds
          written,    \* the contract files ever written by a reviewed tree
          accepts

vars == <<declared, emitter, lock, written, accepts>>

Break == [contracts : SUBSET Contracts, reason : Reasons]
Lock == [emitter : Emitters \cup {None},
         contracts : [Contracts -> Contract \cup {None}],
         breaks : Seq(Break)]

\* A file, with how many breaks the lock had recorded when it was written.
File == [contract : Contracts, spec : Contract, since : Nat]

TypeOK ==
    /\ declared \in [Contracts -> Contract \cup {None}]
    /\ emitter \in Emitters
    /\ lock \in Lock
    /\ written \subseteq File
    /\ accepts \in 0..MaxAccepts

\* load_lock when there is no lock file.
EmptyLock == [emitter |-> None, contracts |-> [c \in Contracts |-> None], breaks |-> <<>>]

Init ==
    /\ declared = [c \in Contracts |-> None]
    /\ emitter \in Emitters
    /\ lock = EmptyLock
    /\ written = {}
    /\ accepts = 0

-----------------------------------------------------------------------------
(* check: the findings, by kind.                                           *)

\* Mutant: the hash leaves out the maturity.
SameHashNoMaturity(s, t) == s.version = t.version /\ s.shape = t.shape

SameHash(s, t) == s = t

Both == {c \in Contracts : declared[c] # None /\ lock.contracts[c] # None}
Added == {c \in Contracts : declared[c] # None /\ lock.contracts[c] = None}
Removed == {c \in Contracts : declared[c] = None /\ lock.contracts[c] # None}
Differing == {c \in Both : ~SameHash(declared[c], lock.contracts[c])}
Changed == {c \in Differing : declared[c].version = lock.contracts[c].version}
Bumped == Differing \ Changed

\* schema_registry --check, part of make verify, passes.
Reviewed ==
    /\ lock.emitter = emitter
    /\ Added = {} /\ Removed = {} /\ Changed = {} /\ Bumped = {}

\* A shape change to a frozen contract: frozen as it is declared now.
FrozenChanges == {c \in Changed : declared[c].maturity = "frozen"}

-----------------------------------------------------------------------------
(* Operations.                                                             *)

\* t may follow s in a tree whose contracts only move forward: versions do not
\* go down, and within one version a frozen contract stays frozen.
Ahead(s, t) ==
    \/ t.version > s.version
    \/ t.version = s.version /\ (s.maturity = "frozen" => t.maturity = "frozen")

\* A contract is declared, edited or removed in the source.
Declare(c, s) ==
    /\ s # declared[c]
    /\ Forward => s # None /\ (declared[c] # None => Ahead(declared[c], s))
    /\ declared' = [declared EXCEPT ![c] = s]
    /\ UNCHANGED <<emitter, lock, written, accepts>>

Remap(e) ==
    /\ e # emitter
    /\ emitter' = e
    /\ UNCHANGED <<declared, lock, written, accepts>>

Rewrite(breaks) ==
    /\ accepts < MaxAccepts
    /\ accepts' = accepts + 1
    /\ lock' = [emitter |-> emitter, contracts |-> declared, breaks |-> breaks]
    /\ UNCHANGED <<declared, emitter, written>>

\* Mutants: a reason is demanded and then discarded; the history is replaced;
\* no reason is demanded.
AcceptDiscarding(reason) ==
    /\ FrozenChanges = {} \/ reason \in Reasons
    /\ Rewrite(lock.breaks)
AcceptOverwriting(reason) ==
    /\ FrozenChanges = {} \/ reason \in Reasons
    /\ Rewrite(IF FrozenChanges = {} THEN <<>>
               ELSE <<[contracts |-> FrozenChanges, reason |-> reason]>>)
AcceptUnasked(reason) ==
    Rewrite(IF FrozenChanges = {} THEN lock.breaks
            ELSE Append(lock.breaks, [contracts |-> FrozenChanges, reason |-> reason]))

\* schema_registry --accept [--break-frozen reason]: refused without a reason
\* when a frozen contract changed; otherwise the lock is rewritten from the
\* declarations and the break is appended to its history.
Accept(reason) ==
    /\ FrozenChanges = {} \/ reason \in Reasons
    /\ Rewrite(IF FrozenChanges = {} THEN lock.breaks
               ELSE Append(lock.breaks, [contracts |-> FrozenChanges, reason |-> reason]))

\* A build of a tree that passes make verify writes a file under a contract.
WriteFile(c) ==
    /\ Reviewed /\ declared[c] # None
    /\ Cardinality(written) < MaxFiles
    /\ written' = written \cup
            {[contract |-> c, spec |-> declared[c], since |-> Len(lock.breaks)]}
    /\ UNCHANGED <<declared, emitter, lock, accepts>>

Next ==
    \/ \E c \in Contracts : WriteFile(c) \/ \E s \in Contract \cup {None} : Declare(c, s)
    \/ \E e \in Emitters : Remap(e)
    \/ \E reason \in Reasons \cup {NoReason} : Accept(reason)

Spec == Init /\ [][Next]_vars

-----------------------------------------------------------------------------
(* Properties.                                                             *)

\* A reader takes a file when its Arrow schema is that of the contract declared
\* now under the name (SnapshotReader.read, read_contract_table).
Reads(f) ==
    /\ declared[f.contract] # None
    /\ Columns(declared[f.contract].shape) = Columns(f.spec.shape)

\* The lock names a break of the file's contract recorded after it was written.
BrokenSince(f) ==
    \E i \in (f.since + 1)..Len(lock.breaks) : f.contract \in lock.breaks[i].contracts

\* In a reviewed tree, a frozen version means the shape its files were written
\* in, or the lock tells of the break and why: through any sequence of edits,
\* bumps, promotions and accepts of contracts that only move forward
\* (registry.check, schema_registry --accept).
FrozenShapesKept ==
    Reviewed => \A f \in written :
        LET now == declared[f.contract] IN
        /\ now # None /\ f.spec.maturity = "frozen"
        /\ now.version = f.spec.version /\ now.maturity = "frozen"
        => now.shape = f.spec.shape \/ BrokenSince(f)

\* A contract cannot drift silently: when the check passes, the lock a reviewer
\* reads says of every contract what the code declares (registry.check).
NoSilentDrift == Reviewed => lock.contracts = declared

\* Rewriting the lock never loses, reorders or replaces what it says of earlier
\* breaks: the history is only appended to (schema_registry --accept).
BreaksAppendOnly ==
    [][/\ Len(lock'.breaks) >= Len(lock.breaks)
       /\ \A i \in 1..Len(lock.breaks) : lock'.breaks[i] = lock.breaks[i]]_lock

-----------------------------------------------------------------------------
(* Claims of the code's text that do not hold.                             *)

\* schema_registry.py: a shape change to an already-locked frozen contract is a
\* break, so the lock is not rewritten over one without recording it.
LockedFrozenIsBreak ==
    [][\A c \in Changed :
          /\ lock.contracts[c].maturity = "frozen"
          /\ lock.contracts[c].shape # declared[c].shape
          => Len(lock'.breaks) > Len(lock.breaks)]_lock

\* reader.py: a file is read validated against the contract it was written
\* under, so in a reviewed tree one that reads means what it meant.
ReadUnderItsContract ==
    Reviewed => \A f \in written :
        Reads(f) => declared[f.contract].shape = f.spec.shape
=============================================================================
