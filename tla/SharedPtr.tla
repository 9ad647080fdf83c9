----------------------------- MODULE SharedPtr ------------------------------
(***************************************************************************)
(* SharedPtr of Cpp/shared_ptr.cpp, used by any number of threads: each    *)
(* SharedPtr object is used by one thread at a time, except that several   *)
(* may copy from it, and only the atomic counter of the control block is   *)
(* shared without that.  One step is one access to a counter.              *)
(*                                                                         *)
(* A block is a resource together with its control block: the code always  *)
(* sets ptr and ref_count together.  The explicit constructor initialises  *)
(* ptr from "ptr_", which is declared nowhere; its parameter is meant.     *)
(***************************************************************************)
EXTENDS Integers, FiniteSets

CONSTANTS Ptrs,      \* the SharedPtr objects
          Blocks,    \* bound: the resources the program ever allocates
          NoBlock,   \* nullptr
          NoPtr

ASSUME SharedPtrAssumption == /\ IsFiniteSet(Ptrs)
                              /\ NoBlock \notin Blocks
                              /\ NoPtr \notin Ptrs

VARIABLES ref,     \* ptr and ref_count
          count,   \* SharedCount::count
          block,   \* what has become of the resource and its control block
          call,    \* how far the call on this object has got
          goal,    \* which call it is
          other,   \* its argument, when that is a SharedPtr
          given    \* its argument, when that is a raw pointer

ptrVars == <<ref, count, block, call, goal, other, given>>

PtrTypeOK ==
    /\ ref \in [Ptrs -> Blocks \cup {NoBlock}]
    /\ count \in [Blocks -> Nat]
    /\ block \in [Blocks -> {"fresh", "given", "live", "freed"}]
    /\ call \in [Ptrs -> {"none", "idle", "clean", "delete", "cleaned", "add"}]
    /\ goal \in [Ptrs -> {"copy", "move", "reset", "destroy"}]
    /\ other \in [Ptrs -> Ptrs \cup {NoPtr}]
    /\ given \in [Ptrs -> Blocks \cup {NoBlock}]

PtrInit ==
    /\ ref = [p \in Ptrs |-> NoBlock]
    /\ count = [b \in Blocks |-> 0]
    /\ block = [b \in Blocks |-> "fresh"]
    /\ call = [p \in Ptrs |-> "none"]
    /\ goal = [p \in Ptrs |-> "destroy"]
    /\ other = [p \in Ptrs |-> NoPtr]
    /\ given = [p \in Ptrs |-> NoBlock]

\* The callers' side of the bargain: an object that a call changes is used by no
\* other call; one that a call copies from is changed by none.
MayChange(p) == call[p] = "idle" /\ \A r \in Ptrs : other[r] # p
MayRead(q) == call[q] = "idle" /\ \A r \in Ptrs : other[r] = q => goal[r] = "copy"

-----------------------------------------------------------------------------
(* Construction *)

\* SharedPtr()
Construct(p) ==
    /\ call[p] = "none"
    /\ call' = [call EXCEPT ![p] = "idle"]
    /\ UNCHANGED <<ref, count, block, goal, other, given>>

\* SharedPtr(T* ptr), with a control block for a pointer that is not null
ConstructFrom(p, b) ==
    /\ call[p] = "none"
    /\ block[b] = "fresh"
    /\ ref' = [ref EXCEPT ![p] = b]
    /\ count' = [count EXCEPT ![b] = 1]
    /\ block' = [block EXCEPT ![b] = "live"]
    /\ call' = [call EXCEPT ![p] = "idle"]
    /\ UNCHANGED <<goal, other, given>>

\* SharedPtr(const SharedPtr& other): the pointers are read, then the count goes up.
CopyConstruct(p, q) ==
    /\ call[p] = "none"
    /\ MayRead(q)
    /\ ref' = [ref EXCEPT ![p] = ref[q]]
    /\ call' = [call EXCEPT ![p] = "add"]
    /\ goal' = [goal EXCEPT ![p] = "copy"]
    /\ other' = [other EXCEPT ![p] = q]
    /\ UNCHANGED <<count, block, given>>

\* SharedPtr(SharedPtr&& other): no counter is touched.
MoveConstruct(p, q) ==
    /\ call[p] = "none"
    /\ MayChange(q)
    /\ ref' = [ref EXCEPT ![p] = ref[q], ![q] = NoBlock]
    /\ call' = [call EXCEPT ![p] = "idle"]
    /\ UNCHANGED <<count, block, goal, other, given>>

-----------------------------------------------------------------------------
(* Calls that begin with clean().  An object assigned to itself is left      *)
(* alone: p and q differ.                                                    *)

BeginClean(p, g, q, b) ==
    /\ call' = [call EXCEPT ![p] = "clean"]
    /\ goal' = [goal EXCEPT ![p] = g]
    /\ other' = [other EXCEPT ![p] = q]
    /\ given' = [given EXCEPT ![p] = b]
    /\ UNCHANGED <<ref, count>>

CopyAssign(p, q) ==
    /\ p # q /\ MayChange(p) /\ MayRead(q)
    /\ BeginClean(p, "copy", q, NoBlock)
    /\ UNCHANGED block

MoveAssign(p, q) ==
    /\ p # q /\ MayChange(p) /\ MayChange(q)
    /\ BeginClean(p, "move", q, NoBlock)
    /\ UNCHANGED block

\* reset(): a raw pointer is given to one call at most.
Reset(p, b) ==
    /\ MayChange(p)
    /\ b # NoBlock => block[b] = "fresh"
    /\ BeginClean(p, "reset", NoPtr, b)
    /\ block' = [c \in Blocks |-> IF c = b THEN "given" ELSE block[c]]

Destroy(p) ==
    /\ MayChange(p)
    /\ BeginClean(p, "destroy", NoPtr, NoBlock)
    /\ UNCHANGED block

Swap(p, q) ==
    /\ p # q /\ MayChange(p) /\ MayChange(q)
    /\ ref' = [ref EXCEPT ![p] = ref[q], ![q] = ref[p]]
    /\ UNCHANGED <<count, block, call, goal, other, given>>

-----------------------------------------------------------------------------
(* The steps of a call *)

\* clean() without a control block
Clean_Nothing(p) ==
    /\ call[p] = "clean"
    /\ ref[p] = NoBlock
    /\ call' = [call EXCEPT ![p] = "cleaned"]
    /\ UNCHANGED <<ref, count, block, goal, other, given>>

\* Fault: the count is read again after it went down, by another atomic access.
Fault_MinusThenGet(p) ==
    /\ call[p] = "clean"
    /\ ref[p] # NoBlock
    /\ count' = [count EXCEPT ![ref[p]] = @ - 1]
    /\ call' = [call EXCEPT ![p] = "delete"]
    /\ UNCHANGED <<ref, block, goal, other, given>>

\* ref_count->minus(), and what clean() does with its result
Clean_Minus(p) ==
    /\ call[p] = "clean"
    /\ ref[p] # NoBlock
    /\ count' = [count EXCEPT ![ref[p]] = @ - 1]
    /\ IF count[ref[p]] = 1
       THEN call' = [call EXCEPT ![p] = "delete"] /\ UNCHANGED ref
       ELSE call' = [call EXCEPT ![p] = "cleaned"] /\ ref' = [ref EXCEPT ![p] = NoBlock]
    /\ UNCHANGED <<block, goal, other, given>>

\* delete ptr; delete ref_count
Clean_Delete(p) ==
    /\ call[p] = "delete"
    /\ block' = [block EXCEPT ![ref[p]] = "freed"]
    /\ ref' = [ref EXCEPT ![p] = NoBlock]
    /\ call' = [call EXCEPT ![p] = "cleaned"]
    /\ UNCHANGED <<count, goal, other, given>>

\* The end of the call.
Return(p, to) ==
    /\ call' = [call EXCEPT ![p] = to]
    /\ other' = [other EXCEPT ![p] = NoPtr]
    /\ given' = [given EXCEPT ![p] = NoBlock]
    /\ goal' = [goal EXCEPT ![p] = "destroy"]

Finish_Destroy(p) ==
    /\ call[p] = "cleaned" /\ goal[p] = "destroy"
    /\ Return(p, "none")
    /\ UNCHANGED <<ref, count, block>>

Finish_Reset(p) ==
    /\ call[p] = "cleaned" /\ goal[p] = "reset"
    /\ ref' = [ref EXCEPT ![p] = given[p]]
    /\ count' = [b \in Blocks |-> IF b = given[p] THEN 1 ELSE count[b]]
    /\ block' = [b \in Blocks |-> IF b = given[p] THEN "live" ELSE block[b]]
    /\ Return(p, "idle")

Finish_Move(p) ==
    /\ call[p] = "cleaned" /\ goal[p] = "move"
    /\ ref' = [ref EXCEPT ![p] = ref[other[p]], ![other[p]] = NoBlock]
    /\ Return(p, "idle")
    /\ UNCHANGED <<count, block>>

\* operator=(const SharedPtr&): the pointers are read after clean().
Finish_Copy(p) ==
    /\ call[p] = "cleaned" /\ goal[p] = "copy"
    /\ ref' = [ref EXCEPT ![p] = ref[other[p]]]
    /\ call' = [call EXCEPT ![p] = "add"]
    /\ UNCHANGED <<count, block, goal, other, given>>

\* "if (ref_count) ref_count->add()"
Add(p) ==
    /\ call[p] = "add"
    /\ count' = [b \in Blocks |-> IF b = ref[p] THEN count[b] + 1 ELSE count[b]]
    /\ Return(p, "idle")
    /\ UNCHANGED <<ref, block>>

PtrCall(p) ==
    \/ Construct(p)
    \/ \E b \in Blocks : ConstructFrom(p, b)
    \/ \E q \in Ptrs : \/ CopyConstruct(p, q) \/ MoveConstruct(p, q)
                       \/ CopyAssign(p, q) \/ MoveAssign(p, q) \/ Swap(p, q)
    \/ \E b \in Blocks \cup {NoBlock} : Reset(p, b)
    \/ Destroy(p)

PtrStep(p) ==
    \/ Clean_Nothing(p) \/ Clean_Minus(p) \/ Clean_Delete(p)
    \/ Finish_Destroy(p) \/ Finish_Reset(p) \/ Finish_Move(p) \/ Finish_Copy(p)
    \/ Add(p)

PtrNext == \E p \in Ptrs : PtrCall(p) \/ PtrStep(p)

PtrSpec == PtrInit /\ [][PtrNext]_ptrVars

-----------------------------------------------------------------------------
(* Properties *)

\* The objects that the counter of b stands for.
Holders(b) == {p \in Ptrs : ref[p] = b /\ call[p] \notin {"add", "delete"}}

\* The counter of a control block is the number of objects that hold it, whatever
\* copies, moves, resets and destructions run at the same time.
CountRight == \A b \in Blocks : count[b] = Cardinality(Holders(b))

\* No object, in the middle of whatever call, refers to a resource that has been
\* deleted: nothing is used after it was freed and nothing is freed twice.
NoDangling == \A p \in Ptrs : ref[p] # NoBlock => block[ref[p]] = "live"

\* A resource that is not deleted yet is held by an object: the last one to let
\* go deletes it.
NoLeak == \A b \in Blocks : block[b] = "live" => \E p \in Ptrs : ref[p] = b
=============================================================================
