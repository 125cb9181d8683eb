---------------------- MODULE ReaderRegistrationProofs ----------------------
(***************************************************************************)
(* Proofs about ReaderRegistration for any number of threads, readers,     *)
(* composites and registrations: no DataReader is deleted under a          *)
(* condition the native WaitSet holds, and no claim stays.                 *)
(***************************************************************************)
EXTENDS ReaderRegistration, TLAPS

-----------------------------------------------------------------------------
(* The inductive invariant, part by part.                                  *)

LoopPcs  == {"release", "rel_native", "rel_clear", "rel_delete"}
ClaimPcs == {"claim", "clear", "attach", "commit"}
HoldPcs  == LoopPcs \union {"rel_failed", "erase"}
WorkPcs  == ClaimPcs \union HoldPcs \union {"insert", "add_unlock", "detach", "poison"}
ClosePcs == {"close_wait", "close_end", "close_delete"}

\* The readers of registration n.
Of(n) == {members[n][i] : i \in DOMAIN members[n]}

\* A thread inside the destructor of the endpoint of reader arg[t].
Closer(t) == op[t] = "close" /\ pc[t] # "idle"

\* Which operation a place belongs to, and which reader of which registration a
\* thread is at; add() holds mutex_ from its first step to its last.
Shape ==
    \A t \in Threads :
        /\ pc[t] # "idle" => op[t] \in {"add", "remove", "close"}
        /\ pc[t] \in ClaimPcs \union {"insert", "add_unlock"} => op[t] = "add"
        /\ pc[t] \in ClosePcs => op[t] = "close"
        /\ pc[t] \in WorkPcs => reg[t] # 0 /\ idx[t] \in DOMAIN members[reg[t]]
        /\ pc[t] \in {"close_wait", "detach", "insert", "erase"} => idx[t] = 1
        /\ pc[t] \in {"detach", "rel_failed", "erase"} /\ op[t] = "add" => failed[t]
        /\ pc[t] = "insert" => ~failed[t]
        /\ op[t] = "add" /\ pc[t] # "idle" => mutex = t
        /\ reg[t] <= created

\* Registrations are numbered in the order of their creation and keep their
\* readers; a reader is owned by one it belongs to.
Numbered ==
    /\ \A n \in Regs : n <= created => phase[n] # "unused" /\ members[n] \in Waitables
    /\ \A n \in listed : n <= created
    /\ \A r \in Readers : owner[r] # 0 => owner[r] <= created /\ r \in Of(owner[r])

\* The claim markers that add() still owes a commit.
Holds(t, i) ==
    \/ pc[t] = "claim" /\ i < idx[t]
    \/ pc[t] = "attach"
    \/ pc[t] = "commit" /\ i >= idx[t]
Marks(t, r) ==
    /\ pc[t] \in ClaimPcs
    /\ \E i \in DOMAIN members[reg[t]] :
        /\ members[reg[t]][i] = r
        /\ Holds(t, i) \/ (pc[t] = "clear" /\ i >= idx[t])

\* A marker belongs to one add(), and a marked reader to nobody else.
Claimed ==
    /\ \A t \in Threads : pc[t] \in ClaimPcs =>
         \A i \in DOMAIN members[reg[t]] : Holds(t, i) => claiming[members[reg[t]][i]]
    /\ \A r \in Readers : claiming[r] => owner[r] = 0 /\ \E t \in Threads : Marks(t, r)

\* Nobody knows the registration of an add() that has committed no reader.
Unpublished(t) ==
    pc[t] \in {"claim", "clear", "attach"} \/ (pc[t] = "commit" /\ idx[t] = 1)
Fresh ==
    \A t \in Threads :
        /\ Unpublished(t) => /\ phase[reg[t]] = "Attached"
                             /\ \A u \in Threads : u # t => reg[u] # reg[t]
                             /\ \A r \in Readers : owner[r] # reg[t]
        /\ pc[t] \in ClaimPcs \union {"insert"} => reg[t] \notin listed

\* The thread that won the exchange of phase is alone with its registration ...
Holder(t) == pc[t] \in HoldPcs /\ (op[t] = "add" => failed[t])
OneHolder ==
    \A t \in Threads : Holder(t) =>
        /\ phase[reg[t]] = "Detaching"
        /\ \A u \in Threads : Holder(u) /\ reg[u] = reg[t] => u = t

\* ... except for the add() that found it detached before it was listed: the
\* other one destroys the endpoint, and cannot finish while add() has mutex_.
Adding(t) ==
    op[t] = "add" /\ ~failed[t] /\ pc[t] \in {"attach", "commit", "insert"} \union LoopPcs
Detacher(n) ==
    \E t \in Threads : op[t] = "close" /\ reg[t] = n /\ pc[t] \in HoldPcs \union {"poison"}
Alone(t) ==
    \A u \in Threads : u # t /\ reg[u] = reg[t] /\ pc[u] # "idle" => op[u] = "close"
Untouched(t) == \A r \in Of(reg[t]) : lifecycle[r] = "Open"
Heading(t) ==
    \A u \in Threads : Closer(u) /\ arg[u] \in Of(reg[t]) /\ pc[u] # "close_wait" =>
        reg[u] = reg[t] /\ pc[u] \notin ClosePcs
Cleared(t) ==
    \A r \in Of(reg[t]) : owner[r] # reg[t] /\ ~claiming[r] => Detacher(reg[t])
Overtaken(t) == phase[reg[t]] # "Attached" \/ pc[t] \in LoopPcs => Detacher(reg[t])
AddAhead ==
    \A t \in Threads : Adding(t) =>
        Alone(t) /\ Untouched(t) /\ Heading(t) /\ Cleared(t) /\ Overtaken(t)

\* A destructor that has waited for the claim keeps new ones away; those of the
\* readers of one endpoint do not overlap.
Apart == \A t, u \in Threads : Closer(t) /\ Closer(u) /\ t # u => ~Together(arg[t], arg[u])
GivenUp ==
    /\ \A r \in Readers : lifecycle[r] # "Open" => closing[r] /\ ~claiming[r]
    /\ \A r \in deleted : owner[r] = 0 /\ lifecycle[r] # "Open"
Destroying(t) ==
    /\ closing[arg[t]] /\ (pc[t] # "close_wait" => ~claiming[arg[t]])
    /\ pc[t] = "close_wait" => ~failed[t]
    /\ pc[t] = "close_delete" => lifecycle[arg[t]] # "Open" /\ ~failed[t]
Closed == Apart /\ GivenUp /\ \A t \in Threads : Closer(t) => Destroying(t)

\* The registration of the reader a destructor closes is gone when the loop over
\* the readers has passed it.
Passed(t) ==
    \/ pc[t] \in LoopPcs /\ \E j \in DOMAIN members[reg[t]] :
                               j < idx[t] /\ members[reg[t]][j] = arg[t]
    \/ pc[t] = "rel_delete" /\ Reader(t) = arg[t]
    \/ pc[t] \in {"erase", "close_delete"}
    \/ pc[t] = "close_end" /\ ~failed[t]
CloserReleases ==
    \A t \in Threads : Closer(t) =>
        /\ pc[t] \in HoldPcs \union {"detach"} =>
             arg[t] \in Of(reg[t]) /\ owner[arg[t]] \in {0, reg[t]} /\ ~failed[t]
        /\ pc[t] = "poison" => failed[t] /\ arg[t] \in Of(reg[t])
        /\ Passed(t) => owner[arg[t]] = 0

\* A reader registered on its own is released when its registration is erased.
SingleReleased ==
    /\ \A t \in Threads : Holder(t) /\ pc[t] \in {"rel_delete", "erase"} =>
         (Len(members[reg[t]]) = 1 => owner[members[reg[t]][1]] # reg[t])
    /\ \A n \in Regs : phase[n] = "Detached" =>
         (Len(members[n]) = 1 => owner[members[n][1]] # n)

\* The condition a thread is about to detach is that of a reader that exists.
Detachable ==
    \A t \in Threads : pc[t] = "rel_native" =>
        \/ owner[Reader(t)] = reg[t]
        \/ lifecycle[Reader(t)] = "Open" /\ (op[t] = "close" \/ (op[t] = "add" /\ ~failed[t]))

\* A condition the native WaitSet holds is known to its registration, which owns
\* the reader or is about to.  Not so when the native detach of a rollback may
\* fail: its result is ignored.
Backed(n, r) ==
    \/ owner[r] = n
    \/ \E t \in Threads : /\ reg[t] = n /\ pc[t] \in {"attach", "commit"}
                          /\ \E i \in DOMAIN members[n] : members[n][i] = r /\ Holds(t, i)
NativeInv ==
    /\ native \subseteq condition
    /\ \A n \in Regs, r \in Readers : <<n, r>> \in native => Backed(n, r)
    /\ \A t \in Threads : pc[t] = "rel_clear" => <<reg[t], Reader(t)>> \notin native
NativeKept == "rollback" \notin Failing => NativeInv

RegInv ==
    /\ TypeOK /\ Shape /\ Numbered /\ Claimed /\ Fresh /\ OneHolder /\ AddAhead /\ Closed
    /\ CloserReleases /\ SingleReleased /\ Detachable /\ NativeKept

-----------------------------------------------------------------------------
(* What the steps share.                                                   *)

\* A step of one thread leaves what the others are doing alone.
Elsewhere(t) ==
    \A u \in Threads : u # t =>
        /\ pc'[u] = pc[u] /\ op'[u] = op[u] /\ reg'[u] = reg[u] /\ idx'[u] = idx[u]
        /\ arg'[u] = arg[u] /\ failed'[u] = failed[u]

\* On to the next reader, or after the last one to l.
Advances(t, here, l) ==
    \/ idx[t] = Len(members[reg[t]]) /\ idx'[t] = 1 /\ pc'[t] = l
    \/ idx[t] < Len(members[reg[t]]) /\ idx'[t] = idx[t] + 1 /\ pc'[t] = here

\* The type invariant by the kind of what a variable belongs to.
PlainTyped ==
    /\ mutex \in Threads \union {NoThread} /\ poisoned \in BOOLEAN
    /\ listed \subseteq Regs /\ created \in 0..MaxRegistrations
    /\ condition \subseteq Pairs /\ native \subseteq Pairs /\ deleted \subseteq Readers
    /\ calls \in [Threads -> 0..MaxCalls] /\ faults \in 0..MaxFaults
RegsTyped ==
    /\ members \in [Regs -> Waitables \union {<< >>}]
    /\ phase \in [Regs -> {"unused", "Attached", "Detaching", "Detached"}]
ReadersTyped ==
    /\ callback \in [Readers -> Threads \union {NoThread}]
    /\ claiming \in [Readers -> BOOLEAN] /\ closing \in [Readers -> BOOLEAN]
    /\ owner \in [Readers -> 0..MaxRegistrations]
    /\ lifecycle \in [Readers -> {"Open", "DeleteDeferredByWaitSet", "Closed"}]
ThreadsTyped ==
    /\ pc \in [Threads -> Pcs] /\ op \in [Threads -> AllOperations \union {"none"}]
    /\ reg \in [Threads -> 0..MaxRegistrations] /\ arg \in [Threads -> Readers]
    /\ idx \in [Threads -> Nat \ {0}] /\ failed \in [Threads -> BOOLEAN]
Within(t) == idx[t] = 1 \/ (reg[t] # 0 /\ idx[t] \in DOMAIN members[reg[t]])

\* Where a thread at a reader of a registration is: at a member of its vector,
\* which has no reader twice; of the threads in add() it is the only one.
AtReader(t) ==
    /\ reg[t] \in Regs /\ reg[t] <= created /\ created \in Nat
    /\ members[reg[t]] \in Waitables /\ Len(members[reg[t]]) \in Nat \ {0}
    /\ DOMAIN members[reg[t]] = 1..Len(members[reg[t]])
    /\ idx[t] \in 1..Len(members[reg[t]])
    /\ Reader(t) = members[reg[t]][idx[t]] /\ Reader(t) \in Readers /\ Reader(t) \in Of(reg[t])
    /\ \A i \in 1..Len(members[reg[t]]) :
         members[reg[t]][i] \in Readers /\ (members[reg[t]][i] = Reader(t) => i = idx[t])
    /\ op[t] = "add" => \A u \in Threads : u # t /\ pc[u] # "idle" => op[u] # "add"

\* Such a place is where every thread with a registration at hand is.
LEMMA WorkTyped ==
  ASSUME RegInv, NEW t \in Threads, pc[t] \in WorkPcs
  PROVE  AtReader(t)
  <1>1. reg[t] # 0 /\ reg[t] <= created /\ idx[t] \in DOMAIN members[reg[t]]
    BY DEF RegInv, Shape
  <1>2. reg[t] \in Regs /\ created \in Nat
    BY <1>1 DEF RegInv, TypeOK, Regs
  <1>3. members[reg[t]] \in Waitables
    BY <1>1, <1>2 DEF RegInv, Numbered
  <1>4. PICK s \in Seq(Readers) : s = members[reg[t]] /\ s # << >>
    BY <1>3, ReaderRegistrationAssumption
  <1>5. Len(s) \in Nat \ {0} /\ DOMAIN s = 1..Len(s) /\ \A i \in 1..Len(s) : s[i] \in Readers
    BY <1>4
  <1>6. \A i, j \in DOMAIN s : s[i] = s[j] => i = j
    BY <1>3, <1>4, ReaderRegistrationAssumption
  <1>7. op[t] = "add" => \A u \in Threads : u # t /\ pc[u] # "idle" => op[u] # "add"
    <2>1. pc[t] # "idle"
      BY DEF WorkPcs, ClaimPcs, HoldPcs, LoopPcs
    <2>2. QED
      BY <2>1 DEF RegInv, Shape
  <1>8. QED
    BY <1>1, <1>2, <1>3, <1>4, <1>5, <1>6, <1>7 DEF AtReader, Reader, Of

\* The only reader of a registration of one is a reader.
LEMMA OnlyReader ==
  ASSUME RegInv, NEW n \in Regs, Len(members[n]) = 1
  PROVE  members[n][1] \in Readers
  <1>1. members[n] \in Waitables \union {<< >>}
    BY DEF RegInv, TypeOK
  <1>2. members[n] # << >>
    OBVIOUS
  <1>3. PICK s \in Seq(Readers) : s = members[n]
    BY <1>1, <1>2, ReaderRegistrationAssumption
  <1>4. QED
    BY <1>3

\* Readers of one registration belong to one endpoint.
LEMMA OfTogether ==
  ASSUME RegInv, NEW n \in Regs, n <= created, NEW r \in Of(n), NEW s \in Of(n)
  PROVE  Together(r, s)
  <1>1. members[n] \in Waitables
    BY DEF RegInv, Numbered
  <1>2. {r, s} \subseteq {members[n][i] : i \in DOMAIN members[n]}
    BY DEF Of
  <1>3. QED
    BY <1>1, <1>2 DEF Together

\* Of the destructors of one endpoint only one is at work: the detacher.
LEMMA DetacherIs ==
  ASSUME RegInv, NEW a \in Threads, Adding(a), Detacher(reg[a]),
         NEW t \in Threads, Closer(t), arg[t] \in Of(reg[a])
  PROVE  reg[t] = reg[a] /\ pc[t] \in HoldPcs \union {"poison"}
  <1>1. PICK d \in Threads : op[d] = "close" /\ reg[d] = reg[a] /\ pc[d] \in HoldPcs \union {"poison"}
    BY DEF Detacher
  <1>2. Closer(d)
    BY <1>1 DEF Closer, HoldPcs, LoopPcs
  <1>3. arg[d] \in Of(reg[a])
    BY <1>1, <1>2 DEF RegInv, CloserReleases
  <1>4. reg[a] \in Regs /\ reg[a] <= created
    <2>1. pc[a] \in WorkPcs
      BY DEF Adding, WorkPcs, ClaimPcs, HoldPcs, LoopPcs
    <2>2. QED
      BY <2>1, WorkTyped DEF AtReader
  <1>5. Together(arg[d], arg[t])
    BY <1>3, <1>4, OfTogether
  <1>6. d = t
    BY <1>2, <1>5 DEF RegInv, Closed, Apart
  <1>7. QED
    BY <1>1, <1>6

-----------------------------------------------------------------------------
(* One lemma for each action.  In all of them <1>f says where thread t is,  *)
(* <1>o which operation it is in, <1>e what its step changes and what it    *)
(* leaves alone, <1>x the same as functional updates; then follow the parts *)
(* of the invariant in their order.                                         *)

\* A step that changes neither conditions nor owners, and moves no thread that
\* backs a condition or is about to clear one.
LEMMA NativeStays ==
  ASSUME RegInv, UNCHANGED <<members, owner, native, condition>>,
         \A u \in Threads : pc[u] \in {"attach", "commit"} \/ pc'[u] = "rel_clear" =>
             pc'[u] = pc[u] /\ reg'[u] = reg[u] /\ idx'[u] = idx[u]
  PROVE  NativeKept'
  <1> SUFFICES ASSUME "rollback" \notin Failing PROVE NativeInv'
    BY DEF NativeKept
  <1>1. /\ native \subseteq condition
        /\ \A m \in Regs, x \in Readers : <<m, x>> \in native => Backed(m, x)
        /\ \A u \in Threads : pc[u] = "rel_clear" => <<reg[u], Reader(u)>> \notin native
    BY DEF RegInv, NativeKept, NativeInv
  <1>2. \A m \in Regs, x \in Readers : Backed(m, x) => Backed(m, x)'
    BY DEF Backed, Holds
  <1>3. \A u \in Threads : pc'[u] = "rel_clear" =>
            pc[u] = "rel_clear" /\ reg'[u] = reg[u] /\ Reader(u)' = Reader(u)
    BY DEF Reader
  <1>4. QED
    BY <1>1, <1>2, <1>3 DEF NativeInv

\* add() takes mutex_ and numbers a new registration that nobody knows yet.
LEMMA AddKeeps ==
  ASSUME RegInv, NEW t \in Threads, NEW s \in Waitables, Add(t, s)
  PROVE  RegInv'
  <1>m. \A u \in Threads : pc[u] # "idle" => op[u] # "add"
    BY ReaderRegistrationAssumption DEF RegInv, Shape, Add
  <1>e. /\ Elsewhere(t)
        /\ pc[t] = "idle" /\ pc'[t] = "claim" /\ op'[t] = "add" /\ idx'[t] = 1 /\ ~failed'[t]
        /\ reg'[t] = created + 1 /\ arg'[t] = arg[t]
        /\ created' = created + 1 /\ created + 1 \in Regs
        /\ mutex = NoThread /\ mutex' = t
        /\ members'[created + 1] = s /\ \A n \in Regs : n # created + 1 => members'[n] = members[n]
        /\ phase'[created + 1] = "Attached" /\ \A n \in Regs : n # created + 1 => phase'[n] = phase[n]
        /\ UNCHANGED <<listed, condition, native, claiming, closing, owner, lifecycle, deleted>>
    BY ReaderRegistrationAssumption
    DEF Add, Begin, Goto, Elsewhere, RegInv, TypeOK, nativeVars, readerVars, Regs
  <1>p. /\ \A u \in Threads : reg[u] # created + 1 /\ (reg[u] # 0 => reg[u] \in Regs)
        /\ \A x \in Readers : owner[x] # created + 1 /\ (owner[x] # 0 => owner[x] \in Regs)
        /\ \A n \in listed : n # created + 1
        /\ \A u \in Threads : pc[u] \notin ClaimPcs \union {"insert", "add_unlock"}
    <2>1. created \in Nat /\ \A u \in Threads : reg[u] <= created /\ reg[u] \in 0..MaxRegistrations
      BY DEF RegInv, TypeOK, Shape
    <2>2. \A x \in Readers : owner[x] \in 0..MaxRegistrations /\ (owner[x] # 0 => owner[x] <= created)
      BY DEF RegInv, TypeOK, Numbered
    <2>3. \A n \in listed : n <= created /\ n \in Regs
      BY DEF RegInv, TypeOK, Numbered
    <2>4. \A u \in Threads : pc[u] \notin ClaimPcs \union {"insert", "add_unlock"}
      BY <1>m DEF RegInv, Shape, ClaimPcs
    <2>5. QED
      BY <2>1, <2>2, <2>3, <2>4 DEF Regs
  <1>q. /\ \A u \in Threads : u # t => reg'[u] = reg[u]
        /\ \A u \in Threads : u # t /\ reg[u] # 0 => members'[reg[u]] = members[reg[u]]
        /\ \A u \in Threads : u # t /\ reg[u] # 0 => phase'[reg[u]] = phase[reg[u]]
        /\ \A x \in Readers : owner[x] # 0 => members'[owner[x]] = members[owner[x]]
    BY <1>p, <1>e DEF Elsewhere
  <1>x. /\ pc' = [pc EXCEPT ![t] = pc'[t]]
        /\ op' = [op EXCEPT ![t] = op'[t]]
        /\ idx' = [idx EXCEPT ![t] = idx'[t]]
        /\ failed' = [failed EXCEPT ![t] = failed'[t]]
        /\ reg' = [reg EXCEPT ![t] = reg'[t]]
        /\ calls' = [calls EXCEPT ![t] = calls'[t]]
        /\ members' = [members EXCEPT ![created + 1] = members'[created + 1]]
        /\ phase' = [phase EXCEPT ![created + 1] = phase'[created + 1]]
    BY DEF RegInv, TypeOK, Regs, Add, Begin, Goto, nativeVars, readerVars
  <1>y. UNCHANGED <<arg>>
    BY DEF Add, Begin, Goto
  <1>1. TypeOK'
    <2>1. PlainTyped'
      BY <1>e, ReaderRegistrationAssumption
      DEF RegInv, TypeOK, PlainTyped, Pairs, Regs, Add, Begin, Goto, nativeVars, readerVars
    <2>2. RegsTyped'
      BY DEF RegInv, TypeOK, RegsTyped, Add, Begin, Goto, nativeVars, readerVars
    <2>3. ReadersTyped'
      BY DEF RegInv, TypeOK, ReadersTyped, Add, Begin, Goto, nativeVars, readerVars
    <2>4. ThreadsTyped'
      <3>1. pc'[t] \in Pcs
        BY <1>e DEF RegInv, TypeOK, Pcs, Regs
      <3>2. op'[t] \in AllOperations \union {"none"}
        BY <1>e DEF RegInv, TypeOK, AllOperations, Regs
      <3>3. reg'[t] \in 0..MaxRegistrations
        BY <1>e DEF RegInv, TypeOK, Regs
      <3>4. idx'[t] \in Nat \ {0}
        BY <1>e DEF RegInv, TypeOK, Regs
      <3>5. failed' \in [Threads -> BOOLEAN]
        BY DEF RegInv, TypeOK, Add, Begin, Goto
      <3>6. QED
        BY <1>x, <1>y, <3>1, <3>2, <3>3, <3>4, <3>5 DEF RegInv, TypeOK, ThreadsTyped
    <2>5. Within(t)'
      BY <1>e DEF RegInv, TypeOK, Shape, Within, Regs
    <2>6. \A u \in Threads : u # t => Within(u)'
      BY <1>e, <1>p, <1>q DEF RegInv, TypeOK, Within, Elsewhere
    <2>7. QED
      BY <2>1, <2>2, <2>3, <2>4, <2>5, <2>6
      DEF TypeOK, PlainTyped, RegsTyped, ReadersTyped, ThreadsTyped, Within
  <1>2. Shape'
    <2>1. s \in Seq(Readers) /\ s # << >>
      BY ReaderRegistrationAssumption
    <2>2. 1 \in DOMAIN s
      BY <2>1
    <2>3. created \in Nat /\ created' \in Nat /\ \A u \in Threads : reg[u] \in Nat /\ reg[u] <= created
      BY <1>e DEF RegInv, Shape, TypeOK, Regs
    <2>4. QED
      BY <1>m, <1>e, <1>p, <1>q, <2>2, <2>3
      DEF RegInv, Shape, ClaimPcs, HoldPcs, LoopPcs, WorkPcs, ClosePcs, Elsewhere
  <1>3. Numbered'
    <2>1. created \in Nat
      BY DEF RegInv, TypeOK
    <2>2. \A n \in Regs : n <= created' => phase'[n] # "unused" /\ members'[n] \in Waitables
      BY <1>e, <2>1 DEF RegInv, Numbered, Regs
    <2>3. \A n \in listed' : n <= created'
      <3>1. \A n \in listed : n <= created /\ n \in Nat
        BY DEF RegInv, Numbered, TypeOK, Regs
      <3>2. QED
        BY <1>e, <2>1, <3>1
    <2>4. \A x \in Readers : owner'[x] # 0 => owner'[x] <= created' /\ x \in Of(owner[x])'
      <3>1. \A x \in Readers : owner[x] # 0 => owner[x] <= created /\ x \in Of(owner[x])
        BY DEF RegInv, Numbered
      <3>2. \A x \in Readers : owner[x] \in Nat
        BY DEF RegInv, TypeOK
      <3>3. \A x \in Readers : owner[x] # 0 => Of(owner[x])' = Of(owner[x])
        BY <1>e, <1>q DEF Of
      <3>4. QED
        BY <1>e, <2>1, <3>1, <3>2, <3>3
    <2>5. QED
      BY <2>2, <2>3, <2>4 DEF Numbered, Of
  <1>4. Claimed'
    <2>1. \A x \in Readers : ~claiming[x]
      BY <1>p DEF RegInv, Claimed, Marks
    <2>2. \A u \in Threads : u # t => pc'[u] \notin ClaimPcs
      BY <1>e, <1>p DEF Elsewhere
    <2>3. \A i \in DOMAIN members'[reg'[t]] : ~Holds(t, i)'
      <3>1. s \in Seq(Readers)
        BY ReaderRegistrationAssumption
      <3>2. \A i \in DOMAIN s : ~(i < 1)
        BY <3>1
      <3>3. QED
        BY <1>e, <3>2 DEF Holds
    <2>4. QED
      BY <1>e, <2>1, <2>2, <2>3 DEF Claimed
  <1>5. Fresh'
    <2>1. \A u \in Threads : u # t => pc'[u] \notin ClaimPcs \union {"insert"}
      BY <1>e, <1>p DEF Elsewhere
    <2>2. /\ phase'[reg'[t]] = "Attached" /\ reg'[t] \notin listed'
          /\ \A u \in Threads : u # t => reg'[u] # reg'[t]
          /\ \A x \in Readers : owner'[x] # reg'[t]
      BY <1>e, <1>p, <1>q
    <2>3. QED
      BY <2>1, <2>2 DEF Fresh, Unpublished, ClaimPcs
  <1>6. OneHolder'
    <2>1. ~Holder(t)' /\ \A u \in Threads : u # t /\ Holder(u)' => Holder(u) /\ reg[u] # 0
      BY <1>e DEF RegInv, Shape, Holder, HoldPcs, LoopPcs, WorkPcs, Elsewhere
    <2>2. QED
      BY <1>q, <2>1 DEF RegInv, OneHolder
  <1>7. Closed'
    BY <1>e
    DEF RegInv, Closed, Apart, GivenUp, Destroying, Closer, WorkPcs, HoldPcs, LoopPcs, Shape,
        Elsewhere
  <1>8. AddAhead'
    BY <1>m, <1>e DEF RegInv, AddAhead, Adding, LoopPcs, ClosePcs, Shape, Elsewhere
  <1>9. CloserReleases'
    <2> SUFFICES ASSUME NEW u \in Threads, Closer(u)' PROVE
            /\ pc'[u] \in HoldPcs \union {"detach"} =>
                 arg'[u] \in Of(reg[u])' /\ owner'[arg'[u]] \in {0, reg'[u]} /\ ~failed'[u]
            /\ pc'[u] = "poison" => failed'[u] /\ arg'[u] \in Of(reg[u])'
            /\ Passed(u)' => owner'[arg'[u]] = 0
      BY DEF CloserReleases
    <2>1. u # t /\ Closer(u)
      BY <1>e DEF Closer, Elsewhere
    <2>2. pc[u] \in WorkPcs => reg[u] # 0
      BY DEF RegInv, Shape
    <2>3. pc[u] \in WorkPcs => Of(reg[u])' = Of(reg[u]) /\ members'[reg'[u]] = members[reg[u]]
      BY <1>q, <2>1, <2>2 DEF Of
    <2>4. Passed(u)' => Passed(u)
      BY <1>e, <2>1, <2>3 DEF Passed, Elsewhere, Reader, WorkPcs, HoldPcs, LoopPcs
    <2>5. QED
      BY <1>e, <2>1, <2>3, <2>4 DEF RegInv, CloserReleases, Elsewhere, WorkPcs, HoldPcs
  <1>10. SingleReleased'
    <2>1. \A u \in Threads : u # t /\ Holder(u)' => Holder(u) /\ reg[u] # 0
      BY <1>e DEF RegInv, Shape, Holder, HoldPcs, LoopPcs, WorkPcs, Elsewhere
    <2>2. ~Holder(t)'
      BY <1>e DEF Holder, HoldPcs, LoopPcs
    <2>3. QED
      BY <1>e, <1>q, <2>1, <2>2 DEF RegInv, SingleReleased, Elsewhere
  <1>11. Detachable'
    <2>1. \A u \in Threads : pc'[u] = "rel_native" => u # t /\ pc[u] = "rel_native" /\ reg[u] # 0
      BY <1>e DEF RegInv, Shape, WorkPcs, HoldPcs, LoopPcs, Elsewhere
    <2>2. \A u \in Threads : pc'[u] = "rel_native" => Reader(u)' = Reader(u)
      BY <1>e, <1>q, <2>1 DEF Reader, Elsewhere
    <2>3. QED
      BY <1>e, <2>1, <2>2 DEF RegInv, Detachable, Elsewhere
  <1>12. NativeKept'
    <2> SUFFICES ASSUME "rollback" \notin Failing PROVE NativeInv'
      BY DEF NativeKept
    <2>1. /\ native \subseteq condition
          /\ \A m \in Regs, x \in Readers : <<m, x>> \in native => Backed(m, x)
          /\ \A u \in Threads : pc[u] = "rel_clear" => <<reg[u], Reader(u)>> \notin native
      BY DEF RegInv, NativeKept, NativeInv
    <2>2. \A m \in Regs, x \in Readers : Backed(m, x) => Backed(m, x)'
      <3>1. \A u \in Threads : pc[u] \notin {"attach", "commit"}
        BY <1>p DEF ClaimPcs
      <3>2. QED
        BY <1>e, <3>1 DEF Backed
    <2>3. \A u \in Threads : pc'[u] = "rel_clear" =>
              u # t /\ pc[u] = "rel_clear" /\ reg'[u] = reg[u] /\ reg[u] # 0 /\ Reader(u)' = Reader(u)
      BY <1>e, <1>q DEF RegInv, Shape, WorkPcs, HoldPcs, LoopPcs, Elsewhere, Reader
    <2>4. QED
      BY <1>e, <2>1, <2>2, <2>3 DEF NativeInv
  <1>13. QED
    BY <1>1, <1>2, <1>3, <1>4, <1>5, <1>6, <1>7, <1>8, <1>9, <1>10, <1>11, <1>12 DEF RegInv

\* claim() marks one reader, or gives up at one that is taken or closing.
LEMMA ClaimKeeps ==
  ASSUME RegInv, NEW t \in Threads, Claim(t)
  PROVE  RegInv'
  <1>w. pc[t] \in WorkPcs
    BY DEF Claim, WorkPcs, ClaimPcs, HoldPcs, LoopPcs
  <1>f. AtReader(t)
    BY <1>w, WorkTyped
  <1>o. op[t] = "add"
    BY DEF RegInv, Shape, Claim, ClaimPcs, ClosePcs
  <1>e. /\ Elsewhere(t)
        /\ pc[t] = "claim"
        /\ op'[t] = op[t]
        /\ reg'[t] = reg[t]
        /\ arg'[t] = arg[t]
        /\ failed'[t] = failed[t]
        /\ \/ /\ claiming' = claiming /\ idx'[t] = 1 /\ pc'[t] = "clear"
           \/ /\ ~closing[Reader(t)] /\ owner[Reader(t)] = 0 /\ ~claiming[Reader(t)]
              /\ claiming'[Reader(t)] /\ \A r \in Readers : r # Reader(t) => claiming'[r] = claiming[r]
              /\ Advances(t, "claim", "attach")
        /\ UNCHANGED <<mutex, listed, created, members, phase, condition, native, closing,
                       owner, lifecycle, deleted>>
    <2>1. Elsewhere(t)
      BY DEF RegInv, TypeOK, Elsewhere, Claim, Reader, LastReader, Free, Advance, Goto
    <2>2. UNCHANGED <<mutex, listed, created, members, phase, condition, native, closing,
                      owner, lifecycle, deleted>>
      BY DEF Claim, Reader, LastReader, Free, Advance, Goto, setVars, nativeVars, boundVars
    <2>3. /\ pc[t] = "claim"
          /\ op'[t] = op[t]
          /\ reg'[t] = reg[t]
          /\ arg'[t] = arg[t]
          /\ failed'[t] = failed[t]
      BY DEF RegInv, TypeOK, Claim, Reader, LastReader, Free, Advance, Goto
    <2>4. \/ /\ claiming' = claiming /\ idx'[t] = 1 /\ pc'[t] = "clear"
          \/ /\ ~closing[Reader(t)] /\ owner[Reader(t)] = 0 /\ ~claiming[Reader(t)]
             /\ claiming'[Reader(t)] /\ \A r \in Readers : r # Reader(t) => claiming'[r] = claiming[r]
             /\ Advances(t, "claim", "attach")
      BY <1>f, <2>3
      DEF RegInv, TypeOK, AtReader, Advances, Claim, Reader, LastReader, Free, Advance, Goto
    <2>5. QED
      BY <2>1, <2>2, <2>3, <2>4
  <1>x. /\ pc' = [pc EXCEPT ![t] = pc'[t]]
        /\ idx' = [idx EXCEPT ![t] = idx'[t]]
        /\ claiming' = [claiming EXCEPT ![Reader(t)] = claiming'[Reader(t)]]
    BY DEF RegInv, TypeOK, Regs, Claim, Reader, LastReader, Free, Advance, Goto, setVars,
           nativeVars, boundVars
  <1>y. UNCHANGED <<op, reg, arg, failed>>
    BY DEF Claim, Reader, LastReader, Free, Advance, Goto
  <1>1. TypeOK'
    <2>1. PlainTyped'
      BY DEF RegInv, TypeOK, PlainTyped, Pairs, Regs, Claim, Reader, LastReader, Free,
             Advance, Goto, setVars, nativeVars, boundVars
    <2>2. RegsTyped'
      BY <1>e DEF RegInv, TypeOK, RegsTyped
    <2>3. ReadersTyped'
      <3>1. /\ closing' \in [Readers -> BOOLEAN]
            /\ owner' \in [Readers -> 0..MaxRegistrations]
            /\ lifecycle' \in [Readers -> {"Open", "DeleteDeferredByWaitSet", "Closed"}]
        BY <1>e DEF RegInv, TypeOK
      <3>2. callback' \in [Readers -> Threads \union {NoThread}]
        <4>1. callback \in [Readers -> Threads \union {NoThread}]
          BY DEF RegInv, TypeOK
        <4>2. callback' = callback \/ callback' = [callback EXCEPT ![Reader(t)] = t]
          BY DEF Claim, Reader
        <4>3. QED
          BY <4>1, <4>2
      <3>3. claiming' \in [Readers -> BOOLEAN]
        <4>1. claiming \in [Readers -> BOOLEAN]
          BY DEF RegInv, TypeOK
        <4>2. QED
          BY <4>1 DEF Claim, Reader, LastReader, Free, Advance, Goto
      <3>4. QED
        BY <3>1, <3>2, <3>3 DEF ReadersTyped
    <2>4. ThreadsTyped'
      <3>1. pc'[t] \in Pcs
        BY <1>e DEF RegInv, TypeOK, Pcs, Advances, Regs
      <3>2. idx'[t] \in Nat \ {0}
        BY <1>f, <1>e DEF AtReader, Advances
      <3>3. QED
        BY <1>x, <1>y, <3>1, <3>2 DEF RegInv, TypeOK, ThreadsTyped
    <2>5. Within(t)'
      <3>1. idx'[t] \in 1..Len(members[reg[t]])
        BY <1>f, <1>e DEF AtReader, Advances
      <3>2. QED
        BY <1>f, <1>e, <3>1 DEF Within, AtReader, Regs
    <2>6. \A u \in Threads : u # t => Within(u)'
      BY <1>e DEF RegInv, TypeOK, Within, Elsewhere
    <2>7. QED
      BY <2>1, <2>2, <2>3, <2>4, <2>5, <2>6
      DEF TypeOK, PlainTyped, RegsTyped, ReadersTyped, ThreadsTyped, Within
  <1>2. Shape'
    <2>1. /\ reg'[t] = reg[t] /\ reg[t] # 0 /\ reg[t] <= created' /\ op'[t] = op[t]
          /\ idx'[t] \in DOMAIN members'[reg'[t]] /\ mutex' = mutex /\ failed'[t] = failed[t]
      BY <1>f, <1>e DEF AtReader, Advances, Regs
    <2>2. op[t] = "add" => mutex = t
      BY <1>e DEF RegInv, Shape
    <2>3. /\ pc[t] # "idle" /\ op[t] \in {"add", "remove", "close"}
          /\ pc'[t] \in {"detach", "rel_failed", "erase"} /\ op[t] = "add" => failed[t]
          /\ pc'[t] \notin {"idle", "close_wait", "detach", "insert"} \union ClosePcs
          /\ pc'[t] \in ClaimPcs \union {"add_unlock"} => op[t] = "add"
          /\ pc'[t] = "erase" => idx'[t] = 1
      BY <1>e DEF RegInv, Shape, Advances, ClaimPcs, ClosePcs
    <2>4. QED
      BY <1>e, <2>1, <2>2, <2>3 DEF RegInv, Shape, Elsewhere, ClaimPcs
  <1>3. Numbered'
    BY <1>e DEF RegInv, Numbered, Of, Elsewhere, Advances, Reader
  <1>4. Claimed'
    <2>1. \A u \in Threads : u # t => pc[u] \notin ClaimPcs /\ pc'[u] \notin ClaimPcs
      BY <1>e DEF RegInv, Shape, Elsewhere, ClaimPcs
    <2>2. pc[t] \in ClaimPcs
      BY <1>e DEF ClaimPcs
    <2>3. /\ \A i \in DOMAIN members[reg[t]] : Holds(t, i) => claiming[members[reg[t]][i]]
          /\ \A x \in Readers : claiming[x] => owner[x] = 0 /\ Marks(t, x)
      BY <2>1, <2>2 DEF RegInv, Claimed, Marks
    <2>4. \A i \in DOMAIN members[reg[t]] : /\ i \in Nat /\ members[reg[t]][i] \in Readers
                                           /\ (members[reg[t]][i] = Reader(t) <=> i = idx[t])
      BY <1>f DEF AtReader
    <2>5. \A i \in DOMAIN members[reg[t]] : Holds(t, i)' =>
             i < idx[t] \/ (i = idx[t] /\ claiming'[Reader(t)])
      BY <1>f, <1>e, <2>4 DEF Holds, AtReader, Advances
    <2>6. \A i \in DOMAIN members[reg[t]] : Holds(t, i)' => claiming'[members[reg[t]][i]]
      <3>1. \A i \in DOMAIN members[reg[t]] : i < idx[t] => claiming[members[reg[t]][i]]
        BY <1>e, <2>3 DEF Holds
      <3>2. \A x \in Readers : claiming[x] => claiming'[x]
        BY <1>e
      <3>3. QED
        BY <2>4, <2>5, <3>1, <3>2
    <2>7. \A i \in DOMAIN members[reg[t]] : i < idx[t] \/ (i = idx[t] /\ pc'[t] # "clear") =>
             Holds(t, i)' \/ (pc'[t] = "clear" /\ i >= idx'[t])
      BY <1>f, <1>e, <2>4 DEF Holds, AtReader, Advances
    <2>8. \A x \in Readers : claiming'[x] => owner'[x] = 0 /\ Marks(t, x)'
      <3> SUFFICES ASSUME NEW x \in Readers, claiming'[x] PROVE owner'[x] = 0 /\ Marks(t, x)'
        OBVIOUS
      <3>1. CASE claiming[x]
        <4>1. PICK i \in DOMAIN members[reg[t]] : members[reg[t]][i] = x /\ i < idx[t]
          BY <1>e, <2>3, <3>1 DEF Marks, Holds
        <4>2. QED
          BY <1>e, <2>3, <2>7, <3>1, <4>1 DEF Marks, ClaimPcs, Advances
      <3>2. CASE ~claiming[x]
        <4>1. x = Reader(t) /\ owner[x] = 0 /\ Advances(t, "claim", "attach")
          BY <1>e, <3>2
        <4>2. pc'[t] # "clear" /\ pc'[t] \in ClaimPcs
          BY <4>1 DEF Advances, ClaimPcs
        <4>3. idx[t] \in DOMAIN members[reg[t]] /\ members[reg[t]][idx[t]] = Reader(t)
          BY <1>f DEF AtReader
        <4>4. QED
          BY <1>e, <2>7, <4>1, <4>2, <4>3 DEF Marks
      <3>3. QED
        BY <3>1, <3>2
    <2>9. QED
      BY <1>e, <2>1, <2>6, <2>8 DEF Claimed
  <1>5. Fresh'
    BY <1>e DEF RegInv, Fresh, Unpublished, ClaimPcs, Shape, Elsewhere, Advances, Reader
  <1>6. OneHolder'
    BY <1>e DEF RegInv, OneHolder, Holder, HoldPcs, LoopPcs, Shape, Elsewhere, Advances, Reader
  <1>7. Closed'
    <2>1. /\ arg' = arg /\ ~Closer(t) /\ ~Closer(t)'
          /\ \A u \in Threads : (Closer(u)' <=> Closer(u)) /\ (Closer(u) => u # t)
      BY <1>o, <1>e DEF Closer, Elsewhere, Claim
    <2>2. Apart'
      BY <2>1 DEF RegInv, Closed, Apart
    <2>3. GivenUp'
      BY <1>e DEF RegInv, Closed, GivenUp
    <2>4. \A u \in Threads : Closer(u)' => Destroying(u)'
      <3> SUFFICES ASSUME NEW u \in Threads, Closer(u)' PROVE Destroying(u)'
        OBVIOUS
      <3>1. u # t /\ Destroying(u) /\ arg[u] \in Readers
        BY <2>1 DEF RegInv, Closed, TypeOK
      <3>2. QED
        BY <1>e, <3>1 DEF Elsewhere, Destroying
    <2>5. QED
      BY <2>2, <2>3, <2>4 DEF Closed
  <1>8. AddAhead'
    <2> SUFFICES ASSUME NEW a \in Threads, Adding(a)'
                 PROVE  /\ Alone(a)' /\ Untouched(a)' /\ Heading(a)' /\ Cleared(a)' /\ Overtaken(a)'
      BY DEF AddAhead
    <2>1. a = t
      BY <1>o, <1>e DEF Adding, Elsewhere, RegInv, Shape, LoopPcs
    <2>2. Unpublished(t)' /\ pc'[t] \in ClaimPcs
      BY <1>e, <2>1 DEF Unpublished, Adding, Advances, ClaimPcs, LoopPcs
    <2>3. \A x \in Of(reg[t])' : x \in Readers /\ claiming'[x]
      <3>1. \A i \in DOMAIN members'[reg'[t]] : Holds(t, i)' /\ members'[reg'[t]][i] \in Readers
        BY <1>f, <1>e, <2>1, <2>2 DEF Holds, AtReader, Adding, Advances, Unpublished, LoopPcs
      <3>2. \A i \in DOMAIN members'[reg'[t]] : claiming'[members'[reg'[t]][i]]
        BY <1>4, <2>2, <3>1 DEF Claimed
      <3>3. QED
        BY <3>1, <3>2 DEF Of
    <2>4. phase'[reg'[t]] = "Attached" /\ \A u \in Threads : u # t => reg'[u] # reg'[t]
      BY <1>5, <2>2 DEF Fresh
    <2>5. Alone(t)'
      BY <2>4 DEF Alone
    <2>6. Untouched(t)' /\ Cleared(t)'
      BY <1>7, <2>3 DEF Closed, GivenUp, Untouched, Cleared
    <2>7. Heading(t)'
      BY <1>7, <2>3 DEF Closed, Destroying, Heading
    <2>8. Overtaken(t)'
      BY <2>2, <2>4 DEF Overtaken, ClaimPcs, LoopPcs
    <2>9. QED
      BY <2>1, <2>5, <2>6, <2>7, <2>8
  <1>9. CloserReleases'
    <2>1. /\ \A u \in Threads : Closer(u)' => u # t /\ Closer(u)
          /\ \A u \in Threads : u # t => (Passed(u)' <=> Passed(u))
      BY <1>o, <1>e DEF Closer, Passed, Reader, Elsewhere
    <2>2. QED
      BY <1>e, <2>1 DEF RegInv, CloserReleases, Elsewhere, Of
  <1>10. SingleReleased'
    BY <1>o, <1>e
    DEF RegInv, SingleReleased, Holder, HoldPcs, LoopPcs, Shape, Elsewhere, Advances, Reader
  <1>11. Detachable'
    BY <1>e DEF RegInv, Detachable, Reader, Shape, Elsewhere, Advances
  <1>12. NativeKept'
    BY <1>e, NativeStays DEF Elsewhere, Advances
  <1>13. QED
    BY <1>1, <1>2, <1>3, <1>4, <1>5, <1>6, <1>7, <1>8, <1>9, <1>10, <1>11, <1>12 DEF RegInv

\* clear_reader_claims() takes one marker back.
LEMMA ClearKeeps ==
  ASSUME RegInv, NEW t \in Threads, Clear(t)
  PROVE  RegInv'
  <1>w. pc[t] \in WorkPcs
    BY DEF Clear, WorkPcs, ClaimPcs, HoldPcs, LoopPcs
  <1>f. AtReader(t)
    BY <1>w, WorkTyped
  <1>o. op[t] = "add"
    BY DEF RegInv, Shape, Clear, ClaimPcs, ClosePcs
  <1>e. /\ Elsewhere(t)
        /\ pc[t] = "clear"
        /\ op'[t] = op[t]
        /\ reg'[t] = reg[t]
        /\ arg'[t] = arg[t]
        /\ failed'[t] = failed[t]
        /\ ~claiming'[Reader(t)] /\ \A r \in Readers : r # Reader(t) => claiming'[r] = claiming[r]
        /\ Advances(t, "clear", "add_unlock")
        /\ UNCHANGED <<mutex, listed, created, members, phase, condition, native, closing,
                       owner, lifecycle, deleted>>
    BY <1>f
    DEF Clear, Unclaim, Reader, LastReader, Free, Advance, Goto, Elsewhere, RegInv, TypeOK,
        setVars, nativeVars, boundVars, Regs, AtReader, Advances
  <1>x. /\ pc' = [pc EXCEPT ![t] = pc'[t]]
        /\ idx' = [idx EXCEPT ![t] = idx'[t]]
        /\ claiming' = [claiming EXCEPT ![Reader(t)] = claiming'[Reader(t)]]
    BY <1>f
    DEF RegInv, TypeOK, AtReader, Regs, Clear, Unclaim, Reader, LastReader, Free, Advance,
        Goto, setVars, nativeVars, boundVars
  <1>y. UNCHANGED <<op, reg, arg, failed>>
    BY DEF Clear, Unclaim, Reader, LastReader, Free, Advance, Goto
  <1>1. TypeOK'
    <2>1. PlainTyped'
      <3>1. /\ mutex' \in Threads \union {NoThread}
            /\ created' \in 0..MaxRegistrations
            /\ listed' \in SUBSET Regs
            /\ condition' \in SUBSET Pairs
            /\ native' \in SUBSET Pairs
            /\ deleted' \in SUBSET Readers
        BY <1>e DEF RegInv, TypeOK
      <3>2. poisoned' \in BOOLEAN
        BY DEF RegInv, TypeOK, Regs, Clear, Unclaim, Reader, LastReader, Free, Advance, Goto,
               setVars, nativeVars, boundVars
      <3>3. faults' \in 0..MaxFaults
        <4>1. faults' = faults
          BY DEF Clear, Unclaim, Reader, LastReader, Free, Advance, Goto, boundVars
        <4>2. QED
          BY <4>1 DEF RegInv, TypeOK
      <3>4. calls' \in [Threads -> 0..MaxCalls]
        <4>1. calls' = calls
          BY DEF Clear, Unclaim, Reader, LastReader, Free, Advance, Goto, boundVars
        <4>2. QED
          BY <4>1 DEF RegInv, TypeOK
      <3>5. QED
        BY <3>1, <3>2, <3>3, <3>4 DEF PlainTyped
    <2>2. RegsTyped'
      BY <1>e DEF RegInv, TypeOK, RegsTyped
    <2>3. ReadersTyped'
      <3>1. /\ closing' \in [Readers -> BOOLEAN]
            /\ owner' \in [Readers -> 0..MaxRegistrations]
            /\ lifecycle' \in [Readers -> {"Open", "DeleteDeferredByWaitSet", "Closed"}]
        BY <1>e DEF RegInv, TypeOK
      <3>2. callback' \in [Readers -> Threads \union {NoThread}]
        BY DEF RegInv, TypeOK, Clear, Unclaim, Reader, LastReader, Free, Advance, Goto
      <3>3. claiming' \in [Readers -> BOOLEAN]
        <4>1. claiming \in [Readers -> BOOLEAN]
          BY DEF RegInv, TypeOK
        <4>2. QED
          BY <4>1 DEF Clear, Unclaim, Reader, LastReader, Free, Advance, Goto
      <3>4. QED
        BY <3>1, <3>2, <3>3 DEF ReadersTyped
    <2>4. ThreadsTyped'
      <3>1. pc'[t] \in Pcs
        BY <1>e DEF RegInv, TypeOK, Pcs, Advances, Regs
      <3>2. idx'[t] \in Nat \ {0}
        BY <1>f, <1>e DEF AtReader, Advances
      <3>3. QED
        BY <1>x, <1>y, <3>1, <3>2 DEF RegInv, TypeOK, ThreadsTyped
    <2>5. Within(t)'
      <3>1. idx'[t] \in 1..Len(members[reg[t]])
        BY <1>f, <1>e DEF AtReader, Advances
      <3>2. QED
        BY <1>f, <1>e, <3>1 DEF Within, AtReader, Regs
    <2>6. \A u \in Threads : u # t => Within(u)'
      BY <1>e DEF RegInv, TypeOK, Within, Elsewhere
    <2>7. QED
      BY <2>1, <2>2, <2>3, <2>4, <2>5, <2>6
      DEF TypeOK, PlainTyped, RegsTyped, ReadersTyped, ThreadsTyped, Within
  <1>2. Shape'
    BY <1>o, <1>e
    DEF RegInv, Shape, ClaimPcs, HoldPcs, LoopPcs, WorkPcs, ClosePcs, Elsewhere, Advances,
        Reader
  <1>3. Numbered'
    BY <1>e DEF RegInv, Numbered, Of, Elsewhere, Advances, Reader
  <1>4. Claimed'
    <2>1. \A u \in Threads : u # t => pc[u] \notin ClaimPcs /\ pc'[u] \notin ClaimPcs
      BY <1>e DEF RegInv, Shape, Elsewhere, ClaimPcs
    <2>2. pc[t] \in ClaimPcs
      BY <1>e DEF ClaimPcs
    <2>3. /\ \A i \in DOMAIN members[reg[t]] : Holds(t, i) => claiming[members[reg[t]][i]]
          /\ \A x \in Readers : claiming[x] => owner[x] = 0 /\ Marks(t, x)
      BY <2>1, <2>2 DEF RegInv, Claimed, Marks
    <2>4. \A i \in DOMAIN members[reg[t]] : /\ i \in Nat /\ members[reg[t]][i] \in Readers
                                           /\ (members[reg[t]][i] = Reader(t) <=> i = idx[t])
      BY <1>f DEF AtReader
    <2>5. \A i : ~Holds(t, i)'
      BY <1>e DEF Holds, Advances
    <2>6. \A x \in Readers : claiming'[x] => owner'[x] = 0 /\ Marks(t, x)'
      <3> SUFFICES ASSUME NEW x \in Readers, claiming'[x] PROVE owner'[x] = 0 /\ Marks(t, x)'
        OBVIOUS
      <3>1. claiming[x] /\ x # Reader(t)
        BY <1>e
      <3>2. PICK i \in DOMAIN members[reg[t]] : members[reg[t]][i] = x /\ i >= idx[t]
        BY <1>e, <2>3, <3>1 DEF Marks, Holds
      <3>3. i # idx[t] /\ i \in 1..Len(members[reg[t]])
        BY <1>f, <2>4, <3>1, <3>2 DEF AtReader
      <3>4. i >= idx[t] + 1 /\ idx[t] < Len(members[reg[t]])
        BY <1>f, <3>2, <3>3 DEF AtReader
      <3>5. idx'[t] = idx[t] + 1 /\ pc'[t] = "clear"
        BY <1>e, <3>4 DEF Advances
      <3>6. QED
        BY <1>e, <2>3, <3>1, <3>2, <3>4, <3>5 DEF Marks, ClaimPcs
    <2>7. QED
      BY <2>1, <2>5, <2>6 DEF Claimed
  <1>5. Fresh'
    BY <1>e DEF RegInv, Fresh, Unpublished, ClaimPcs, Shape, Elsewhere, Advances, Reader
  <1>6. OneHolder'
    BY <1>e DEF RegInv, OneHolder, Holder, HoldPcs, LoopPcs, Shape, Elsewhere, Advances, Reader
  <1>7. Closed'
    <2>1. /\ arg' = arg /\ ~Closer(t) /\ ~Closer(t)'
          /\ \A u \in Threads : (Closer(u)' <=> Closer(u)) /\ (Closer(u) => u # t)
      BY <1>o, <1>e DEF Closer, Elsewhere, Clear
    <2>2. Apart'
      BY <2>1 DEF RegInv, Closed, Apart
    <2>3. GivenUp'
      BY <1>e DEF RegInv, Closed, GivenUp
    <2>4. \A u \in Threads : Closer(u)' => Destroying(u)'
      <3> SUFFICES ASSUME NEW u \in Threads, Closer(u)' PROVE Destroying(u)'
        OBVIOUS
      <3>1. u # t /\ Destroying(u) /\ arg[u] \in Readers
        BY <2>1 DEF RegInv, Closed, TypeOK
      <3>2. QED
        BY <1>e, <3>1 DEF Elsewhere, Destroying
    <2>5. QED
      BY <2>2, <2>3, <2>4 DEF Closed
  <1>8. AddAhead'
    BY <1>o, <1>e
    DEF RegInv, AddAhead, Adding, LoopPcs, ClosePcs, Shape, Elsewhere, Advances, Reader
  <1>9. CloserReleases'
    BY <1>e
    DEF RegInv, CloserReleases, Closer, Passed, Reader, Of, HoldPcs, LoopPcs, Shape,
        Elsewhere, Advances
  <1>10. SingleReleased'
    BY <1>e
    DEF RegInv, SingleReleased, Holder, HoldPcs, LoopPcs, Shape, Elsewhere, Advances, Reader
  <1>11. Detachable'
    BY <1>e DEF RegInv, Detachable, Reader, Shape, Elsewhere, Advances
  <1>12. NativeKept'
    BY <1>e, NativeStays DEF Elsewhere, Advances
  <1>13. QED
    BY <1>1, <1>2, <1>3, <1>4, <1>5, <1>6, <1>7, <1>8, <1>9, <1>10, <1>11, <1>12 DEF RegInv

\* attach_reader_conditions() attaches one condition, or rolls all of them back.
LEMMA AttachKeeps ==
  ASSUME RegInv, NEW t \in Threads, Attach(t)
  PROVE  RegInv'
  <1>w. pc[t] \in WorkPcs
    BY DEF Attach, WorkPcs, ClaimPcs, HoldPcs, LoopPcs
  <1>f. AtReader(t)
    BY <1>w, WorkTyped
  <1>o. op[t] = "add"
    BY DEF RegInv, Shape, Attach, ClaimPcs, ClosePcs
  <1>e. /\ Elsewhere(t)
        /\ pc[t] = "attach"
        /\ op'[t] = op[t]
        /\ reg'[t] = reg[t]
        /\ arg'[t] = arg[t]
        /\ failed'[t] = failed[t]
        /\ \/ Advances(t, "attach", "commit")
           \/ idx'[t] = 1 /\ pc'[t] = "clear"
        /\ UNCHANGED <<mutex, listed, created, members, phase, claiming, closing, owner,
                       lifecycle, deleted>>
    <2>1. Elsewhere(t)
      BY DEF RegInv, TypeOK, Elsewhere, Attach, Reader, LastReader, Advance, Goto, NoFault,
             Fault
    <2>2. UNCHANGED <<mutex, listed, created, members, phase, claiming, closing, owner,
                      lifecycle, deleted>>
      BY DEF Attach, Reader, LastReader, Advance, Goto, NoFault, Fault, setVars, readerVars,
             boundVars
    <2>3. /\ pc[t] = "attach"
          /\ op'[t] = op[t]
          /\ reg'[t] = reg[t]
          /\ arg'[t] = arg[t]
          /\ failed'[t] = failed[t]
      BY DEF RegInv, TypeOK, Attach, Reader, LastReader, Advance, Goto, NoFault, Fault
    <2>4. \/ Advances(t, "attach", "commit")
          \/ idx'[t] = 1 /\ pc'[t] = "clear"
      BY <1>f, <2>3
      DEF RegInv, TypeOK, AtReader, Advances, Attach, Reader, LastReader, Advance, Goto,
          NoFault, Fault
    <2>5. QED
      BY <2>1, <2>2, <2>3, <2>4
  <1>r. \/ /\ Advances(t, "attach", "commit")
           /\ native' = native \union {<<reg[t], Reader(t)>>}
           /\ condition' = condition \union {<<reg[t], Reader(t)>>}
        \/ /\ native' \subseteq native
           /\ "rollback" \notin Failing => native' = {c \in native : c[1] # reg[t]}
           /\ condition' = {c \in condition : c[1] # reg[t]}
    <2>1. CASE /\ native' = native \union {<<reg[t], Reader(t)>>}
               /\ condition' = condition \union {<<reg[t], Reader(t)>>}
               /\ Advance(t, "attach", "commit")
      <3>1. Advances(t, "attach", "commit")
        BY <1>f, <2>1 DEF Advances, Advance, LastReader, Goto, AtReader, RegInv, TypeOK
      <3>2. QED
        BY <2>1, <3>1
    <2>2. CASE /\ \/ native' = {c \in native : c[1] # reg[t]}
                  \/ native' = native /\ Fault("rollback")
               /\ condition' = {c \in condition : c[1] # reg[t]}
      BY <2>2 DEF Fault
    <2>3. QED
      BY <2>1, <2>2 DEF Attach
  <1>x. /\ pc' = [pc EXCEPT ![t] = pc'[t]]
        /\ idx' = [idx EXCEPT ![t] = idx'[t]]
    <2>1. pc' = [pc EXCEPT ![t] = pc'[t]]
      BY DEF RegInv, TypeOK, Attach, Reader, LastReader, Advance, Goto, NoFault, Fault,
             readerVars
    <2>2. idx' = [idx EXCEPT ![t] = idx'[t]]
      BY DEF RegInv, TypeOK, Attach, Reader, LastReader, Advance, Goto, NoFault, Fault,
             readerVars
    <2>3. QED
      BY <2>1, <2>2
  <1>y. UNCHANGED <<op, reg, arg, failed>>
    BY DEF Attach, Reader, LastReader, Advance, Goto, NoFault, Fault
  <1>1. TypeOK'
    <2>1. PlainTyped'
      <3>1. /\ mutex' \in Threads \union {NoThread}
            /\ created' \in 0..MaxRegistrations
            /\ listed' \in SUBSET Regs
            /\ deleted' \in SUBSET Readers
        BY <1>e DEF RegInv, TypeOK
      <3>2. poisoned' \in BOOLEAN
        BY DEF RegInv, TypeOK, Regs, Attach, Reader, LastReader, Advance, Goto, NoFault,
               Fault, setVars, readerVars, boundVars
      <3>3. faults' \in 0..MaxFaults
        <4>1. faults' = faults \/ (faults < MaxFaults /\ faults' = faults + 1)
          BY DEF Attach, Reader, LastReader, Advance, Goto, NoFault, Fault, boundVars
        <4>2. QED
          BY <4>1, ReaderRegistrationAssumption DEF RegInv, TypeOK
      <3>4. condition' \in SUBSET Pairs
        BY <1>f, <1>r DEF RegInv, TypeOK, AtReader, Pairs
      <3>5. native' \in SUBSET Pairs
        BY <1>f, <1>r DEF RegInv, TypeOK, AtReader, Pairs
      <3>6. calls' \in [Threads -> 0..MaxCalls]
        <4>1. calls' = calls
          BY DEF Attach, Reader, LastReader, Advance, Goto, NoFault, Fault, boundVars
        <4>2. QED
          BY <4>1 DEF RegInv, TypeOK
      <3>7. QED
        BY <3>1, <3>2, <3>3, <3>4, <3>5, <3>6 DEF PlainTyped
    <2>2. RegsTyped'
      BY <1>e DEF RegInv, TypeOK, RegsTyped
    <2>3. ReadersTyped'
      <3>1. /\ claiming' \in [Readers -> BOOLEAN]
            /\ closing' \in [Readers -> BOOLEAN]
            /\ owner' \in [Readers -> 0..MaxRegistrations]
            /\ lifecycle' \in [Readers -> {"Open", "DeleteDeferredByWaitSet", "Closed"}]
        BY <1>e DEF RegInv, TypeOK
      <3>2. callback' \in [Readers -> Threads \union {NoThread}]
        BY DEF RegInv, TypeOK, Attach, Reader, LastReader, Advance, Goto, NoFault, Fault
      <3>3. QED
        BY <3>1, <3>2 DEF ReadersTyped
    <2>4. ThreadsTyped'
      <3>1. pc'[t] \in Pcs
        BY <1>e DEF RegInv, TypeOK, Pcs, Advances, Regs
      <3>2. idx'[t] \in Nat \ {0}
        BY <1>f, <1>e DEF AtReader, Advances
      <3>3. QED
        BY <1>x, <1>y, <3>1, <3>2 DEF RegInv, TypeOK, ThreadsTyped
    <2>5. Within(t)'
      <3>1. idx'[t] \in 1..Len(members[reg[t]])
        BY <1>f, <1>e DEF AtReader, Advances
      <3>2. QED
        BY <1>f, <1>e, <3>1 DEF Within, AtReader, Regs
    <2>6. \A u \in Threads : u # t => Within(u)'
      BY <1>e DEF RegInv, TypeOK, Within, Elsewhere
    <2>7. QED
      BY <2>1, <2>2, <2>3, <2>4, <2>5, <2>6
      DEF TypeOK, PlainTyped, RegsTyped, ReadersTyped, ThreadsTyped, Within
  <1>2. Shape'
    <2>1. /\ reg'[t] = reg[t] /\ reg[t] # 0 /\ reg[t] <= created' /\ op'[t] = op[t]
          /\ idx'[t] \in DOMAIN members'[reg'[t]] /\ mutex' = mutex /\ failed'[t] = failed[t]
      BY <1>f, <1>e DEF AtReader, Advances, Regs
    <2>2. op[t] = "add" => mutex = t
      BY <1>e DEF RegInv, Shape
    <2>3. /\ pc[t] # "idle" /\ op[t] \in {"add", "remove", "close"}
          /\ pc'[t] \in {"detach", "rel_failed", "erase"} /\ op[t] = "add" => failed[t]
          /\ pc'[t] \notin {"idle", "close_wait", "detach", "insert"} \union ClosePcs
          /\ pc'[t] \in ClaimPcs \union {"add_unlock"} => op[t] = "add"
          /\ pc'[t] = "erase" => idx'[t] = 1
      BY <1>e DEF RegInv, Shape, Advances, ClaimPcs, ClosePcs
    <2>4. QED
      BY <1>e, <2>1, <2>2, <2>3 DEF RegInv, Shape, Elsewhere, ClaimPcs
  <1>3. Numbered'
    BY <1>e DEF RegInv, Numbered, Of, Elsewhere, Advances
  <1>4. Claimed'
    <2>1. \A u \in Threads : u # t => pc[u] \notin ClaimPcs /\ pc'[u] \notin ClaimPcs
      BY <1>e DEF RegInv, Shape, Elsewhere, ClaimPcs
    <2>2. pc[t] \in ClaimPcs
      BY <1>e DEF ClaimPcs
    <2>3. /\ \A i \in DOMAIN members[reg[t]] : Holds(t, i) => claiming[members[reg[t]][i]]
          /\ \A x \in Readers : claiming[x] => owner[x] = 0 /\ Marks(t, x)
      BY <2>1, <2>2 DEF RegInv, Claimed, Marks
    <2>4. \A i \in DOMAIN members[reg[t]] : /\ i \in Nat /\ members[reg[t]][i] \in Readers
                                           /\ (members[reg[t]][i] = Reader(t) <=> i = idx[t])
      BY <1>f DEF AtReader
    <2>5. \A i : Holds(t, i)
      BY <1>e DEF Holds
    <2>6. pc'[t] \in ClaimPcs
      BY <1>e DEF ClaimPcs, Advances
    <2>7. \A i \in DOMAIN members[reg[t]] : Holds(t, i)' \/ (pc'[t] = "clear" /\ i >= idx'[t])
      BY <1>f, <1>e, <2>4 DEF Holds, AtReader, Advances
    <2>8. \A x \in Readers : claiming[x] => Marks(t, x)'
      BY <1>e, <2>3, <2>6, <2>7 DEF Marks
    <2>9. QED
      BY <1>e, <2>1, <2>3, <2>5, <2>8 DEF Claimed
  <1>5. Fresh'
    BY <1>e DEF RegInv, Fresh, Unpublished, ClaimPcs, Shape, Elsewhere, Advances
  <1>6. OneHolder'
    BY <1>e DEF RegInv, OneHolder, Holder, HoldPcs, LoopPcs, Shape, Elsewhere, Advances
  <1>7. Closed'
    <2>1. /\ arg' = arg /\ ~Closer(t) /\ ~Closer(t)'
          /\ \A u \in Threads : (Closer(u)' <=> Closer(u)) /\ (Closer(u) => u # t)
      BY <1>o, <1>e DEF Closer, Elsewhere, Attach
    <2>2. Apart'
      BY <2>1 DEF RegInv, Closed, Apart
    <2>3. GivenUp'
      BY <1>e DEF RegInv, Closed, GivenUp
    <2>4. \A u \in Threads : Closer(u)' => Destroying(u)'
      <3> SUFFICES ASSUME NEW u \in Threads, Closer(u)' PROVE Destroying(u)'
        OBVIOUS
      <3>1. u # t /\ Destroying(u) /\ arg[u] \in Readers
        BY <2>1 DEF RegInv, Closed, TypeOK
      <3>2. QED
        BY <1>e, <3>1 DEF Elsewhere, Destroying
    <2>5. QED
      BY <2>2, <2>3, <2>4 DEF Closed
  <1>8. AddAhead'
    <2> SUFFICES ASSUME NEW a \in Threads, Adding(a)'
                 PROVE  /\ Alone(a)' /\ Untouched(a)' /\ Heading(a)' /\ Cleared(a)' /\ Overtaken(a)'
      BY DEF AddAhead
    <2>1. a = t
      BY <1>o, <1>e DEF Adding, Elsewhere, RegInv, Shape, LoopPcs
    <2>2. Unpublished(t)' /\ pc'[t] \in ClaimPcs
      BY <1>e, <2>1 DEF Unpublished, Adding, Advances, ClaimPcs, LoopPcs
    <2>3. \A x \in Of(reg[t])' : x \in Readers /\ claiming'[x]
      <3>1. \A i \in DOMAIN members'[reg'[t]] : Holds(t, i)' /\ members'[reg'[t]][i] \in Readers
        BY <1>f, <1>e, <2>1, <2>2 DEF Holds, AtReader, Adding, Advances, Unpublished, LoopPcs
      <3>2. \A i \in DOMAIN members'[reg'[t]] : claiming'[members'[reg'[t]][i]]
        BY <1>4, <2>2, <3>1 DEF Claimed
      <3>3. QED
        BY <3>1, <3>2 DEF Of
    <2>4. phase'[reg'[t]] = "Attached" /\ \A u \in Threads : u # t => reg'[u] # reg'[t]
      BY <1>5, <2>2 DEF Fresh
    <2>5. Alone(t)'
      BY <2>4 DEF Alone
    <2>6. Untouched(t)' /\ Cleared(t)'
      BY <1>7, <2>3 DEF Closed, GivenUp, Untouched, Cleared
    <2>7. Heading(t)'
      BY <1>7, <2>3 DEF Closed, Destroying, Heading
    <2>8. Overtaken(t)'
      BY <2>2, <2>4 DEF Overtaken, ClaimPcs, LoopPcs
    <2>9. QED
      BY <2>1, <2>5, <2>6, <2>7, <2>8
  <1>9. CloserReleases'
    BY <1>e
    DEF RegInv, CloserReleases, Closer, Passed, Reader, Of, HoldPcs, LoopPcs, Shape,
        Elsewhere, Advances
  <1>10. SingleReleased'
    BY <1>e DEF RegInv, SingleReleased, Holder, HoldPcs, LoopPcs, Shape, Elsewhere, Advances
  <1>11. Detachable'
    BY <1>e DEF RegInv, Detachable, Reader, Shape, Elsewhere, Advances
  <1>12. NativeKept'
    <2> SUFFICES ASSUME "rollback" \notin Failing PROVE NativeInv'
      BY DEF NativeKept
    <2>1. /\ native \subseteq condition
          /\ \A m \in Regs, x \in Readers : <<m, x>> \in native => Backed(m, x)
          /\ \A u \in Threads : pc[u] = "rel_clear" => <<reg[u], Reader(u)>> \notin native
      BY DEF RegInv, NativeKept, NativeInv
    <2>2. \A u \in Threads : u # t => pc[u] \notin {"attach", "commit"} /\ reg[u] # reg[t]
      BY <1>e DEF RegInv, Shape, Fresh, Unpublished, ClaimPcs
    <2>3. \A u \in Threads : pc'[u] = "rel_clear" =>
              u # t /\ pc[u] = "rel_clear" /\ reg'[u] = reg[u] /\ Reader(u)' = Reader(u)
      BY <1>e DEF Elsewhere, Reader, Advances
    <2>4. CASE /\ Advances(t, "attach", "commit")
               /\ native' = native \union {<<reg[t], Reader(t)>>}
               /\ condition' = condition \union {<<reg[t], Reader(t)>>}
      <3>1. \A i \in DOMAIN members[reg[t]] : Holds(t, i)'
        BY <2>4 DEF Holds, Advances
      <3>2. pc'[t] \in {"attach", "commit"}
        BY <2>4 DEF Advances
      <3>3. \A m \in Regs, x \in Readers : Backed(m, x) => Backed(m, x)'
        BY <1>e, <2>2, <3>1, <3>2 DEF Backed
      <3>4. ASSUME NEW m \in Regs, NEW x \in Readers, m = reg[t], x = Reader(t)
            PROVE  Backed(m, x)'
        <4>1. PICK i \in DOMAIN members[m] : members[m][i] = x
          BY <1>f, <3>4 DEF AtReader
        <4>2. Holds(t, i)'
          BY <3>1, <3>4, <4>1
        <4>3. members' = members /\ reg'[t] = m
          BY <1>e, <3>4
        <4>4. QED
          BY <3>2, <4>1, <4>2, <4>3 DEF Backed
      <3>5. ASSUME NEW m \in Regs, NEW x \in Readers, <<m, x>> \in native'
            PROVE  Backed(m, x)'
        <4>1. CASE <<m, x>> \in native
          BY <2>1, <3>3, <4>1
        <4>2. CASE <<m, x>> \notin native
          <5>1. m = reg[t] /\ x = Reader(t)
            BY <2>4, <3>5, <4>2
          <5>2. QED
            BY <3>4, <5>1
        <4>3. QED
          BY <4>1, <4>2
      <3>6. ASSUME NEW u \in Threads, pc'[u] = "rel_clear"
            PROVE  <<reg'[u], Reader(u)'>> \notin native'
        <4>1. <<reg[u], Reader(u)>> \notin native /\ reg[u] # reg[t]
          BY <2>1, <2>2, <2>3, <3>6
        <4>2. QED
          BY <2>3, <2>4, <3>6, <4>1
      <3>7. native' \subseteq condition'
        BY <2>1, <2>4
      <3>8. QED
        BY <3>5, <3>6, <3>7 DEF NativeInv
    <2>5. CASE /\ native' = {c \in native : c[1] # reg[t]}
               /\ condition' = {c \in condition : c[1] # reg[t]}
      <3>1. \A m \in Regs, x \in Readers : Backed(m, x) /\ m # reg[t] => Backed(m, x)'
        BY <1>e, <2>2 DEF Backed, Elsewhere, Holds
      <3>2. ASSUME NEW m \in Regs, NEW x \in Readers, <<m, x>> \in native'
            PROVE  Backed(m, x)'
        <4>1. <<m, x>> \in native /\ m # reg[t]
          BY <2>5, <3>2
        <4>2. QED
          BY <2>1, <3>1, <4>1
      <3>3. native' \subseteq native /\ native' \subseteq condition'
        BY <2>1, <2>5
      <3>4. \A u \in Threads : pc'[u] = "rel_clear" => <<reg'[u], Reader(u)'>> \notin native'
        BY <2>1, <2>3, <3>3
      <3>5. QED
        BY <3>2, <3>3, <3>4 DEF NativeInv
    <2>6. QED
      BY <1>r, <2>4, <2>5
  <1>13. QED
    BY <1>1, <1>2, <1>3, <1>4, <1>5, <1>6, <1>7, <1>8, <1>9, <1>10, <1>11, <1>12 DEF RegInv

\* claim() turns one marker into the ownership of the reader.
LEMMA CommitKeeps ==
  ASSUME RegInv, NEW t \in Threads, Commit(t)
  PROVE  RegInv'
  <1>w. pc[t] \in WorkPcs
    BY DEF Commit, WorkPcs, ClaimPcs, HoldPcs, LoopPcs
  <1>f. AtReader(t)
    BY <1>w, WorkTyped
  <1>o. op[t] = "add"
    BY DEF RegInv, Shape, Commit, ClaimPcs, ClosePcs
  <1>e. /\ Elsewhere(t)
        /\ pc[t] = "commit"
        /\ op'[t] = op[t]
        /\ reg'[t] = reg[t]
        /\ arg'[t] = arg[t]
        /\ ~claiming'[Reader(t)] /\ \A r \in Readers : r # Reader(t) => claiming'[r] = claiming[r]
        /\ owner'[Reader(t)] = reg[t] /\ \A r \in Readers : r # Reader(t) => owner'[r] = owner[r]
        /\ failed'[t] <=> failed[t] \/ closing[Reader(t)]
        /\ \/ failed'[t] /\ Advances(t, "commit", "detach")
           \/ ~failed'[t] /\ Advances(t, "commit", "insert")
        /\ UNCHANGED <<mutex, listed, created, members, phase, condition, native, closing,
                       lifecycle, deleted>>
    <2>1. Elsewhere(t)
      BY DEF RegInv, TypeOK, Elsewhere, Commit, Reader, LastReader, Free, Advance, Goto
    <2>2. UNCHANGED <<mutex, listed, created, members, phase, condition, native, closing,
                      lifecycle, deleted>>
      BY DEF Commit, Reader, LastReader, Free, Advance, Goto, setVars, nativeVars, boundVars
    <2>3. /\ pc[t] = "commit"
          /\ op'[t] = op[t]
          /\ reg'[t] = reg[t]
          /\ arg'[t] = arg[t]
          /\ ~claiming'[Reader(t)] /\ \A r \in Readers : r # Reader(t) => claiming'[r] = claiming[r]
          /\ owner'[Reader(t)] = reg[t] /\ \A r \in Readers : r # Reader(t) => owner'[r] = owner[r]
          /\ failed'[t] <=> failed[t] \/ closing[Reader(t)]
      BY <1>f DEF RegInv, TypeOK, AtReader, Commit, Reader, LastReader, Free, Advance, Goto
    <2>4. \/ failed'[t] /\ Advances(t, "commit", "detach")
          \/ ~failed'[t] /\ Advances(t, "commit", "insert")
      BY <1>f, <2>3
      DEF RegInv, TypeOK, AtReader, Advances, Commit, Reader, LastReader, Free, Advance, Goto
    <2>5. QED
      BY <2>1, <2>2, <2>3, <2>4
  <1>c. claiming[Reader(t)] /\ owner[Reader(t)] = 0
    <2>1. Holds(t, idx[t]) /\ idx[t] \in DOMAIN members[reg[t]]
      BY <1>f, <1>e DEF Holds, AtReader
    <2>2. claiming[Reader(t)]
      BY <1>f, <1>e, <2>1 DEF RegInv, Claimed, ClaimPcs, AtReader
    <2>3. QED
      BY <1>f, <2>2 DEF RegInv, Claimed, AtReader
  <1>x. /\ pc' = [pc EXCEPT ![t] = pc'[t]]
        /\ idx' = [idx EXCEPT ![t] = idx'[t]]
        /\ failed' = [failed EXCEPT ![t] = failed'[t]]
        /\ claiming' = [claiming EXCEPT ![Reader(t)] = claiming'[Reader(t)]]
        /\ owner' = [owner EXCEPT ![Reader(t)] = owner'[Reader(t)]]
    BY <1>f
    DEF RegInv, TypeOK, AtReader, Regs, Commit, Reader, LastReader, Free, Advance, Goto,
        setVars, nativeVars, boundVars
  <1>y. UNCHANGED <<op, reg, arg>>
    BY DEF Commit, Reader, LastReader, Free, Advance, Goto
  <1>1. TypeOK'
    <2>1. PlainTyped'
      <3>1. /\ mutex' \in Threads \union {NoThread}
            /\ created' \in 0..MaxRegistrations
            /\ listed' \in SUBSET Regs
            /\ condition' \in SUBSET Pairs
            /\ native' \in SUBSET Pairs
            /\ deleted' \in SUBSET Readers
        BY <1>e DEF RegInv, TypeOK
      <3>2. poisoned' \in BOOLEAN
        BY DEF RegInv, TypeOK, Regs, Commit, Reader, LastReader, Free, Advance, Goto, setVars,
               nativeVars, boundVars
      <3>3. faults' \in 0..MaxFaults
        <4>1. faults' = faults
          BY DEF Commit, Reader, LastReader, Free, Advance, Goto, boundVars
        <4>2. QED
          BY <4>1 DEF RegInv, TypeOK
      <3>4. calls' \in [Threads -> 0..MaxCalls]
        <4>1. calls' = calls
          BY DEF Commit, Reader, LastReader, Free, Advance, Goto, boundVars
        <4>2. QED
          BY <4>1 DEF RegInv, TypeOK
      <3>5. QED
        BY <3>1, <3>2, <3>3, <3>4 DEF PlainTyped
    <2>2. RegsTyped'
      BY <1>e DEF RegInv, TypeOK, RegsTyped
    <2>3. ReadersTyped'
      <3>1. /\ closing' \in [Readers -> BOOLEAN]
            /\ lifecycle' \in [Readers -> {"Open", "DeleteDeferredByWaitSet", "Closed"}]
        BY <1>e DEF RegInv, TypeOK
      <3>2. callback' \in [Readers -> Threads \union {NoThread}]
        BY DEF RegInv, TypeOK, Commit, Reader, LastReader, Free, Advance, Goto
      <3>3. claiming' \in [Readers -> BOOLEAN]
        <4>1. claiming \in [Readers -> BOOLEAN]
          BY DEF RegInv, TypeOK
        <4>2. QED
          BY <4>1 DEF Commit, Reader, LastReader, Free, Advance, Goto
      <3>4. owner' \in [Readers -> 0..MaxRegistrations]
        <4>1. owner \in [Readers -> 0..MaxRegistrations]
          BY DEF RegInv, TypeOK
        <4>2. owner'[Reader(t)] \in 0..MaxRegistrations
          BY <1>f, <1>e, <4>1 DEF AtReader, Advances, Regs
        <4>3. QED
          BY <1>x, <4>1, <4>2
      <3>5. QED
        BY <3>1, <3>2, <3>3, <3>4 DEF ReadersTyped
    <2>4. ThreadsTyped'
      <3>1. pc'[t] \in Pcs
        BY <1>e DEF RegInv, TypeOK, Pcs, Advances, Regs
      <3>2. idx'[t] \in Nat \ {0}
        BY <1>f, <1>e DEF AtReader, Advances
      <3>3. failed' \in [Threads -> BOOLEAN]
        BY DEF RegInv, TypeOK, Commit, Reader, LastReader, Free, Advance, Goto
      <3>4. QED
        BY <1>x, <1>y, <3>1, <3>2, <3>3 DEF RegInv, TypeOK, ThreadsTyped
    <2>5. Within(t)'
      <3>1. idx'[t] \in 1..Len(members[reg[t]])
        BY <1>f, <1>e DEF AtReader, Advances
      <3>2. QED
        BY <1>f, <1>e, <3>1 DEF Within, AtReader, Regs
    <2>6. \A u \in Threads : u # t => Within(u)'
      BY <1>e DEF RegInv, TypeOK, Within, Elsewhere
    <2>7. QED
      BY <2>1, <2>2, <2>3, <2>4, <2>5, <2>6
      DEF TypeOK, PlainTyped, RegsTyped, ReadersTyped, ThreadsTyped, Within
  <1>2. Shape'
    BY <1>e
    DEF RegInv, Shape, ClaimPcs, HoldPcs, LoopPcs, WorkPcs, ClosePcs, Elsewhere, Advances,
        Reader
  <1>3. Numbered'
    <2>1. \A x \in Readers : owner'[x] # 0 => owner'[x] <= created /\ x \in Of(owner'[x])
      <3>1. \A x \in Readers : owner'[x] = owner[x] \/ (owner'[x] = reg[t] /\ x = Reader(t))
        BY <1>e
      <3>2. reg[t] <= created /\ Reader(t) \in Of(reg[t])
        BY <1>f DEF AtReader
      <3>3. QED
        BY <3>1, <3>2 DEF RegInv, Numbered
    <2>2. QED
      BY <1>e, <2>1 DEF RegInv, Numbered, Of
  <1>4. Claimed'
    <2>1. \A u \in Threads : u # t => pc[u] \notin ClaimPcs /\ pc'[u] \notin ClaimPcs
      BY <1>e DEF RegInv, Shape, Elsewhere, ClaimPcs
    <2>2. pc[t] \in ClaimPcs
      BY <1>e DEF ClaimPcs
    <2>3. /\ \A i \in DOMAIN members[reg[t]] : Holds(t, i) => claiming[members[reg[t]][i]]
          /\ \A x \in Readers : claiming[x] => owner[x] = 0 /\ Marks(t, x)
      BY <2>1, <2>2 DEF RegInv, Claimed, Marks
    <2>4. \A i \in DOMAIN members[reg[t]] : /\ i \in Nat /\ members[reg[t]][i] \in Readers
                                           /\ (members[reg[t]][i] = Reader(t) <=> i = idx[t])
      BY <1>f DEF AtReader
    <2>5. \A i \in DOMAIN members[reg[t]] : Holds(t, i)' => Holds(t, i) /\ i # idx[t]
      BY <1>f, <1>e, <2>4 DEF Holds, AtReader, Advances
    <2>6. \A i \in DOMAIN members[reg[t]] : Holds(t, i)' => claiming'[members[reg[t]][i]]
      BY <1>e, <2>3, <2>4, <2>5
    <2>7. \A x \in Readers : claiming'[x] => owner'[x] = 0 /\ Marks(t, x)'
      <3> SUFFICES ASSUME NEW x \in Readers, claiming'[x] PROVE owner'[x] = 0 /\ Marks(t, x)'
        OBVIOUS
      <3>1. claiming[x] /\ x # Reader(t)
        BY <1>e
      <3>2. PICK i \in DOMAIN members[reg[t]] : members[reg[t]][i] = x /\ i >= idx[t]
        BY <1>e, <2>3, <3>1 DEF Marks, Holds
      <3>3. i # idx[t] /\ i \in 1..Len(members[reg[t]])
        BY <1>f, <2>4, <3>1, <3>2 DEF AtReader
      <3>4. i >= idx[t] + 1 /\ idx[t] < Len(members[reg[t]])
        BY <1>f, <3>2, <3>3 DEF AtReader
      <3>5. idx'[t] = idx[t] + 1 /\ pc'[t] = "commit"
        BY <1>e, <3>4 DEF Advances
      <3>6. owner'[x] = 0
        BY <1>e, <2>3, <3>1
      <3>7. QED
        BY <1>e, <3>2, <3>4, <3>5, <3>6 DEF Marks, Holds, ClaimPcs
    <2>8. QED
      BY <1>e, <2>1, <2>6, <2>7 DEF Claimed
  <1>5. Fresh'
    BY <1>f, <1>e
    DEF RegInv, Fresh, Unpublished, ClaimPcs, Shape, Elsewhere, Advances, Reader, AtReader
  <1>6. OneHolder'
    BY <1>e DEF RegInv, OneHolder, Holder, HoldPcs, LoopPcs, Shape, Elsewhere, Advances, Reader
  <1>7. Closed'
    <2>1. /\ arg' = arg /\ ~Closer(t) /\ ~Closer(t)'
          /\ \A u \in Threads : (Closer(u)' <=> Closer(u)) /\ (Closer(u) => u # t)
      BY <1>o, <1>e DEF Closer, Elsewhere, Commit
    <2>2. Apart'
      BY <2>1 DEF RegInv, Closed, Apart
    <2>3. GivenUp'
      <3>2. lifecycle[Reader(t)] = "Open" /\ Reader(t) \notin deleted
        BY <1>c, <1>f DEF RegInv, Closed, GivenUp, AtReader
      <3>3. deleted \subseteq Readers
        BY DEF RegInv, TypeOK
      <3>4. QED
        BY <1>e, <3>2, <3>3 DEF RegInv, Closed, GivenUp
    <2>4. \A u \in Threads : Closer(u)' => Destroying(u)'
      <3> SUFFICES ASSUME NEW u \in Threads, Closer(u)' PROVE Destroying(u)'
        OBVIOUS
      <3>1. u # t /\ Destroying(u) /\ arg[u] \in Readers
        BY <2>1 DEF RegInv, Closed, TypeOK
      <3>2. QED
        BY <1>e, <3>1 DEF Elsewhere, Destroying
    <2>5. QED
      BY <2>2, <2>3, <2>4 DEF Closed
  <1>8. AddAhead'
    <2> SUFFICES ASSUME NEW a \in Threads, Adding(a)'
                 PROVE  /\ Alone(a)' /\ Untouched(a)' /\ Heading(a)' /\ Cleared(a)' /\ Overtaken(a)'
      BY DEF AddAhead
    <2>1. a = t /\ Adding(t)
      BY <1>o, <1>e DEF Adding, Elsewhere, RegInv, Shape, LoopPcs, Advances
    <2>2. /\ Of(reg[t])' = Of(reg[t]) /\ reg'[t] = reg[t] /\ pc'[t] # "idle"
          /\ \A u \in Threads : u # t => (Closer(u)' <=> Closer(u))
          /\ ~Closer(t) /\ ~Closer(t)'
      BY <1>o, <1>e DEF Of, Closer, Elsewhere, Advances
    <2>c. Detacher(reg[t]) => Detacher(reg[t])'
      BY <1>o, <1>e DEF Detacher, Elsewhere
    <2>3. Alone(t) /\ Untouched(t) /\ Heading(t) /\ Cleared(t) /\ Overtaken(t)
      BY <2>1 DEF RegInv, AddAhead
    <2>4. Alone(t)'
      BY <1>e, <2>2, <2>3 DEF Alone, Elsewhere
    <2>5. Untouched(t)'
      BY <1>e, <2>2, <2>3 DEF Untouched
    <2>6. Heading(t)'
      BY <1>e, <2>2, <2>3 DEF Heading, Elsewhere
    <2>7. Cleared(t)'
      <3>1. Of(reg[t]) \subseteq Readers
        BY <1>f DEF Of, AtReader
      <3>2. \A x \in Readers : owner'[x] # reg[t] /\ ~claiming'[x] => owner[x] # reg[t] /\ ~claiming[x]
        BY <1>e
      <3>3. QED
        BY <2>2, <2>c, <2>3, <3>1, <3>2 DEF Cleared
    <2>8. Overtaken(t)'
      BY <1>e, <2>1, <2>2, <2>c, <2>3 DEF Overtaken, Advances, Adding, LoopPcs
    <2>9. QED
      BY <2>1, <2>4, <2>5, <2>6, <2>7, <2>8
  <1>9. CloserReleases'
    <2> SUFFICES ASSUME NEW u \in Threads, Closer(u)' PROVE
            /\ pc'[u] \in HoldPcs \union {"detach"} =>
                 arg'[u] \in Of(reg[u])' /\ owner'[arg'[u]] \in {0, reg'[u]} /\ ~failed'[u]
            /\ pc'[u] = "poison" => failed'[u] /\ arg'[u] \in Of(reg[u])'
            /\ Passed(u)' => owner'[arg'[u]] = 0
      BY DEF CloserReleases
    <2>1. u # t /\ Closer(u)
      BY <1>o, <1>e DEF Closer, Elsewhere
    <2>2. arg[u] \in Readers /\ (pc[u] # "close_wait" => ~claiming[arg[u]])
      BY <2>1 DEF RegInv, TypeOK, Closed, Destroying
    <2>4. pc[u] # "close_wait" => owner'[arg[u]] = owner[arg[u]]
      BY <1>e, <1>c, <2>2
    <2>5. Passed(u)' <=> Passed(u)
      BY <1>e, <2>1 DEF Passed, Elsewhere, Reader
    <2>6. Passed(u) => pc[u] # "close_wait"
      BY DEF Passed, LoopPcs
    <2>7. QED
      BY <1>e, <2>1, <2>4, <2>5, <2>6
      DEF RegInv, CloserReleases, Elsewhere, Of, HoldPcs, LoopPcs
  <1>10. SingleReleased'
    <2>1. \A u \in Threads : Holder(u)' /\ pc'[u] \in {"rel_delete", "erase"} =>
                u # t /\ Holder(u) /\ pc'[u] = pc[u] /\ reg'[u] = reg[u] /\ reg[u] \in Regs
      <3>1. pc'[t] \notin {"rel_delete", "erase"}
        BY <1>e DEF Advances
      <3>2. \A u \in Threads : Holder(u) => reg[u] \in Regs
        BY DEF RegInv, Shape, TypeOK, Holder, WorkPcs, Regs
      <3>3. \A u \in Threads : u # t => (Holder(u)' <=> Holder(u))
        BY <1>e DEF Holder, Elsewhere
      <3>4. QED
        BY <1>e, <3>1, <3>2, <3>3 DEF Elsewhere
    <2>2. ASSUME NEW n \in Regs, Len(members[n]) = 1, owner[members[n][1]] # n,
                 \/ phase[n] = "Detached"
                 \/ \E u \in Threads : u # t /\ reg[u] = n
          PROVE  owner'[members[n][1]] # n
      <3>1. CASE n = reg[t]
        <4>1. Unpublished(t)
          BY <1>f, <1>e, <2>2, <3>1 DEF Unpublished, AtReader
        <4>2. QED
          BY <2>2, <3>1, <4>1 DEF RegInv, Fresh
      <3>2. CASE n # reg[t]
        <4>1. CASE members[n][1] = Reader(t)
          BY <1>e, <3>2, <4>1
        <4>2. CASE members[n][1] # Reader(t)
          <5>1. owner' = [owner EXCEPT ![Reader(t)] = reg[t]]
            BY DEF Commit
          <5>2. owner'[members[n][1]] = owner[members[n][1]]
            BY <4>2, <5>1
          <5>3. QED
            BY <5>2, <2>2
        <4>3. QED
          BY <4>1, <4>2
      <3>3. QED
        BY <3>1, <3>2
    <2>3. QED
      BY <1>e, <2>1, <2>2 DEF RegInv, SingleReleased
  <1>11. Detachable'
    <2>1. \A u \in Threads : pc'[u] = "rel_native" =>
              u # t /\ pc[u] = "rel_native" /\ reg[u] # 0 /\ Reader(u)' = Reader(u)
      BY <1>e DEF RegInv, Shape, WorkPcs, HoldPcs, LoopPcs, Elsewhere, Reader, Advances
    <2>2. owner' = [owner EXCEPT ![Reader(t)] = reg[t]]
      BY DEF Commit
    <2>3. \A x : owner[x] # 0 => owner'[x] = owner[x]
      BY <1>c, <2>2
    <2>4. QED
      BY <1>e, <2>1, <2>3 DEF RegInv, Detachable, Elsewhere
  <1>12. NativeKept'
    <2> SUFFICES ASSUME "rollback" \notin Failing PROVE NativeInv'
      BY DEF NativeKept
    <2>1. /\ native \subseteq condition
          /\ \A m \in Regs, x \in Readers : <<m, x>> \in native => Backed(m, x)
          /\ \A u \in Threads : pc[u] = "rel_clear" => <<reg[u], Reader(u)>> \notin native
      BY DEF RegInv, NativeKept, NativeInv
    <2>2. \A u \in Threads : u # t => pc[u] \notin {"attach", "commit"}
      BY <1>e DEF RegInv, Shape, ClaimPcs
    <2>3. \A u \in Threads : pc'[u] = "rel_clear" =>
              u # t /\ pc[u] = "rel_clear" /\ reg'[u] = reg[u] /\ Reader(u)' = Reader(u)
      BY <1>e DEF Elsewhere, Reader, Advances
    <2>4. \A m \in Regs, x \in Readers : Backed(m, x) => Backed(m, x)'
      <3> SUFFICES ASSUME NEW m \in Regs, NEW x \in Readers, Backed(m, x) PROVE Backed(m, x)'
        OBVIOUS
      <3>1. CASE owner[x] = m
        <4>1. x # Reader(t)
          BY <1>c, <3>1 DEF Regs
        <4>2. QED
          BY <1>e, <3>1, <4>1 DEF Backed
      <3>2. CASE owner[x] # m
        <4>1. PICK i \in DOMAIN members[reg[t]] : m = reg[t] /\ members[reg[t]][i] = x /\ Holds(t, i)
          BY <2>2, <3>2 DEF Backed
        <4>2. CASE i = idx[t]
          <5>1. x = Reader(t)
            BY <1>f, <4>1, <4>2 DEF AtReader
          <5>2. QED
            BY <1>e, <4>1, <5>1 DEF Backed
        <4>3. CASE i # idx[t]
          <5>1. i \in 1..Len(members[reg[t]]) /\ i >= idx[t] + 1 /\ idx[t] < Len(members[reg[t]])
            BY <1>f, <1>e, <4>1, <4>3 DEF Holds, AtReader
          <5>2. idx'[t] = idx[t] + 1 /\ pc'[t] = "commit"
            BY <1>e, <5>1 DEF Advances
          <5>3. Holds(t, i)'
            BY <5>1, <5>2 DEF Holds
          <5>4. QED
            BY <1>e, <4>1, <5>2, <5>3 DEF Backed
        <4>4. QED
          BY <4>2, <4>3
      <3>3. QED
        BY <3>1, <3>2
    <2>5. QED
      BY <1>e, <2>1, <2>3, <2>4 DEF NativeInv
  <1>13. QED
    BY <1>1, <1>2, <1>3, <1>4, <1>5, <1>6, <1>7, <1>8, <1>9, <1>10, <1>11, <1>12 DEF RegInv

\* add() lists the registration, or goes on to release one detached meanwhile.
LEMMA InsertKeeps ==
  ASSUME RegInv, NEW t \in Threads, Insert(t)
  PROVE  RegInv'
  <1>w. pc[t] \in WorkPcs
    BY DEF Insert, WorkPcs, ClaimPcs, HoldPcs, LoopPcs
  <1>f. AtReader(t)
    BY <1>w, WorkTyped
  <1>o. op[t] = "add"
    BY DEF RegInv, Shape, Insert, ClaimPcs, ClosePcs
  <1>e. /\ Elsewhere(t)
        /\ pc[t] = "insert"
        /\ op'[t] = op[t]
        /\ reg'[t] = reg[t]
        /\ arg'[t] = arg[t]
        /\ idx'[t] = idx[t]
        /\ failed'[t] = failed[t]
        /\ \/ phase[reg[t]] = "Attached" /\ listed' = listed \union {reg[t]} /\ pc'[t] = "add_unlock"
           \/ phase[reg[t]] # "Attached" /\ listed' = listed /\ pc'[t] = "release"
        /\ UNCHANGED <<mutex, created, members, phase, condition, native, claiming, closing,
                       owner, lifecycle, deleted>>
    <2>1. Elsewhere(t)
      BY DEF RegInv, TypeOK, Elsewhere, callVars, Insert, Goto
    <2>2. UNCHANGED <<mutex, created, members, phase, condition, native, claiming, closing,
                      owner, lifecycle, deleted>>
      BY DEF Insert, Goto, nativeVars, readerVars, callVars, boundVars
    <2>3. /\ pc[t] = "insert"
          /\ op'[t] = op[t]
          /\ reg'[t] = reg[t]
          /\ arg'[t] = arg[t]
          /\ idx'[t] = idx[t]
          /\ failed'[t] = failed[t]
      BY DEF RegInv, TypeOK, callVars, Insert, Goto
    <2>4. \/ phase[reg[t]] = "Attached" /\ listed' = listed \union {reg[t]} /\ pc'[t] = "add_unlock"
          \/ phase[reg[t]] # "Attached" /\ listed' = listed /\ pc'[t] = "release"
      BY <2>3 DEF RegInv, TypeOK, Insert, Goto
    <2>5. QED
      BY <2>1, <2>2, <2>3, <2>4
  <1>x. /\ pc' = [pc EXCEPT ![t] = pc'[t]]
    BY DEF RegInv, TypeOK, Regs, Insert, Goto, nativeVars, readerVars, callVars, boundVars
  <1>y. UNCHANGED <<op, reg, arg, idx, failed>>
    BY DEF Insert, Goto, callVars
  <1>1. TypeOK'
    <2>1. PlainTyped'
      <3>1. /\ mutex' \in Threads \union {NoThread}
            /\ created' \in 0..MaxRegistrations
            /\ condition' \in SUBSET Pairs
            /\ native' \in SUBSET Pairs
            /\ deleted' \in SUBSET Readers
        BY <1>e DEF RegInv, TypeOK
      <3>2. poisoned' \in BOOLEAN
        BY DEF RegInv, TypeOK, Regs, Insert, Goto, nativeVars, readerVars, callVars, boundVars
      <3>3. faults' \in 0..MaxFaults
        <4>1. faults' = faults
          BY DEF Insert, Goto, boundVars
        <4>2. QED
          BY <4>1 DEF RegInv, TypeOK
      <3>4. listed' \in SUBSET Regs
        BY <1>f, <1>e DEF RegInv, TypeOK, AtReader
      <3>5. calls' \in [Threads -> 0..MaxCalls]
        <4>1. calls' = calls
          BY DEF Insert, Goto, boundVars
        <4>2. QED
          BY <4>1 DEF RegInv, TypeOK
      <3>6. QED
        BY <3>1, <3>2, <3>3, <3>4, <3>5 DEF PlainTyped
    <2>2. RegsTyped'
      BY <1>e DEF RegInv, TypeOK, RegsTyped
    <2>3. ReadersTyped'
      <3>1. /\ claiming' \in [Readers -> BOOLEAN]
            /\ closing' \in [Readers -> BOOLEAN]
            /\ owner' \in [Readers -> 0..MaxRegistrations]
            /\ lifecycle' \in [Readers -> {"Open", "DeleteDeferredByWaitSet", "Closed"}]
        BY <1>e DEF RegInv, TypeOK
      <3>2. callback' \in [Readers -> Threads \union {NoThread}]
        BY DEF RegInv, TypeOK, Insert, Goto
      <3>3. QED
        BY <3>1, <3>2 DEF ReadersTyped
    <2>4. ThreadsTyped'
      <3>1. pc'[t] \in Pcs
        BY <1>e DEF RegInv, TypeOK, Pcs, Regs
      <3>2. QED
        BY <1>x, <1>y, <3>1 DEF RegInv, TypeOK, ThreadsTyped
    <2>5. Within(t)'
      BY <1>e DEF RegInv, TypeOK, Shape, Within, Regs
    <2>6. \A u \in Threads : u # t => Within(u)'
      BY <1>e DEF RegInv, TypeOK, Within, Elsewhere
    <2>7. QED
      BY <2>1, <2>2, <2>3, <2>4, <2>5, <2>6
      DEF TypeOK, PlainTyped, RegsTyped, ReadersTyped, ThreadsTyped, Within
  <1>2. Shape'
    BY <1>e DEF RegInv, Shape, ClaimPcs, HoldPcs, LoopPcs, WorkPcs, ClosePcs, Elsewhere
  <1>3. Numbered'
    BY <1>f, <1>e DEF RegInv, Numbered, Of, Elsewhere, Reader, AtReader
  <1>4. Claimed'
    BY <1>e DEF RegInv, Claimed, Holds, Marks, ClaimPcs, Shape, Elsewhere
  <1>5. Fresh'
    BY <1>e DEF RegInv, Fresh, Unpublished, ClaimPcs, Shape, Elsewhere
  <1>6. OneHolder'
    BY <1>e DEF RegInv, OneHolder, Holder, HoldPcs, LoopPcs, Shape, Elsewhere
  <1>7. Closed'
    <2>1. /\ arg' = arg /\ ~Closer(t) /\ ~Closer(t)'
          /\ \A u \in Threads : (Closer(u)' <=> Closer(u)) /\ (Closer(u) => u # t)
      BY <1>o, <1>e DEF Closer, Elsewhere, Insert, callVars
    <2>2. Apart'
      BY <2>1 DEF RegInv, Closed, Apart
    <2>3. GivenUp'
      BY <1>e DEF RegInv, Closed, GivenUp
    <2>4. \A u \in Threads : Closer(u)' => Destroying(u)'
      <3> SUFFICES ASSUME NEW u \in Threads, Closer(u)' PROVE Destroying(u)'
        OBVIOUS
      <3>1. u # t /\ Destroying(u) /\ arg[u] \in Readers
        BY <2>1 DEF RegInv, Closed, TypeOK
      <3>2. QED
        BY <1>e, <3>1 DEF Elsewhere, Destroying
    <2>5. QED
      BY <2>2, <2>3, <2>4 DEF Closed
  <1>8. AddAhead'
    <2> SUFFICES ASSUME NEW a \in Threads, Adding(a)'
                 PROVE  /\ Alone(a)' /\ Untouched(a)' /\ Heading(a)' /\ Cleared(a)' /\ Overtaken(a)'
      BY DEF AddAhead
    <2>1. a = t /\ Adding(t)
      BY <1>e DEF Adding, Elsewhere, RegInv, Shape, LoopPcs
    <2>2. /\ Of(reg[t])' = Of(reg[t]) /\ reg'[t] = reg[t] /\ pc'[t] # "idle"
          /\ \A u \in Threads : u # t => (Closer(u)' <=> Closer(u))
          /\ ~Closer(t) /\ ~Closer(t)'
      BY <1>o, <1>e DEF Of, Closer, Elsewhere
    <2>c. Detacher(reg[t]) => Detacher(reg[t])'
      BY <1>o, <1>e DEF Detacher, Elsewhere
    <2>3. Alone(t) /\ Untouched(t) /\ Heading(t) /\ Cleared(t) /\ Overtaken(t)
      BY <2>1 DEF RegInv, AddAhead
    <2>4. Alone(t)'
      BY <1>e, <2>2, <2>3 DEF Alone, Elsewhere
    <2>5. Untouched(t)'
      BY <1>e, <2>2, <2>3 DEF Untouched
    <2>6. Heading(t)'
      BY <1>e, <2>2, <2>3 DEF Heading, Elsewhere
    <2>7. Cleared(t)'
      <3>1. Of(reg[t]) \subseteq Readers
        BY <1>f DEF Of, AtReader
      <3>2. \A x \in Readers : owner'[x] # reg[t] /\ ~claiming'[x] => owner[x] # reg[t] /\ ~claiming[x]
        BY <1>e
      <3>3. QED
        BY <2>2, <2>c, <2>3, <3>1, <3>2 DEF Cleared
    <2>8. Overtaken(t)'
      BY <1>e, <2>1, <2>2, <2>c, <2>3 DEF Overtaken, Adding, LoopPcs
    <2>9. QED
      BY <2>1, <2>4, <2>5, <2>6, <2>7, <2>8
  <1>9. CloserReleases'
    BY <1>e
    DEF RegInv, CloserReleases, Closer, Passed, Reader, Of, HoldPcs, LoopPcs, Shape, Elsewhere
  <1>10. SingleReleased'
    BY <1>e DEF RegInv, SingleReleased, Holder, HoldPcs, LoopPcs, Shape, Elsewhere
  <1>11. Detachable'
    BY <1>e DEF RegInv, Detachable, Reader, Shape, Elsewhere
  <1>12. NativeKept'
    BY <1>e, NativeStays DEF Elsewhere
  <1>13. QED
    BY <1>1, <1>2, <1>3, <1>4, <1>5, <1>6, <1>7, <1>8, <1>9, <1>10, <1>11, <1>12 DEF RegInv

\* add() returns and unlocks mutex_.
LEMMA AddUnlockKeeps ==
  ASSUME RegInv, NEW t \in Threads, AddUnlock(t)
  PROVE  RegInv'
  <1>w. pc[t] \in WorkPcs
    BY DEF AddUnlock, WorkPcs, ClaimPcs, HoldPcs, LoopPcs
  <1>f. AtReader(t)
    BY <1>w, WorkTyped
  <1>o. op[t] = "add"
    BY DEF RegInv, Shape, AddUnlock, ClaimPcs, ClosePcs
  <1>e. /\ Elsewhere(t)
        /\ pc[t] = "add_unlock" /\ pc'[t] = "idle"
        /\ op'[t] = op[t]
        /\ reg'[t] = reg[t]
        /\ arg'[t] = arg[t]
        /\ idx'[t] = idx[t]
        /\ failed'[t] = failed[t]
        /\ mutex' = NoThread
        /\ UNCHANGED <<listed, created, members, phase, condition, native, claiming, closing,
                       owner, lifecycle, deleted>>
    BY DEF AddUnlock, Goto, Elsewhere, RegInv, TypeOK, setVars, nativeVars, readerVars,
           callVars, boundVars, Regs
  <1>x. /\ pc' = [pc EXCEPT ![t] = pc'[t]]
    BY DEF RegInv, TypeOK, Regs, AddUnlock, Goto, setVars, nativeVars, readerVars, callVars,
           boundVars
  <1>y. UNCHANGED <<op, reg, arg, idx, failed>>
    BY DEF AddUnlock, Goto, callVars
  <1>1. TypeOK'
    <2>1. PlainTyped'
      BY DEF RegInv, TypeOK, PlainTyped, Pairs, Regs, AddUnlock, Goto, setVars, nativeVars,
             readerVars, callVars, boundVars
    <2>2. RegsTyped'
      BY <1>e DEF RegInv, TypeOK, RegsTyped
    <2>3. ReadersTyped'
      BY DEF RegInv, TypeOK, ReadersTyped, AddUnlock, Goto, setVars, nativeVars, readerVars,
             callVars, boundVars
    <2>4. ThreadsTyped'
      <3>1. pc'[t] \in Pcs
        BY <1>e DEF RegInv, TypeOK, Pcs, Regs
      <3>2. QED
        BY <1>x, <1>y, <3>1 DEF RegInv, TypeOK, ThreadsTyped
    <2>5. Within(t)'
      BY <1>e DEF RegInv, TypeOK, Shape, Within, Regs
    <2>6. \A u \in Threads : u # t => Within(u)'
      BY <1>e DEF RegInv, TypeOK, Within, Elsewhere
    <2>7. QED
      BY <2>1, <2>2, <2>3, <2>4, <2>5, <2>6
      DEF TypeOK, PlainTyped, RegsTyped, ReadersTyped, ThreadsTyped, Within
  <1>2. Shape'
    BY <1>e DEF RegInv, Shape, ClaimPcs, HoldPcs, LoopPcs, WorkPcs, ClosePcs, Elsewhere
  <1>3. Numbered'
    BY <1>e DEF RegInv, Numbered, Of, Elsewhere
  <1>4. Claimed'
    BY <1>e DEF RegInv, Claimed, Holds, Marks, ClaimPcs, Shape, Elsewhere
  <1>5. Fresh'
    BY <1>e DEF RegInv, Fresh, Unpublished, ClaimPcs, Shape, Elsewhere
  <1>6. OneHolder'
    BY <1>e DEF RegInv, OneHolder, Holder, HoldPcs, LoopPcs, Shape, Elsewhere
  <1>7. Closed'
    BY <1>e
    DEF RegInv, Closed, Apart, GivenUp, Destroying, Closer, WorkPcs, HoldPcs, LoopPcs, Shape,
        Elsewhere
  <1>8. AddAhead'
    BY <1>e DEF RegInv, AddAhead, Adding, LoopPcs, ClosePcs, Shape, Elsewhere
  <1>9. CloserReleases'
    BY <1>e
    DEF RegInv, CloserReleases, Closer, Passed, Reader, Of, HoldPcs, LoopPcs, Shape, Elsewhere
  <1>10. SingleReleased'
    BY <1>e DEF RegInv, SingleReleased, Holder, HoldPcs, LoopPcs, Shape, Elsewhere
  <1>11. Detachable'
    BY <1>e DEF RegInv, Detachable, Reader, Shape, Elsewhere
  <1>12. NativeKept'
    BY <1>e, NativeStays DEF Elsewhere
  <1>13. QED
    BY <1>1, <1>2, <1>3, <1>4, <1>5, <1>6, <1>7, <1>8, <1>9, <1>10, <1>11, <1>12 DEF RegInv

\* remove() or the sweep of wait() sets out to detach a listed registration.
LEMMA RemoveKeeps ==
  ASSUME RegInv, NEW t \in Threads, NEW n \in Regs, Remove(t, n)
  PROVE  RegInv'
  <1>m. \A u \in Threads : pc[u] # "idle" => op[u] # "add"
    BY ReaderRegistrationAssumption DEF RegInv, Shape, Remove
  <1>e. /\ Elsewhere(t)
        /\ pc[t] = "idle" /\ pc'[t] = "detach" /\ op'[t] = "remove" /\ idx'[t] = 1 /\ ~failed'[t]
        /\ reg'[t] = n /\ arg'[t] = arg[t] /\ n \in listed
        /\ mutex = NoThread
        /\ UNCHANGED <<mutex, listed, created, members, phase, condition, native, claiming,
                       closing, owner, lifecycle, deleted>>
    BY DEF Remove, Begin, Goto, Elsewhere, RegInv, TypeOK, setVars, nativeVars, readerVars, Regs
  <1>x. /\ pc' = [pc EXCEPT ![t] = pc'[t]]
        /\ op' = [op EXCEPT ![t] = op'[t]]
        /\ idx' = [idx EXCEPT ![t] = idx'[t]]
        /\ failed' = [failed EXCEPT ![t] = failed'[t]]
        /\ reg' = [reg EXCEPT ![t] = reg'[t]]
        /\ calls' = [calls EXCEPT ![t] = calls'[t]]
    BY DEF RegInv, TypeOK, Regs, Remove, Begin, Goto, setVars, nativeVars, readerVars
  <1>y. UNCHANGED <<arg>>
    BY DEF Remove, Begin, Goto
  <1>1. TypeOK'
    <2>1. PlainTyped'
      BY ReaderRegistrationAssumption
      DEF RegInv, TypeOK, PlainTyped, Pairs, Regs, Remove, Begin, Goto, setVars, nativeVars,
          readerVars
    <2>2. RegsTyped'
      BY <1>e DEF RegInv, TypeOK, RegsTyped
    <2>3. ReadersTyped'
      BY DEF RegInv, TypeOK, ReadersTyped, Remove, Begin, Goto, setVars, nativeVars, readerVars
    <2>4. ThreadsTyped'
      <3>1. pc'[t] \in Pcs
        BY <1>e DEF RegInv, TypeOK, Pcs, Regs
      <3>2. op'[t] \in AllOperations \union {"none"}
        BY <1>e DEF RegInv, TypeOK, AllOperations, Regs
      <3>3. reg'[t] \in 0..MaxRegistrations
        BY <1>e DEF RegInv, TypeOK, Regs
      <3>4. idx'[t] \in Nat \ {0}
        BY <1>e DEF RegInv, TypeOK, Regs
      <3>5. failed' \in [Threads -> BOOLEAN]
        BY DEF RegInv, TypeOK, Remove, Begin, Goto
      <3>6. QED
        BY <1>x, <1>y, <3>1, <3>2, <3>3, <3>4, <3>5 DEF RegInv, TypeOK, ThreadsTyped
    <2>5. Within(t)'
      BY <1>e DEF RegInv, TypeOK, Shape, Within, Regs
    <2>6. \A u \in Threads : u # t => Within(u)'
      BY <1>e DEF RegInv, TypeOK, Within, Elsewhere
    <2>7. QED
      BY <2>1, <2>2, <2>3, <2>4, <2>5, <2>6
      DEF TypeOK, PlainTyped, RegsTyped, ReadersTyped, ThreadsTyped, Within
  <1>2. Shape'
    <2>1. members[n] \in Waitables /\ n <= created /\ n # 0
      BY <1>e DEF RegInv, Numbered, Regs
    <2>2. members[n] \in Seq(Readers) /\ members[n] # << >>
      BY <2>1, ReaderRegistrationAssumption
    <2>3. 1 \in DOMAIN members[n]
      BY <2>2
    <2>4. QED
      BY <1>e, <2>1, <2>3
      DEF RegInv, Shape, ClaimPcs, HoldPcs, LoopPcs, WorkPcs, ClosePcs, Elsewhere
  <1>3. Numbered'
    BY <1>e DEF RegInv, Numbered, Of, Elsewhere
  <1>4. Claimed'
    BY <1>e DEF RegInv, Claimed, Holds, Marks, ClaimPcs, Shape, Elsewhere
  <1>5. Fresh'
    BY <1>e DEF RegInv, Fresh, Unpublished, ClaimPcs, Shape, Elsewhere
  <1>6. OneHolder'
    BY <1>e DEF RegInv, OneHolder, Holder, HoldPcs, LoopPcs, Shape, Elsewhere
  <1>7. Closed'
    BY <1>e
    DEF RegInv, Closed, Apart, GivenUp, Destroying, Closer, WorkPcs, HoldPcs, LoopPcs, Shape,
        Elsewhere
  <1>8. AddAhead'
    BY <1>m, <1>e DEF RegInv, AddAhead, Adding, LoopPcs, ClosePcs, Shape, Elsewhere
  <1>9. CloserReleases'
    BY <1>e
    DEF RegInv, CloserReleases, Closer, Passed, Reader, Of, HoldPcs, LoopPcs, Shape, Elsewhere
  <1>10. SingleReleased'
    BY <1>e DEF RegInv, SingleReleased, Holder, HoldPcs, LoopPcs, Shape, Elsewhere
  <1>11. Detachable'
    BY <1>e DEF RegInv, Detachable, Reader, Shape, Elsewhere
  <1>12. NativeKept'
    BY <1>e, NativeStays DEF Elsewhere
  <1>13. QED
    BY <1>1, <1>2, <1>3, <1>4, <1>5, <1>6, <1>7, <1>8, <1>9, <1>10, <1>11, <1>12 DEF RegInv

\* detach() exchanges the phase: one thread wins, the others are told false.
LEMMA DetachCasKeeps ==
  ASSUME RegInv, NEW t \in Threads, DetachCas(t)
  PROVE  RegInv'
  <1>w. pc[t] \in WorkPcs
    BY DEF DetachCas, WorkPcs, ClaimPcs, HoldPcs, LoopPcs
  <1>f. AtReader(t)
    BY <1>w, WorkTyped
  <1>e. /\ Elsewhere(t)
        /\ pc[t] = "detach"
        /\ op'[t] = op[t]
        /\ reg'[t] = reg[t]
        /\ arg'[t] = arg[t]
        /\ idx'[t] = idx[t]
        /\ \/ /\ phase[reg[t]] = "Attached" /\ phase'[reg[t]] = "Detaching"
              /\ \A n \in Regs : n # reg[t] => phase'[n] = phase[n]
              /\ pc'[t] = "release" /\ failed'[t] = failed[t]
           \/ /\ phase[reg[t]] # "Attached" /\ phase' = phase /\ failed'[t] = TRUE
              /\ pc'[t] = Return(op[t])
        /\ UNCHANGED <<mutex, listed, created, members, condition, native, claiming, closing,
                       owner, lifecycle, deleted>>
    <2>1. Elsewhere(t)
      BY DEF RegInv, TypeOK, Elsewhere, DetachCas, Goto, Return
    <2>2. UNCHANGED <<mutex, listed, created, members, condition, native, claiming, closing,
                      owner, lifecycle, deleted>>
      BY DEF DetachCas, Goto, Return, setVars, nativeVars, readerVars, boundVars
    <2>3. /\ pc[t] = "detach"
          /\ op'[t] = op[t]
          /\ reg'[t] = reg[t]
          /\ arg'[t] = arg[t]
          /\ idx'[t] = idx[t]
      BY DEF RegInv, TypeOK, DetachCas, Goto, Return
    <2>4. \/ /\ phase[reg[t]] = "Attached" /\ phase'[reg[t]] = "Detaching"
             /\ \A n \in Regs : n # reg[t] => phase'[n] = phase[n]
             /\ pc'[t] = "release" /\ failed'[t] = failed[t]
          \/ /\ phase[reg[t]] # "Attached" /\ phase' = phase /\ failed'[t] = TRUE
             /\ pc'[t] = Return(op[t])
      BY <1>f, <2>3 DEF RegInv, TypeOK, AtReader, DetachCas, Goto, Return
    <2>5. QED
      BY <2>1, <2>2, <2>3, <2>4
  <1>x. /\ pc' = [pc EXCEPT ![t] = pc'[t]]
        /\ phase' = [phase EXCEPT ![reg[t]] = phase'[reg[t]]]
        /\ failed' = [failed EXCEPT ![t] = failed'[t]]
    <2>1. pc' = [pc EXCEPT ![t] = pc'[t]]
      BY DEF RegInv, TypeOK, DetachCas, Goto, Return, readerVars
    <2>2. phase' = [phase EXCEPT ![reg[t]] = phase'[reg[t]]]
      BY DEF RegInv, TypeOK, DetachCas, Goto, Return, readerVars
    <2>3. failed' = [failed EXCEPT ![t] = failed'[t]]
      BY DEF RegInv, TypeOK, DetachCas, Goto, Return, readerVars
    <2>4. QED
      BY <2>1, <2>2, <2>3
  <1>y. UNCHANGED <<op, reg, arg, idx>>
    BY DEF DetachCas, Goto, Return
  <1>1. TypeOK'
    <2>1. PlainTyped'
      BY DEF RegInv, TypeOK, PlainTyped, Pairs, Regs, DetachCas, Goto, Return, setVars,
             nativeVars, readerVars, boundVars
    <2>2. RegsTyped'
      <3>1. /\ members' \in [Regs -> Waitables \union {<< >>}]
        BY <1>e DEF RegInv, TypeOK
      <3>2. phase' \in [Regs -> {"unused", "Attached", "Detaching", "Detached"}]
        <4>1. phase \in [Regs -> {"unused", "Attached", "Detaching", "Detached"}]
          BY DEF RegInv, TypeOK
        <4>2. phase'[reg[t]] \in {"unused", "Attached", "Detaching", "Detached"}
          BY <1>f, <1>e, <4>1 DEF AtReader, Return, Regs
        <4>3. QED
          BY <1>x, <4>1, <4>2
      <3>3. QED
        BY <3>1, <3>2 DEF RegsTyped
    <2>3. ReadersTyped'
      <3>1. /\ claiming' \in [Readers -> BOOLEAN]
            /\ closing' \in [Readers -> BOOLEAN]
            /\ owner' \in [Readers -> 0..MaxRegistrations]
            /\ lifecycle' \in [Readers -> {"Open", "DeleteDeferredByWaitSet", "Closed"}]
        BY <1>e DEF RegInv, TypeOK
      <3>2. callback' \in [Readers -> Threads \union {NoThread}]
        BY DEF RegInv, TypeOK, DetachCas, Goto, Return
      <3>3. QED
        BY <3>1, <3>2 DEF ReadersTyped
    <2>4. ThreadsTyped'
      <3>1. pc'[t] \in Pcs
        BY <1>e DEF RegInv, TypeOK, Pcs, Return, Regs
      <3>2. failed' \in [Threads -> BOOLEAN]
        BY DEF RegInv, TypeOK, DetachCas, Goto, Return
      <3>3. QED
        BY <1>x, <1>y, <3>1, <3>2 DEF RegInv, TypeOK, ThreadsTyped
    <2>5. Within(t)'
      BY <1>e DEF RegInv, TypeOK, Shape, Within, Regs
    <2>6. \A u \in Threads : u # t => Within(u)'
      BY <1>e DEF RegInv, TypeOK, Within, Elsewhere
    <2>7. QED
      BY <2>1, <2>2, <2>3, <2>4, <2>5, <2>6
      DEF TypeOK, PlainTyped, RegsTyped, ReadersTyped, ThreadsTyped, Within
  <1>2. Shape'
    BY <1>e DEF RegInv, Shape, ClaimPcs, HoldPcs, LoopPcs, WorkPcs, ClosePcs, Elsewhere, Return
  <1>3. Numbered'
    BY <1>e DEF RegInv, Numbered, Of, Elsewhere, Return
  <1>4. Claimed'
    <2>1. pc[t] \notin ClaimPcs /\ pc'[t] \notin ClaimPcs
      BY <1>e DEF ClaimPcs, Return
    <2>2. \A u \in Threads : u # t => pc'[u] = pc[u] /\ reg'[u] = reg[u] /\ idx'[u] = idx[u]
      BY <1>e DEF Elsewhere
    <2>3. \A u \in Threads : u # t => \A i : Holds(u, i)' <=> Holds(u, i)
      BY <2>2 DEF Holds
    <2>4. \A u \in Threads, x \in Readers : Marks(u, x) => Marks(u, x)'
      BY <1>e, <2>1, <2>2, <2>3 DEF Marks
    <2>5. \A x \in Readers : owner[x] = 0 => owner'[x] = 0
      BY <1>e
    <2>6. QED
      BY <1>e, <2>1, <2>2, <2>3, <2>4, <2>5 DEF RegInv, Claimed
  <1>5. Fresh'
    <2>1. pc'[t] \notin ClaimPcs \union {"insert"}
      BY <1>e DEF ClaimPcs, Return
    <2>2. \A u \in Threads : u # t /\ Unpublished(u) => reg[u] \in Regs /\ reg[u] # reg[t]
      BY DEF RegInv, Shape, Fresh, Unpublished, WorkPcs, ClaimPcs, TypeOK, Regs
    <2>3. \A u \in Threads : u # t => (Unpublished(u)' <=> Unpublished(u))
      BY <1>e DEF Elsewhere, Unpublished
    <2>4. ~Unpublished(t)'
      BY <2>1 DEF Unpublished, ClaimPcs
    <2>5. QED
      BY <1>e, <2>1, <2>2, <2>3, <2>4 DEF RegInv, Fresh, Elsewhere
  <1>6. OneHolder'
    <2>1. \A u \in Threads : u # t => (Holder(u)' <=> Holder(u)) /\ reg'[u] = reg[u]
      BY <1>e DEF Elsewhere, Holder
    <2>2. \A u \in Threads : Holder(u) => reg[u] \in Regs
      BY DEF RegInv, TypeOK, Shape, Holder, WorkPcs, Regs
    <2>3. CASE phase[reg[t]] = "Attached"
      <3>1. \A u \in Threads : Holder(u) => reg[u] # reg[t]
        BY <2>3 DEF RegInv, OneHolder
      <3>2. QED
        BY <1>e, <2>1, <2>2, <2>3, <3>1 DEF RegInv, OneHolder
    <2>4. CASE phase[reg[t]] # "Attached"
      <3>1. ~Holder(t)'
        BY <1>e, <2>4 DEF Holder, HoldPcs, LoopPcs, Return
      <3>2. QED
        BY <1>e, <2>1, <2>4, <3>1 DEF RegInv, OneHolder
    <2>5. QED
      BY <2>3, <2>4
  <1>7. Closed'
    BY <1>e
    DEF RegInv, Closed, Apart, GivenUp, Destroying, Closer, WorkPcs, HoldPcs, LoopPcs, Shape,
        Elsewhere, Return
  <1>8. AddAhead'
    <2> SUFFICES ASSUME NEW a \in Threads, Adding(a)'
                 PROVE  /\ Alone(a)' /\ Untouched(a)' /\ Heading(a)' /\ Cleared(a)' /\ Overtaken(a)'
      BY DEF AddAhead
    <2>1. /\ Adding(a) /\ op'[a] = op[a] /\ reg'[a] = reg[a] /\ pc[a] \in WorkPcs
          /\ a = t => pc[t] \in LoopPcs /\ pc'[t] \in LoopPcs
      <3>1. CASE a # t
        BY <1>e, <3>1 DEF Adding, Elsewhere, LoopPcs, WorkPcs, ClaimPcs, HoldPcs
      <3>2. CASE a = t
        BY <1>e, <3>2 DEF RegInv, Shape, Adding, Return, LoopPcs, WorkPcs, ClaimPcs, HoldPcs
      <3>3. QED
        BY <3>1, <3>2
    <2>2. AtReader(a) /\ Of(reg[a])' = Of(reg[a])
      BY <1>e, <2>1, WorkTyped DEF Of
    <2>r. Of(reg[a]) \subseteq Readers
      BY <2>2 DEF AtReader, Of
    <2>3. Alone(a) /\ Untouched(a) /\ Heading(a) /\ Cleared(a) /\ Overtaken(a)
      BY <2>1 DEF RegInv, AddAhead
    <2>d. a # t => op[t] \in {"remove", "close"}
      BY <1>e, <2>1, <2>2 DEF RegInv, Shape, AtReader, Adding
    <2>4. Detacher(reg[a]) => Detacher(reg[a])'
      <3>1. op[t] = "close" /\ pc[t] \in HoldPcs => pc'[t] \in HoldPcs \union {"poison"}
        BY <1>e DEF HoldPcs, LoopPcs
      <3>2. pc[t] # "poison" /\ (a = t => op[t] = "add")
        BY <1>e, <2>1 DEF Adding
      <3>3. QED
        BY <1>e, <3>1, <3>2, <2>1 DEF Detacher, Elsewhere
    <2>5. Alone(a)'
      BY <1>e, <2>1, <2>3, <2>d DEF Alone, Elsewhere, LoopPcs
    <2>6. Untouched(a)'
      BY <1>e, <2>1, <2>2, <2>r, <2>3 DEF Untouched
    <2>7. Heading(a)'
      <3>1. \A u \in Threads : u # t => (Closer(u)' <=> Closer(u))
        BY <1>e DEF Closer, Elsewhere
      <3>2. CASE Closer(t)' /\ arg[t] \in Of(reg[a])
        <4>1. Closer(t)
          BY <1>e, <3>2 DEF Closer
        <4>2. reg[t] = reg[a]
          BY <1>e, <2>3, <3>2, <4>1 DEF Heading
        <4>3. phase[reg[t]] = "Attached"
          <5> SUFFICES ASSUME phase[reg[t]] # "Attached" PROVE FALSE
            OBVIOUS
          <5>1. Detacher(reg[a])
            BY <2>3, <4>2 DEF Overtaken
          <5>2. QED
            BY <1>e, <2>1, <3>2, <4>1, <5>1, DetacherIs DEF HoldPcs, LoopPcs
        <4>4. pc'[t] \notin ClosePcs
          BY <1>e, <4>3 DEF ClosePcs
        <4>5. QED
          BY <1>e, <2>1, <2>2, <2>3, <3>1, <4>2, <4>4 DEF Heading, Elsewhere
      <3>3. CASE ~(Closer(t)' /\ arg[t] \in Of(reg[a]))
        BY <1>e, <2>1, <2>2, <2>3, <3>1, <3>3 DEF Heading, Elsewhere
      <3>4. QED
        BY <3>2, <3>3
    <2>8. Cleared(a)'
      BY <1>e, <2>1, <2>2, <2>3, <2>4 DEF Cleared
    <2>9. Overtaken(a)'
      <3>1. CASE reg[t] = reg[a] /\ phase[reg[t]] = "Attached"
        <4>1. a # t /\ op[t] = "close"
          BY <1>e, <2>1, <2>3, <3>1 DEF Alone, LoopPcs
        <4>2. QED
          BY <1>e, <2>1, <3>1, <4>1 DEF Overtaken, Detacher, HoldPcs, LoopPcs
      <3>2. CASE ~(reg[t] = reg[a] /\ phase[reg[t]] = "Attached")
        <4>1. phase'[reg[a]] = phase[reg[a]] /\ (pc'[a] \in LoopPcs => pc[a] \in LoopPcs)
          BY <1>e, <2>1, <2>2, <3>2 DEF AtReader, Elsewhere
        <4>2. QED
          BY <2>1, <2>3, <2>4, <4>1 DEF Overtaken
      <3>3. QED
        BY <3>1, <3>2
    <2>10. QED
      BY <2>5, <2>6, <2>7, <2>8, <2>9
  <1>9. CloserReleases'
    BY <1>f, <1>e
    DEF RegInv, CloserReleases, Closer, Passed, Reader, Of, HoldPcs, LoopPcs, Shape,
        Elsewhere, Return, AtReader
  <1>10. SingleReleased'
    BY <1>e DEF RegInv, SingleReleased, Holder, HoldPcs, LoopPcs, Shape, Elsewhere, Return
  <1>11. Detachable'
    BY <1>e DEF RegInv, Detachable, Reader, Shape, Elsewhere, Return
  <1>12. NativeKept'
    BY <1>e, NativeStays DEF Elsewhere, Return
  <1>13. QED
    BY <1>1, <1>2, <1>3, <1>4, <1>5, <1>6, <1>7, <1>8, <1>9, <1>10, <1>11, <1>12 DEF RegInv

\* release() looks whether the reader is still ours.
LEMMA ReleaseKeeps ==
  ASSUME RegInv, NEW t \in Threads, Release(t)
  PROVE  RegInv'
  <1>w. pc[t] \in WorkPcs
    BY DEF Release, WorkPcs, ClaimPcs, HoldPcs, LoopPcs
  <1>f. AtReader(t)
    BY <1>w, WorkTyped
  <1>e. /\ Elsewhere(t)
        /\ pc[t] = "release"
        /\ op'[t] = op[t]
        /\ reg'[t] = reg[t]
        /\ arg'[t] = arg[t]
        /\ failed'[t] = failed[t]
        /\ \/ owner[Reader(t)] # reg[t] /\ Advances(t, "release", Released(t))
           \/ owner[Reader(t)] = reg[t] /\ idx'[t] = idx[t] /\ pc'[t] \in {"rel_native", "rel_clear"}
        /\ UNCHANGED <<mutex, listed, created, members, phase, condition, native, claiming,
                       closing, owner, lifecycle, deleted>>
    BY <1>f
    DEF Release, Reader, LastReader, Free, Advance, Goto, Elsewhere, RegInv, TypeOK, setVars,
        nativeVars, readerVars, boundVars, Regs, AtReader, Advances
  <1>r. pc'[t] = "rel_clear" => <<reg[t], Reader(t)>> \notin condition
    <2>1. CASE owner[Reader(t)] # reg[t]
      BY <1>e, <2>1 DEF Advances, Released
    <2>2. CASE owner[Reader(t)] = reg[t]
      BY <2>2 DEF Release, Goto, RegInv, TypeOK
    <2>3. QED
      BY <2>1, <2>2
  <1>x. /\ pc' = [pc EXCEPT ![t] = pc'[t]]
        /\ idx' = [idx EXCEPT ![t] = idx'[t]]
    <2>1. pc' = [pc EXCEPT ![t] = pc'[t]]
      BY DEF RegInv, TypeOK, Release, Reader, LastReader, Free, Advance, Goto, readerVars
    <2>2. idx' = [idx EXCEPT ![t] = idx'[t]]
      BY DEF RegInv, TypeOK, Release, Reader, LastReader, Free, Advance, Goto, readerVars
    <2>3. QED
      BY <2>1, <2>2
  <1>y. UNCHANGED <<op, reg, arg, failed>>
    BY DEF Release, Reader, LastReader, Free, Advance, Goto
  <1>1. TypeOK'
    <2>1. PlainTyped'
      <3>1. /\ mutex' \in Threads \union {NoThread}
            /\ created' \in 0..MaxRegistrations
            /\ listed' \in SUBSET Regs
            /\ condition' \in SUBSET Pairs
            /\ native' \in SUBSET Pairs
            /\ deleted' \in SUBSET Readers
        BY <1>e DEF RegInv, TypeOK
      <3>2. poisoned' \in BOOLEAN
        BY DEF RegInv, TypeOK, Regs, Release, Reader, LastReader, Free, Advance, Goto,
               Released, setVars, nativeVars, readerVars, boundVars
      <3>3. faults' \in 0..MaxFaults
        <4>1. faults' = faults
          BY DEF Release, Reader, LastReader, Free, Advance, Goto, boundVars
        <4>2. QED
          BY <4>1 DEF RegInv, TypeOK
      <3>4. calls' \in [Threads -> 0..MaxCalls]
        <4>1. calls' = calls
          BY DEF Release, Reader, LastReader, Free, Advance, Goto, boundVars
        <4>2. QED
          BY <4>1 DEF RegInv, TypeOK
      <3>5. QED
        BY <3>1, <3>2, <3>3, <3>4 DEF PlainTyped
    <2>2. RegsTyped'
      BY <1>e DEF RegInv, TypeOK, RegsTyped
    <2>3. ReadersTyped'
      <3>1. /\ claiming' \in [Readers -> BOOLEAN]
            /\ closing' \in [Readers -> BOOLEAN]
            /\ owner' \in [Readers -> 0..MaxRegistrations]
            /\ lifecycle' \in [Readers -> {"Open", "DeleteDeferredByWaitSet", "Closed"}]
        BY <1>e DEF RegInv, TypeOK
      <3>2. callback' \in [Readers -> Threads \union {NoThread}]
        BY DEF RegInv, TypeOK, Release, Reader, LastReader, Free, Advance, Goto
      <3>3. QED
        BY <3>1, <3>2 DEF ReadersTyped
    <2>4. ThreadsTyped'
      <3>1. pc'[t] \in Pcs
        BY <1>e DEF RegInv, TypeOK, Pcs, Advances, Released, Regs
      <3>2. idx'[t] \in Nat \ {0}
        BY <1>f, <1>e DEF AtReader, Advances
      <3>3. QED
        BY <1>x, <1>y, <3>1, <3>2 DEF RegInv, TypeOK, ThreadsTyped
    <2>5. Within(t)'
      <3>1. idx'[t] \in 1..Len(members[reg[t]])
        BY <1>f, <1>e DEF AtReader, Advances
      <3>2. QED
        BY <1>f, <1>e, <3>1 DEF Within, AtReader, Regs
    <2>6. \A u \in Threads : u # t => Within(u)'
      BY <1>e DEF RegInv, TypeOK, Within, Elsewhere
    <2>7. QED
      BY <2>1, <2>2, <2>3, <2>4, <2>5, <2>6
      DEF TypeOK, PlainTyped, RegsTyped, ReadersTyped, ThreadsTyped, Within
  <1>2. Shape'
    <2>1. /\ reg'[t] = reg[t] /\ reg[t] # 0 /\ reg[t] <= created' /\ op'[t] = op[t]
          /\ idx'[t] \in DOMAIN members'[reg'[t]] /\ mutex' = mutex /\ failed'[t] = failed[t]
      BY <1>f, <1>e DEF AtReader, Advances, Regs
    <2>2. op[t] = "add" => mutex = t
      BY <1>e DEF RegInv, Shape
    <2>3. /\ pc[t] # "idle" /\ op[t] \in {"add", "remove", "close"}
          /\ pc'[t] \in {"detach", "rel_failed", "erase"} /\ op[t] = "add" => failed[t]
          /\ pc'[t] \notin {"idle", "close_wait", "detach", "insert"} \union ClosePcs
          /\ pc'[t] \in ClaimPcs \union {"add_unlock"} => op[t] = "add"
          /\ pc'[t] = "erase" => idx'[t] = 1
      BY <1>e DEF RegInv, Shape, Advances, Released, ClaimPcs, ClosePcs
    <2>4. QED
      BY <1>e, <2>1, <2>2, <2>3 DEF RegInv, Shape, Elsewhere, ClaimPcs
  <1>3. Numbered'
    BY <1>e DEF RegInv, Numbered, Of, Elsewhere, Advances, Reader, Released
  <1>4. Claimed'
    <2>1. pc[t] \notin ClaimPcs /\ pc'[t] \notin ClaimPcs
      BY <1>e DEF ClaimPcs, Advances, Released
    <2>2. \A u \in Threads : u # t => pc'[u] = pc[u] /\ reg'[u] = reg[u] /\ idx'[u] = idx[u]
      BY <1>e DEF Elsewhere
    <2>3. \A u \in Threads : u # t => \A i : Holds(u, i)' <=> Holds(u, i)
      BY <2>2 DEF Holds
    <2>4. \A u \in Threads, x \in Readers : Marks(u, x) => Marks(u, x)'
      BY <1>e, <2>1, <2>2, <2>3 DEF Marks
    <2>5. \A x \in Readers : owner[x] = 0 => owner'[x] = 0
      BY <1>e
    <2>6. QED
      BY <1>e, <2>1, <2>2, <2>3, <2>4, <2>5 DEF RegInv, Claimed
  <1>5. Fresh'
    BY <1>e
    DEF RegInv, Fresh, Unpublished, ClaimPcs, Shape, Elsewhere, Advances, Reader, Released
  <1>6. OneHolder'
    BY <1>e
    DEF RegInv, OneHolder, Holder, HoldPcs, LoopPcs, Shape, Elsewhere, Advances, Reader,
        Released
  <1>7. Closed'
    <2>1. /\ arg' = arg /\ pc'[t] \notin ClosePcs
          /\ \A u \in Threads : u # t => (Closer(u)' <=> Closer(u))
          /\ Closer(t)' => Closer(t) /\ pc[t] \notin ClosePcs
      BY <1>e DEF Closer, ClosePcs, Elsewhere, Advances, Released, Release
    <2>2. Apart'
      BY <2>1 DEF RegInv, Closed, Apart
    <2>3. GivenUp'
      BY <1>e DEF RegInv, Closed, GivenUp
    <2>4. \A u \in Threads : Closer(u)' => Destroying(u)'
      <3> SUFFICES ASSUME NEW u \in Threads, Closer(u)' PROVE Destroying(u)'
        OBVIOUS
      <3>1. Destroying(u) /\ arg[u] \in Readers
        BY <2>1 DEF RegInv, Closed, TypeOK
      <3>2. u = t => pc[u] # "close_wait" /\ pc'[u] \notin ClosePcs
        BY <2>1 DEF ClosePcs
      <3>3. lifecycle[arg[u]] # "Open" => lifecycle'[arg[u]] # "Open"
        BY <1>e, <3>1
      <3>4. QED
        BY <1>e, <2>1, <3>1, <3>2, <3>3 DEF Elsewhere, Destroying, ClosePcs
    <2>5. QED
      BY <2>2, <2>3, <2>4 DEF Closed
  <1>8. AddAhead'
    <2> SUFFICES ASSUME NEW a \in Threads, Adding(a)'
                 PROVE  /\ Alone(a)' /\ Untouched(a)' /\ Heading(a)' /\ Cleared(a)' /\ Overtaken(a)'
      BY DEF AddAhead
    <2>1. /\ Adding(a) /\ op'[a] = op[a] /\ reg'[a] = reg[a] /\ pc[a] \in WorkPcs
          /\ a = t => pc[t] \in LoopPcs /\ pc'[t] \in LoopPcs
      <3>1. CASE a # t
        BY <1>e, <3>1 DEF Adding, Elsewhere, LoopPcs, WorkPcs, ClaimPcs, HoldPcs
      <3>2. CASE a = t
        BY <1>e, <3>2
        DEF RegInv, Shape, Adding, Advances, Released, LoopPcs, WorkPcs, ClaimPcs, HoldPcs
      <3>3. QED
        BY <3>1, <3>2
    <2>2. AtReader(a) /\ Of(reg[a])' = Of(reg[a])
      BY <1>e, <2>1, WorkTyped DEF Of
    <2>r. Of(reg[a]) \subseteq Readers
      BY <2>2 DEF AtReader, Of
    <2>3. Alone(a) /\ Untouched(a) /\ Heading(a) /\ Cleared(a) /\ Overtaken(a)
      BY <2>1 DEF RegInv, AddAhead
    <2>d. a # t => op[t] \in {"remove", "close"}
      BY <1>e, <2>1, <2>2 DEF RegInv, Shape, AtReader, Adding
    <2>4. Detacher(reg[a]) => Detacher(reg[a])'
      <3>1. op[t] = "close" /\ pc[t] \in HoldPcs => pc'[t] \in HoldPcs \union {"poison"}
        BY <1>e DEF HoldPcs, LoopPcs, Advances, Released
      <3>2. pc[t] # "poison" /\ (a = t => op[t] = "add")
        BY <1>e, <2>1 DEF Adding
      <3>3. QED
        BY <1>e, <3>1, <3>2, <2>1 DEF Detacher, Elsewhere
    <2>5. Alone(a)'
      BY <1>e, <2>1, <2>3, <2>d DEF Alone, Elsewhere, LoopPcs
    <2>6. Untouched(a)'
      BY <1>e, <2>1, <2>2, <2>r, <2>3 DEF Untouched
    <2>7. Heading(a)'
      <3>1. /\ \A u \in Threads : u # t => (Closer(u)' <=> Closer(u))
            /\ Closer(t)' => Closer(t) /\ pc[t] # "close_wait" /\ pc'[t] \notin ClosePcs
        BY <1>e DEF Closer, Elsewhere, Advances, Released, ClosePcs
      <3>2. QED
        BY <1>e, <2>1, <2>2, <2>3, <3>1 DEF Heading, Elsewhere
    <2>8. Cleared(a)'
      BY <1>e, <2>1, <2>2, <2>3, <2>4 DEF Cleared
    <2>9. Overtaken(a)'
      BY <1>e, <2>1, <2>3, <2>4 DEF Overtaken, Elsewhere
    <2>10. QED
      BY <2>5, <2>6, <2>7, <2>8, <2>9
  <1>9. CloserReleases'
    <2> SUFFICES ASSUME NEW u \in Threads, Closer(u)' PROVE
            /\ pc'[u] \in HoldPcs \union {"detach"} =>
                 arg'[u] \in Of(reg[u])' /\ owner'[arg'[u]] \in {0, reg'[u]} /\ ~failed'[u]
            /\ pc'[u] = "poison" => failed'[u] /\ arg'[u] \in Of(reg[u])'
            /\ Passed(u)' => owner'[arg'[u]] = 0
      BY DEF CloserReleases
    <2>1. /\ pc[t] \in LoopPcs /\ arg[u] \in Readers
          /\ \A x \in Readers : owner'[x] \in {0, owner[x]}
      BY <1>e DEF RegInv, TypeOK, LoopPcs
    <2>2. CASE u # t
      <3>1. Closer(u) /\ Of(reg[u])' = Of(reg[u])
        BY <1>e, <2>2 DEF Closer, Elsewhere, Of
      <3>2. Passed(u)' <=> Passed(u)
        BY <1>e, <2>2 DEF Passed, Elsewhere, Reader
      <3>3. /\ pc[u] \in HoldPcs \union {"detach"} =>
                 arg[u] \in Of(reg[u]) /\ owner[arg[u]] \in {0, reg[u]} /\ ~failed[u]
            /\ pc[u] = "poison" => failed[u] /\ arg[u] \in Of(reg[u])
            /\ Passed(u) => owner[arg[u]] = 0
        BY <3>1 DEF RegInv, CloserReleases
      <3>4. QED
        BY <1>e, <2>1, <2>2, <3>1, <3>2, <3>3 DEF Elsewhere
    <2>3. CASE u = t
      <3>1. /\ op[t] = "close" /\ Closer(t) /\ Of(reg[t])' = Of(reg[t]) /\ Released(t) = "erase"
            /\ pc'[t] \in HoldPcs
        BY <1>e, <2>1, <2>3 DEF Closer, LoopPcs, Of, Advances, Released, HoldPcs
      <3>2. arg[t] \in Of(reg[t]) /\ owner[arg[t]] \in {0, reg[t]} /\ ~failed[t]
        BY <2>1, <3>1 DEF RegInv, CloserReleases, HoldPcs
      <3>3. \A j \in DOMAIN members[reg[t]] : j < idx[t] /\ members[reg[t]][j] = arg[t] => owner[arg[t]] = 0
        BY <2>1, <3>1 DEF RegInv, CloserReleases, Passed
      <3>4. Reader(t) = arg[t] /\ (Advances(t, "release", "erase") \/ pc'[t] = "rel_delete") => owner'[arg[t]] = 0
        BY <1>e, <2>1, <3>1, <3>2 DEF RegInv, CloserReleases, Passed, Advances
      <3>5. PICK k \in 1..Len(members[reg[t]]) : members[reg[t]][k] = arg[t]
        BY <1>f, <3>2 DEF Of, AtReader
      <3>6. \A j \in 1..Len(members[reg[t]]) : members[reg[t]][j] = arg[t] /\ j < idx[t] => owner'[arg[t]] = 0
        BY <2>1, <2>3, <3>3
      <3>7. Advances(t, "release", "erase") => \A j \in 1..Len(members[reg[t]]) :
               members[reg[t]][j] = arg[t] /\ (j < idx'[t] \/ pc'[t] = "erase") => owner'[arg[t]] = 0
        BY <1>f, <3>4, <3>6 DEF Advances, AtReader
      <3>8. ~Advances(t, "release", "erase") => idx'[t] = idx[t] /\ pc'[t] # "erase" /\ Reader(t)' = Reader(t)
        BY <1>e, <3>1 DEF Reader, Released
      <3>9. Passed(t)' => owner'[arg[t]] = 0
        <4> SUFFICES ASSUME Passed(t)' PROVE owner'[arg[t]] = 0
          OBVIOUS
        <4>1. arg' = arg /\ pc'[t] \in LoopPcs \union {"erase", "rel_failed"} /\ members'[reg'[t]] = members[reg[t]]
          BY <1>e, <3>1 DEF Advances, LoopPcs, Release
        <4>2. CASE Advances(t, "release", "erase")
          <5>1. pc'[t] \in {"release", "erase"}
            BY <4>2 DEF Advances
          <5>2. CASE pc'[t] = "erase"
            BY <3>5, <3>7, <4>2, <5>2
          <5>3. CASE pc'[t] = "release"
            <6>1. \E j \in DOMAIN members[reg[t]] : j < idx'[t] /\ members[reg[t]][j] = arg[t]
              BY <4>1, <5>3 DEF Passed, LoopPcs
            <6>2. QED
              BY <3>7, <4>2, <6>1
          <5>4. QED
            BY <5>1, <5>2, <5>3
        <4>3. CASE ~Advances(t, "release", "erase")
          <5>1. CASE \E j \in DOMAIN members[reg[t]] : j < idx[t] /\ members[reg[t]][j] = arg[t]
            BY <3>6, <5>1
          <5>2. CASE pc'[t] = "rel_delete" /\ Reader(t) = arg[t]
            BY <3>4, <5>2
          <5>3. QED
            BY <3>8, <4>1, <4>3, <5>1, <5>2 DEF Passed, LoopPcs
        <4>4. QED
          BY <4>2, <4>3
      <3>10. QED
        BY <2>1, <2>3, <3>1, <3>2, <3>9 DEF HoldPcs, LoopPcs, Release
    <2>4. QED
      BY <2>2, <2>3
  <1>10. SingleReleased'
    BY <1>e
    DEF RegInv, SingleReleased, Holder, HoldPcs, LoopPcs, Shape, Elsewhere, Advances, Reader,
        Released
  <1>11. Detachable'
    BY <1>e DEF RegInv, Detachable, Reader, Shape, Elsewhere, Advances, Released
  <1>12. NativeKept'
    <2> SUFFICES ASSUME "rollback" \notin Failing PROVE NativeInv'
      BY DEF NativeKept
    <2>1. /\ native \subseteq condition
          /\ \A m \in Regs, x \in Readers : <<m, x>> \in native => Backed(m, x)
          /\ \A u \in Threads : pc[u] = "rel_clear" => <<reg[u], Reader(u)>> \notin native
      BY DEF RegInv, NativeKept, NativeInv
    <2>2. \A m \in Regs, x \in Readers : Backed(m, x) => Backed(m, x)'
      <3>1. \A u \in Threads : pc[u] \in {"attach", "commit"} => /\ pc'[u] = pc[u] /\ reg'[u] = reg[u]
                                                               /\ \A i : Holds(u, i) => Holds(u, i)'
        BY <1>e DEF Elsewhere, Holds
      <3>2. QED
        BY <1>e, <3>1 DEF Backed
    <2>3. \A u \in Threads : pc'[u] = "rel_clear" =>
              <<reg'[u], Reader(u)'>> \notin native
      <3> SUFFICES ASSUME NEW u \in Threads, pc'[u] = "rel_clear"
                   PROVE  <<reg'[u], Reader(u)'>> \notin native
        OBVIOUS
      <3>1. reg'[u] = reg[u]
        BY <1>e DEF Elsewhere
      <3>2. CASE u = t
        <4>1. idx'[t] = idx[t]
          BY <1>e, <3>2 DEF Advances, Released
        <4>2. Reader(t)' = Reader(t)
          BY <1>e, <4>1 DEF Reader
        <4>3. QED
          BY <1>r, <2>1, <3>1, <3>2, <4>2
      <3>3. CASE u # t
        <4>1. pc[u] = "rel_clear" /\ Reader(u)' = Reader(u)
          BY <1>e, <3>3 DEF Elsewhere, Reader
        <4>2. QED
          BY <2>1, <3>1, <4>1
      <3>4. QED
        BY <3>2, <3>3
    <2>4. QED
      BY <1>e, <2>1, <2>2, <2>3 DEF NativeInv
  <1>13. QED
    BY <1>1, <1>2, <1>3, <1>4, <1>5, <1>6, <1>7, <1>8, <1>9, <1>10, <1>11, <1>12 DEF RegInv

\* release() detaches the condition natively.
LEMMA RelNativeKeeps ==
  ASSUME RegInv, NEW t \in Threads, RelNative(t)
  PROVE  RegInv'
  <1>w. pc[t] \in WorkPcs
    BY DEF RelNative, WorkPcs, ClaimPcs, HoldPcs, LoopPcs
  <1>f. AtReader(t)
    BY <1>w, WorkTyped
  <1>e. /\ Elsewhere(t)
        /\ pc[t] = "rel_native"
        /\ op'[t] = op[t]
        /\ reg'[t] = reg[t]
        /\ arg'[t] = arg[t]
        /\ idx'[t] = idx[t]
        /\ failed'[t] = failed[t]
        /\ \/ pc'[t] = "rel_clear"
           \/ pc'[t] = IF Released(t) = "add_unlock" THEN "add_unlock" ELSE "rel_failed"
        /\ UNCHANGED <<mutex, listed, created, members, phase, condition, claiming, closing,
                       owner, lifecycle, deleted>>
    BY DEF RelNative, Reader, Goto, NoFault, Fault, Elsewhere, RegInv, TypeOK, setVars,
           readerVars, callVars, boundVars, Regs
  <1>r. /\ native' \subseteq native
        /\ pc'[t] = "rel_clear" => native' = native \ {<<reg[t], Reader(t)>>}
    <2>1. CASE native' = native \ {<<reg[t], Reader(t)>>}
      BY <2>1
    <2>2. CASE native' = native /\ Goto(t, IF Released(t) = "add_unlock" THEN "add_unlock" ELSE "rel_failed")
      BY <2>2 DEF Goto, RegInv, TypeOK
    <2>3. QED
      BY <2>1, <2>2 DEF RelNative
  <1>x. /\ pc' = [pc EXCEPT ![t] = pc'[t]]
    BY DEF RegInv, TypeOK, Regs, RelNative, Reader, Goto, NoFault, Fault, Released, setVars,
           readerVars, callVars, boundVars
  <1>y. UNCHANGED <<op, reg, arg, idx, failed>>
    BY DEF RelNative, Reader, Goto, NoFault, Fault, callVars
  <1>1. TypeOK'
    <2>1. PlainTyped'
      <3>1. /\ mutex' \in Threads \union {NoThread}
            /\ created' \in 0..MaxRegistrations
            /\ listed' \in SUBSET Regs
            /\ condition' \in SUBSET Pairs
            /\ deleted' \in SUBSET Readers
        BY <1>e DEF RegInv, TypeOK
      <3>2. poisoned' \in BOOLEAN
        BY DEF RegInv, TypeOK, Regs, RelNative, Reader, Goto, NoFault, Fault, Released,
               setVars, readerVars, callVars, boundVars
      <3>3. faults' \in 0..MaxFaults
        <4>1. faults' = faults \/ (faults < MaxFaults /\ faults' = faults + 1)
          BY DEF RelNative, Reader, Goto, NoFault, Fault, boundVars
        <4>2. QED
          BY <4>1, ReaderRegistrationAssumption DEF RegInv, TypeOK
      <3>4. native' \in SUBSET Pairs
        BY DEF RegInv, TypeOK, Pairs, Regs, RelNative, Reader, Goto, NoFault, Fault, Released,
               setVars, readerVars, callVars, boundVars
      <3>5. calls' \in [Threads -> 0..MaxCalls]
        <4>1. calls' = calls
          BY DEF RelNative, Reader, Goto, NoFault, Fault, boundVars
        <4>2. QED
          BY <4>1 DEF RegInv, TypeOK
      <3>6. QED
        BY <3>1, <3>2, <3>3, <3>4, <3>5 DEF PlainTyped
    <2>2. RegsTyped'
      BY <1>e DEF RegInv, TypeOK, RegsTyped
    <2>3. ReadersTyped'
      <3>1. /\ claiming' \in [Readers -> BOOLEAN]
            /\ closing' \in [Readers -> BOOLEAN]
            /\ owner' \in [Readers -> 0..MaxRegistrations]
            /\ lifecycle' \in [Readers -> {"Open", "DeleteDeferredByWaitSet", "Closed"}]
        BY <1>e DEF RegInv, TypeOK
      <3>2. callback' \in [Readers -> Threads \union {NoThread}]
        BY DEF RegInv, TypeOK, RelNative, Reader, Goto, NoFault, Fault
      <3>3. QED
        BY <3>1, <3>2 DEF ReadersTyped
    <2>4. ThreadsTyped'
      <3>1. pc'[t] \in Pcs
        BY <1>e DEF RegInv, TypeOK, Pcs, Released, Regs
      <3>2. QED
        BY <1>x, <1>y, <3>1 DEF RegInv, TypeOK, ThreadsTyped
    <2>5. Within(t)'
      BY <1>e DEF RegInv, TypeOK, Shape, Within, Regs
    <2>6. \A u \in Threads : u # t => Within(u)'
      BY <1>e DEF RegInv, TypeOK, Within, Elsewhere
    <2>7. QED
      BY <2>1, <2>2, <2>3, <2>4, <2>5, <2>6
      DEF TypeOK, PlainTyped, RegsTyped, ReadersTyped, ThreadsTyped, Within
  <1>2. Shape'
    BY <1>e
    DEF RegInv, Shape, ClaimPcs, HoldPcs, LoopPcs, WorkPcs, ClosePcs, Elsewhere, Released
  <1>3. Numbered'
    BY <1>e DEF RegInv, Numbered, Of, Elsewhere, Released
  <1>4. Claimed'
    <2>1. pc[t] \notin ClaimPcs /\ pc'[t] \notin ClaimPcs
      BY <1>e DEF ClaimPcs, Released
    <2>2. \A u \in Threads : u # t => pc'[u] = pc[u] /\ reg'[u] = reg[u] /\ idx'[u] = idx[u]
      BY <1>e DEF Elsewhere
    <2>3. \A u \in Threads : u # t => \A i : Holds(u, i)' <=> Holds(u, i)
      BY <2>2 DEF Holds
    <2>4. \A u \in Threads, x \in Readers : Marks(u, x) => Marks(u, x)'
      BY <1>e, <2>1, <2>2, <2>3 DEF Marks
    <2>5. \A x \in Readers : owner[x] = 0 => owner'[x] = 0
      BY <1>e
    <2>6. QED
      BY <1>e, <2>1, <2>2, <2>3, <2>4, <2>5 DEF RegInv, Claimed
  <1>5. Fresh'
    BY <1>e DEF RegInv, Fresh, Unpublished, ClaimPcs, Shape, Elsewhere, Released
  <1>6. OneHolder'
    BY <1>e DEF RegInv, OneHolder, Holder, HoldPcs, LoopPcs, Shape, Elsewhere, Released
  <1>7. Closed'
    BY <1>e
    DEF RegInv, Closed, Apart, GivenUp, Destroying, Closer, WorkPcs, HoldPcs, LoopPcs, Shape,
        Elsewhere, Released
  <1>8. AddAhead'
    <2> SUFFICES ASSUME NEW a \in Threads, Adding(a)'
                 PROVE  /\ Alone(a)' /\ Untouched(a)' /\ Heading(a)' /\ Cleared(a)' /\ Overtaken(a)'
      BY DEF AddAhead
    <2>1. /\ Adding(a) /\ op'[a] = op[a] /\ reg'[a] = reg[a] /\ pc[a] \in WorkPcs
          /\ a = t => pc[t] \in LoopPcs /\ pc'[t] \in LoopPcs
      <3>1. CASE a # t
        BY <1>e, <3>1 DEF Adding, Elsewhere, LoopPcs, WorkPcs, ClaimPcs, HoldPcs
      <3>2. CASE a = t
        BY <1>e, <3>2 DEF RegInv, Shape, Adding, Released, LoopPcs, WorkPcs, ClaimPcs, HoldPcs
      <3>3. QED
        BY <3>1, <3>2
    <2>2. AtReader(a) /\ Of(reg[a])' = Of(reg[a])
      BY <1>e, <2>1, WorkTyped DEF Of
    <2>r. Of(reg[a]) \subseteq Readers
      BY <2>2 DEF AtReader, Of
    <2>3. Alone(a) /\ Untouched(a) /\ Heading(a) /\ Cleared(a) /\ Overtaken(a)
      BY <2>1 DEF RegInv, AddAhead
    <2>d. a # t => op[t] \in {"remove", "close"}
      BY <1>e, <2>1, <2>2 DEF RegInv, Shape, AtReader, Adding
    <2>4. Detacher(reg[a]) => Detacher(reg[a])'
      <3>1. op[t] = "close" /\ pc[t] \in HoldPcs => pc'[t] \in HoldPcs \union {"poison"}
        BY <1>e DEF HoldPcs, LoopPcs, Released
      <3>2. pc[t] # "poison" /\ (a = t => op[t] = "add")
        BY <1>e, <2>1 DEF Adding
      <3>3. QED
        BY <1>e, <3>1, <3>2, <2>1 DEF Detacher, Elsewhere
    <2>5. Alone(a)'
      BY <1>e, <2>1, <2>3, <2>d DEF Alone, Elsewhere, LoopPcs
    <2>6. Untouched(a)'
      BY <1>e, <2>1, <2>2, <2>r, <2>3 DEF Untouched
    <2>7. Heading(a)'
      <3>1. /\ \A u \in Threads : u # t => (Closer(u)' <=> Closer(u))
            /\ Closer(t)' => Closer(t) /\ pc[t] # "close_wait" /\ pc'[t] \notin ClosePcs
        BY <1>e DEF Closer, Elsewhere, Released, ClosePcs
      <3>2. QED
        BY <1>e, <2>1, <2>2, <2>3, <3>1 DEF Heading, Elsewhere
    <2>8. Cleared(a)'
      BY <1>e, <2>1, <2>2, <2>3, <2>4 DEF Cleared
    <2>9. Overtaken(a)'
      BY <1>e, <2>1, <2>3, <2>4 DEF Overtaken, Elsewhere
    <2>10. QED
      BY <2>5, <2>6, <2>7, <2>8, <2>9
  <1>9. CloserReleases'
    <2> SUFFICES ASSUME NEW u \in Threads, Closer(u)' PROVE
            /\ pc'[u] \in HoldPcs \union {"detach"} =>
                 arg'[u] \in Of(reg[u])' /\ owner'[arg'[u]] \in {0, reg'[u]} /\ ~failed'[u]
            /\ pc'[u] = "poison" => failed'[u] /\ arg'[u] \in Of(reg[u])'
            /\ Passed(u)' => owner'[arg'[u]] = 0
      BY DEF CloserReleases
    <2>1. /\ pc[t] \in LoopPcs /\ arg[u] \in Readers
          /\ \A x \in Readers : owner'[x] \in {0, owner[x]}
      BY <1>e DEF RegInv, TypeOK, LoopPcs
    <2>2. CASE u # t
      <3>1. Closer(u) /\ Of(reg[u])' = Of(reg[u])
        BY <1>e, <2>2 DEF Closer, Elsewhere, Of
      <3>2. Passed(u)' <=> Passed(u)
        BY <1>e, <2>2 DEF Passed, Elsewhere, Reader
      <3>3. /\ pc[u] \in HoldPcs \union {"detach"} =>
                 arg[u] \in Of(reg[u]) /\ owner[arg[u]] \in {0, reg[u]} /\ ~failed[u]
            /\ pc[u] = "poison" => failed[u] /\ arg[u] \in Of(reg[u])
            /\ Passed(u) => owner[arg[u]] = 0
        BY <3>1 DEF RegInv, CloserReleases
      <3>4. QED
        BY <1>e, <2>1, <2>2, <3>1, <3>2, <3>3 DEF Elsewhere
    <2>3. CASE u = t
      <3>1. /\ op[t] = "close" /\ Closer(t) /\ Of(reg[t])' = Of(reg[t]) /\ Released(t) = "erase"
            /\ pc'[t] \in HoldPcs
        BY <1>e, <2>1, <2>3 DEF Closer, LoopPcs, Of, Released, HoldPcs
      <3>2. arg[t] \in Of(reg[t]) /\ owner[arg[t]] \in {0, reg[t]} /\ ~failed[t]
        BY <2>1, <3>1 DEF RegInv, CloserReleases, HoldPcs
      <3>3. \A j \in DOMAIN members[reg[t]] : j < idx[t] /\ members[reg[t]][j] = arg[t] => owner[arg[t]] = 0
        BY <2>1, <3>1 DEF RegInv, CloserReleases, Passed
      <3>4. Reader(t) = arg[t] /\ (Advances(t, "release", "erase") \/ pc'[t] = "rel_delete") => owner'[arg[t]] = 0
        BY <1>e, <2>1, <3>1, <3>2 DEF RegInv, CloserReleases, Passed, Advances
      <3>5. PICK k \in 1..Len(members[reg[t]]) : members[reg[t]][k] = arg[t]
        BY <1>f, <3>2 DEF Of, AtReader
      <3>6. \A j \in 1..Len(members[reg[t]]) : members[reg[t]][j] = arg[t] /\ j < idx[t] => owner'[arg[t]] = 0
        BY <2>1, <2>3, <3>3
      <3>7. Advances(t, "release", "erase") => \A j \in 1..Len(members[reg[t]]) :
               members[reg[t]][j] = arg[t] /\ (j < idx'[t] \/ pc'[t] = "erase") => owner'[arg[t]] = 0
        BY <1>f, <3>4, <3>6 DEF Advances, AtReader
      <3>8. ~Advances(t, "release", "erase") => idx'[t] = idx[t] /\ pc'[t] # "erase" /\ Reader(t)' = Reader(t)
        BY <1>e, <3>1 DEF Reader, Released
      <3>9. Passed(t)' => owner'[arg[t]] = 0
        <4> SUFFICES ASSUME Passed(t)' PROVE owner'[arg[t]] = 0
          OBVIOUS
        <4>1. arg' = arg /\ pc'[t] \in LoopPcs \union {"erase", "rel_failed"} /\ members'[reg'[t]] = members[reg[t]]
          BY <1>e, <3>1 DEF LoopPcs, RelNative, callVars
        <4>2. CASE Advances(t, "release", "erase")
          <5>1. pc'[t] \in {"release", "erase"}
            BY <4>2 DEF Advances
          <5>2. CASE pc'[t] = "erase"
            BY <3>5, <3>7, <4>2, <5>2
          <5>3. CASE pc'[t] = "release"
            <6>1. \E j \in DOMAIN members[reg[t]] : j < idx'[t] /\ members[reg[t]][j] = arg[t]
              BY <4>1, <5>3 DEF Passed, LoopPcs
            <6>2. QED
              BY <3>7, <4>2, <6>1
          <5>4. QED
            BY <5>1, <5>2, <5>3
        <4>3. CASE ~Advances(t, "release", "erase")
          <5>1. CASE \E j \in DOMAIN members[reg[t]] : j < idx[t] /\ members[reg[t]][j] = arg[t]
            BY <3>6, <5>1
          <5>2. CASE pc'[t] = "rel_delete" /\ Reader(t) = arg[t]
            BY <3>4, <5>2
          <5>3. QED
            BY <3>8, <4>1, <4>3, <5>1, <5>2 DEF Passed, LoopPcs
        <4>4. QED
          BY <4>2, <4>3
      <3>10. QED
        BY <2>1, <2>3, <3>1, <3>2, <3>9 DEF HoldPcs, LoopPcs, RelNative, callVars
    <2>4. QED
      BY <2>2, <2>3
  <1>10. SingleReleased'
    BY <1>e DEF RegInv, SingleReleased, Holder, HoldPcs, LoopPcs, Shape, Elsewhere, Released
  <1>11. Detachable'
    BY <1>e DEF RegInv, Detachable, Reader, Shape, Elsewhere, Released
  <1>12. NativeKept'
    <2> SUFFICES ASSUME "rollback" \notin Failing PROVE NativeInv'
      BY DEF NativeKept
    <2>1. /\ native \subseteq condition
          /\ \A m \in Regs, x \in Readers : <<m, x>> \in native => Backed(m, x)
          /\ \A u \in Threads : pc[u] = "rel_clear" => <<reg[u], Reader(u)>> \notin native
      BY DEF RegInv, NativeKept, NativeInv
    <2>2. \A m \in Regs, x \in Readers : Backed(m, x) => Backed(m, x)'
      <3>1. \A u \in Threads : pc[u] \in {"attach", "commit"} => /\ pc'[u] = pc[u] /\ reg'[u] = reg[u]
                                                               /\ \A i : Holds(u, i) => Holds(u, i)'
        BY <1>e DEF Elsewhere, Holds
      <3>2. QED
        BY <1>e, <3>1 DEF Backed
    <2>3. native' \subseteq native
      BY <1>r
    <2>4. \A u \in Threads : u # t /\ pc'[u] = "rel_clear" =>
              pc[u] = "rel_clear" /\ reg'[u] = reg[u] /\ Reader(u)' = Reader(u)
      BY <1>e DEF Elsewhere, Reader
    <2>5. pc'[t] = "rel_clear" => <<reg'[t], Reader(t)'>> \notin native'
      <3>1. Reader(t)' = Reader(t) /\ reg'[t] = reg[t]
        BY <1>e DEF Reader
      <3>2. QED
        BY <1>r, <3>1
    <2>6. QED
      BY <1>e, <2>1, <2>2, <2>3, <2>4, <2>5 DEF NativeInv
  <1>13. QED
    BY <1>1, <1>2, <1>3, <1>4, <1>5, <1>6, <1>7, <1>8, <1>9, <1>10, <1>11, <1>12 DEF RegInv

\* release() clears the identity of the reader, if it is still ours.
LEMMA RelClearKeeps ==
  ASSUME RegInv, NEW t \in Threads, RelClear(t)
  PROVE  RegInv'
  <1>w. pc[t] \in WorkPcs
    BY DEF RelClear, WorkPcs, ClaimPcs, HoldPcs, LoopPcs
  <1>f. AtReader(t)
    BY <1>w, WorkTyped
  <1>e. /\ Elsewhere(t)
        /\ pc[t] = "rel_clear"
        /\ op'[t] = op[t]
        /\ reg'[t] = reg[t]
        /\ arg'[t] = arg[t]
        /\ failed'[t] = failed[t]
        /\ \/ /\ owner[Reader(t)] # reg[t] /\ owner' = owner /\ Advances(t, "release", Released(t))
           \/ /\ owner[Reader(t)] = reg[t] /\ owner'[Reader(t)] = 0
              /\ \A r \in Readers : r # Reader(t) => owner'[r] = owner[r]
              /\ idx'[t] = idx[t] /\ pc'[t] = "rel_delete"
        /\ UNCHANGED <<mutex, listed, created, members, phase, native, claiming, closing,
                       lifecycle, deleted>>
    <2>1. Elsewhere(t)
      BY DEF RegInv, TypeOK, Elsewhere, RelClear, Reader, LastReader, Free, Advance, Goto
    <2>2. UNCHANGED <<mutex, listed, created, members, phase, native, claiming, closing,
                      lifecycle, deleted>>
      BY DEF RelClear, Reader, LastReader, Free, Advance, Goto, setVars, boundVars
    <2>3. /\ pc[t] = "rel_clear"
          /\ op'[t] = op[t]
          /\ reg'[t] = reg[t]
          /\ arg'[t] = arg[t]
          /\ failed'[t] = failed[t]
      BY DEF RegInv, TypeOK, RelClear, Reader, LastReader, Free, Advance, Goto
    <2>4. \/ /\ owner[Reader(t)] # reg[t] /\ owner' = owner /\ Advances(t, "release", Released(t))
          \/ /\ owner[Reader(t)] = reg[t] /\ owner'[Reader(t)] = 0
             /\ \A r \in Readers : r # Reader(t) => owner'[r] = owner[r]
             /\ idx'[t] = idx[t] /\ pc'[t] = "rel_delete"
      BY <1>f, <2>3
      DEF RegInv, TypeOK, AtReader, Advances, RelClear, Reader, LastReader, Free, Advance,
          Goto
    <2>5. QED
      BY <2>1, <2>2, <2>3, <2>4
  <1>r. /\ owner[Reader(t)] # reg[t] => condition' = condition
        /\ owner[Reader(t)] = reg[t] => condition' = condition \ {<<reg[t], Reader(t)>>}
    BY DEF RelClear
  <1>x. /\ pc' = [pc EXCEPT ![t] = pc'[t]]
        /\ idx' = [idx EXCEPT ![t] = idx'[t]]
        /\ owner' = [owner EXCEPT ![Reader(t)] = owner'[Reader(t)]]
    BY DEF RegInv, TypeOK, Regs, RelClear, Reader, LastReader, Free, Advance, Goto, Released,
           setVars, boundVars
  <1>y. UNCHANGED <<op, reg, arg, failed>>
    BY DEF RelClear, Reader, LastReader, Free, Advance, Goto
  <1>1. TypeOK'
    <2>1. PlainTyped'
      <3>1. /\ mutex' \in Threads \union {NoThread}
            /\ created' \in 0..MaxRegistrations
            /\ listed' \in SUBSET Regs
            /\ native' \in SUBSET Pairs
            /\ deleted' \in SUBSET Readers
        BY <1>e DEF RegInv, TypeOK
      <3>2. poisoned' \in BOOLEAN
        BY DEF RegInv, TypeOK, Regs, RelClear, Reader, LastReader, Free, Advance, Goto,
               Released, setVars, boundVars
      <3>3. faults' \in 0..MaxFaults
        <4>1. faults' = faults
          BY DEF RelClear, Reader, LastReader, Free, Advance, Goto, boundVars
        <4>2. QED
          BY <4>1 DEF RegInv, TypeOK
      <3>4. condition' \in SUBSET Pairs
        BY DEF RegInv, TypeOK, Pairs, Regs, RelClear, Reader, LastReader, Free, Advance, Goto,
               Released, setVars, boundVars
      <3>5. calls' \in [Threads -> 0..MaxCalls]
        <4>1. calls' = calls
          BY DEF RelClear, Reader, LastReader, Free, Advance, Goto, boundVars
        <4>2. QED
          BY <4>1 DEF RegInv, TypeOK
      <3>6. QED
        BY <3>1, <3>2, <3>3, <3>4, <3>5 DEF PlainTyped
    <2>2. RegsTyped'
      BY <1>e DEF RegInv, TypeOK, RegsTyped
    <2>3. ReadersTyped'
      <3>1. /\ claiming' \in [Readers -> BOOLEAN]
            /\ closing' \in [Readers -> BOOLEAN]
            /\ lifecycle' \in [Readers -> {"Open", "DeleteDeferredByWaitSet", "Closed"}]
        BY <1>e DEF RegInv, TypeOK
      <3>2. callback' \in [Readers -> Threads \union {NoThread}]
        BY DEF RegInv, TypeOK, RelClear, Reader, LastReader, Free, Advance, Goto
      <3>3. owner' \in [Readers -> 0..MaxRegistrations]
        <4>1. owner \in [Readers -> 0..MaxRegistrations]
          BY DEF RegInv, TypeOK
        <4>2. owner'[Reader(t)] \in {0, owner[Reader(t)]} /\ Reader(t) \in Readers
          BY <1>f, <1>e DEF AtReader
        <4>3. owner'[Reader(t)] \in 0..MaxRegistrations
          BY <4>1, <4>2, ReaderRegistrationAssumption
        <4>4. QED
          BY <1>x, <4>1, <4>3
      <3>4. QED
        BY <3>1, <3>2, <3>3 DEF ReadersTyped
    <2>4. ThreadsTyped'
      <3>1. pc'[t] \in Pcs
        BY <1>e DEF RegInv, TypeOK, Pcs, Advances, Released, Regs
      <3>2. idx'[t] \in Nat \ {0}
        BY <1>f, <1>e DEF AtReader, Advances
      <3>3. QED
        BY <1>x, <1>y, <3>1, <3>2 DEF RegInv, TypeOK, ThreadsTyped
    <2>5. Within(t)'
      <3>1. idx'[t] \in 1..Len(members[reg[t]])
        BY <1>f, <1>e DEF AtReader, Advances
      <3>2. QED
        BY <1>f, <1>e, <3>1 DEF Within, AtReader, Regs
    <2>6. \A u \in Threads : u # t => Within(u)'
      BY <1>e DEF RegInv, TypeOK, Within, Elsewhere
    <2>7. QED
      BY <2>1, <2>2, <2>3, <2>4, <2>5, <2>6
      DEF TypeOK, PlainTyped, RegsTyped, ReadersTyped, ThreadsTyped, Within
  <1>2. Shape'
    BY <1>e
    DEF RegInv, Shape, ClaimPcs, HoldPcs, LoopPcs, WorkPcs, ClosePcs, Elsewhere, Advances,
        Reader, Released
  <1>3. Numbered'
    <2>1. \A x \in Readers : owner'[x] = owner[x] \/ owner'[x] = 0
      BY <1>e
    <2>2. QED
      BY <1>e, <2>1 DEF RegInv, Numbered, Of
  <1>4. Claimed'
    <2>1. pc[t] \notin ClaimPcs /\ pc'[t] \notin ClaimPcs
      BY <1>e DEF ClaimPcs, Advances, Released
    <2>2. \A u \in Threads : u # t => pc'[u] = pc[u] /\ reg'[u] = reg[u] /\ idx'[u] = idx[u]
      BY <1>e DEF Elsewhere
    <2>3. \A u \in Threads : u # t => \A i : Holds(u, i)' <=> Holds(u, i)
      BY <2>2 DEF Holds
    <2>4. \A u \in Threads, x \in Readers : Marks(u, x) => Marks(u, x)'
      BY <1>e, <2>1, <2>2, <2>3 DEF Marks
    <2>5. \A x \in Readers : owner[x] = 0 => owner'[x] = 0
      BY <1>e
    <2>6. QED
      BY <1>e, <2>1, <2>2, <2>3, <2>4, <2>5 DEF RegInv, Claimed
  <1>5. Fresh'
    <2>1. \A x \in Readers : owner'[x] = owner[x] \/ owner'[x] = 0
      BY <1>e
    <2>2. ~Unpublished(t)' /\ pc'[t] \notin ClaimPcs \union {"insert"}
      BY <1>e DEF Unpublished, ClaimPcs, Advances, Released
    <2>3. \A u \in Threads : u # t => (Unpublished(u)' <=> Unpublished(u)) /\ (Unpublished(u) => reg[u] # 0)
      BY <1>e DEF RegInv, Shape, Elsewhere, Unpublished, WorkPcs, ClaimPcs
    <2>4. QED
      BY <1>e, <2>1, <2>2, <2>3 DEF RegInv, Fresh, Elsewhere
  <1>6. OneHolder'
    BY <1>e
    DEF RegInv, OneHolder, Holder, HoldPcs, LoopPcs, Shape, Elsewhere, Advances, Reader,
        Released
  <1>7. Closed'
    <2>1. /\ arg' = arg /\ pc'[t] \notin ClosePcs
          /\ \A u \in Threads : u # t => (Closer(u)' <=> Closer(u))
          /\ Closer(t)' => Closer(t) /\ pc[t] \notin ClosePcs
      BY <1>e DEF Closer, ClosePcs, Elsewhere, Advances, Released, RelClear
    <2>2. Apart'
      BY <2>1 DEF RegInv, Closed, Apart
    <2>3. GivenUp'
      <3>1. deleted \subseteq Readers /\ Reader(t) \in Readers
        BY <1>f DEF RegInv, TypeOK, AtReader
      <3>2. QED
        BY <1>e, <3>1 DEF RegInv, Closed, GivenUp
    <2>4. \A u \in Threads : Closer(u)' => Destroying(u)'
      <3> SUFFICES ASSUME NEW u \in Threads, Closer(u)' PROVE Destroying(u)'
        OBVIOUS
      <3>1. Destroying(u) /\ arg[u] \in Readers
        BY <2>1 DEF RegInv, Closed, TypeOK
      <3>2. u = t => pc[u] # "close_wait" /\ pc'[u] \notin ClosePcs
        BY <2>1 DEF ClosePcs
      <3>3. lifecycle[arg[u]] # "Open" => lifecycle'[arg[u]] # "Open"
        BY <1>e, <3>1
      <3>4. QED
        BY <1>e, <2>1, <3>1, <3>2, <3>3 DEF Elsewhere, Destroying, ClosePcs
    <2>5. QED
      BY <2>2, <2>3, <2>4 DEF Closed
  <1>8. AddAhead'
    <2> SUFFICES ASSUME NEW a \in Threads, Adding(a)'
                 PROVE  /\ Alone(a)' /\ Untouched(a)' /\ Heading(a)' /\ Cleared(a)' /\ Overtaken(a)'
      BY DEF AddAhead
    <2>1. /\ Adding(a) /\ op'[a] = op[a] /\ reg'[a] = reg[a] /\ pc[a] \in WorkPcs
          /\ a = t => pc[t] \in LoopPcs /\ pc'[t] \in LoopPcs
      <3>1. CASE a # t
        BY <1>e, <3>1 DEF Adding, Elsewhere, LoopPcs, WorkPcs, ClaimPcs, HoldPcs
      <3>2. CASE a = t
        BY <1>e, <3>2
        DEF RegInv, Shape, Adding, Advances, Released, LoopPcs, WorkPcs, ClaimPcs, HoldPcs
      <3>3. QED
        BY <3>1, <3>2
    <2>2. AtReader(a) /\ Of(reg[a])' = Of(reg[a])
      BY <1>e, <2>1, WorkTyped DEF Of
    <2>r. Of(reg[a]) \subseteq Readers
      BY <2>2 DEF AtReader, Of
    <2>3. Alone(a) /\ Untouched(a) /\ Heading(a) /\ Cleared(a) /\ Overtaken(a)
      BY <2>1 DEF RegInv, AddAhead
    <2>d. a # t => op[t] \in {"remove", "close"}
      BY <1>e, <2>1, <2>2 DEF RegInv, Shape, AtReader, Adding
    <2>4. Detacher(reg[a]) => Detacher(reg[a])'
      <3>1. op[t] = "close" /\ pc[t] \in HoldPcs => pc'[t] \in HoldPcs \union {"poison"}
        BY <1>e DEF HoldPcs, LoopPcs, Advances, Released
      <3>2. pc[t] # "poison" /\ (a = t => op[t] = "add")
        BY <1>e, <2>1 DEF Adding
      <3>3. QED
        BY <1>e, <3>1, <3>2, <2>1 DEF Detacher, Elsewhere
    <2>5. Alone(a)'
      BY <1>e, <2>1, <2>3, <2>d DEF Alone, Elsewhere, LoopPcs
    <2>6. Untouched(a)'
      BY <1>e, <2>1, <2>2, <2>r, <2>3 DEF Untouched
    <2>7. Heading(a)'
      <3>1. /\ \A u \in Threads : u # t => (Closer(u)' <=> Closer(u))
            /\ Closer(t)' => Closer(t) /\ pc[t] # "close_wait" /\ pc'[t] \notin ClosePcs
        BY <1>e DEF Closer, Elsewhere, Advances, Released, ClosePcs
      <3>2. QED
        BY <1>e, <2>1, <2>2, <2>3, <3>1 DEF Heading, Elsewhere
    <2>8. Cleared(a)'
      <3> SUFFICES ASSUME NEW x \in Of(reg[a]), owner'[x] # reg[a], ~claiming'[x] PROVE Detacher(reg[a])'
        BY <2>1, <2>2 DEF Cleared
      <3>1. CASE owner[x] # reg[a]
        BY <1>e, <2>3, <2>4, <3>1 DEF Cleared
      <3>2. CASE owner[x] = reg[a]
        <4>1. x = Reader(t) /\ reg[t] = reg[a] /\ pc'[t] = "rel_delete"
          BY <1>e, <2>r, <3>2
        <4>2. CASE a = t
          BY <2>1, <2>3, <2>4, <4>2 DEF Overtaken
        <4>3. CASE a # t
          <5>1. op[t] = "close"
            BY <1>e, <2>3, <4>1, <4>3 DEF Alone
          <5>2. QED
            BY <1>e, <2>1, <4>1, <5>1 DEF Detacher, HoldPcs, LoopPcs
        <4>4. QED
          BY <4>2, <4>3
      <3>3. QED
        BY <3>1, <3>2
    <2>9. Overtaken(a)'
      BY <1>e, <2>1, <2>3, <2>4 DEF Overtaken, Elsewhere
    <2>10. QED
      BY <2>5, <2>6, <2>7, <2>8, <2>9
  <1>9. CloserReleases'
    <2> SUFFICES ASSUME NEW u \in Threads, Closer(u)' PROVE
            /\ pc'[u] \in HoldPcs \union {"detach"} =>
                 arg'[u] \in Of(reg[u])' /\ owner'[arg'[u]] \in {0, reg'[u]} /\ ~failed'[u]
            /\ pc'[u] = "poison" => failed'[u] /\ arg'[u] \in Of(reg[u])'
            /\ Passed(u)' => owner'[arg'[u]] = 0
      BY DEF CloserReleases
    <2>1. /\ pc[t] \in LoopPcs /\ arg[u] \in Readers
          /\ \A x \in Readers : owner'[x] \in {0, owner[x]}
      BY <1>e DEF RegInv, TypeOK, LoopPcs
    <2>2. CASE u # t
      <3>1. Closer(u) /\ Of(reg[u])' = Of(reg[u])
        BY <1>e, <2>2 DEF Closer, Elsewhere, Of
      <3>2. Passed(u)' <=> Passed(u)
        BY <1>e, <2>2 DEF Passed, Elsewhere, Reader
      <3>3. /\ pc[u] \in HoldPcs \union {"detach"} =>
                 arg[u] \in Of(reg[u]) /\ owner[arg[u]] \in {0, reg[u]} /\ ~failed[u]
            /\ pc[u] = "poison" => failed[u] /\ arg[u] \in Of(reg[u])
            /\ Passed(u) => owner[arg[u]] = 0
        BY <3>1 DEF RegInv, CloserReleases
      <3>4. QED
        BY <1>e, <2>1, <2>2, <3>1, <3>2, <3>3 DEF Elsewhere
    <2>3. CASE u = t
      <3>1. /\ op[t] = "close" /\ Closer(t) /\ Of(reg[t])' = Of(reg[t]) /\ Released(t) = "erase"
            /\ pc'[t] \in HoldPcs
        BY <1>e, <2>1, <2>3 DEF Closer, LoopPcs, Of, Advances, Released, HoldPcs
      <3>2. arg[t] \in Of(reg[t]) /\ owner[arg[t]] \in {0, reg[t]} /\ ~failed[t]
        BY <2>1, <3>1 DEF RegInv, CloserReleases, HoldPcs
      <3>3. \A j \in DOMAIN members[reg[t]] : j < idx[t] /\ members[reg[t]][j] = arg[t] => owner[arg[t]] = 0
        BY <2>1, <3>1 DEF RegInv, CloserReleases, Passed
      <3>4. Reader(t) = arg[t] /\ (Advances(t, "release", "erase") \/ pc'[t] = "rel_delete") => owner'[arg[t]] = 0
        BY <1>e, <2>1, <3>1, <3>2 DEF RegInv, CloserReleases, Passed, Advances
      <3>5. PICK k \in 1..Len(members[reg[t]]) : members[reg[t]][k] = arg[t]
        BY <1>f, <3>2 DEF Of, AtReader
      <3>6. \A j \in 1..Len(members[reg[t]]) : members[reg[t]][j] = arg[t] /\ j < idx[t] => owner'[arg[t]] = 0
        BY <2>1, <2>3, <3>3
      <3>7. Advances(t, "release", "erase") => \A j \in 1..Len(members[reg[t]]) :
               members[reg[t]][j] = arg[t] /\ (j < idx'[t] \/ pc'[t] = "erase") => owner'[arg[t]] = 0
        BY <1>f, <3>4, <3>6 DEF Advances, AtReader
      <3>8. ~Advances(t, "release", "erase") => idx'[t] = idx[t] /\ pc'[t] # "erase" /\ Reader(t)' = Reader(t)
        BY <1>e, <3>1 DEF Reader, Released
      <3>9. Passed(t)' => owner'[arg[t]] = 0
        <4> SUFFICES ASSUME Passed(t)' PROVE owner'[arg[t]] = 0
          OBVIOUS
        <4>1. arg' = arg /\ pc'[t] \in LoopPcs \union {"erase", "rel_failed"} /\ members'[reg'[t]] = members[reg[t]]
          BY <1>e, <3>1 DEF Advances, LoopPcs, RelClear
        <4>2. CASE Advances(t, "release", "erase")
          <5>1. pc'[t] \in {"release", "erase"}
            BY <4>2 DEF Advances
          <5>2. CASE pc'[t] = "erase"
            BY <3>5, <3>7, <4>2, <5>2
          <5>3. CASE pc'[t] = "release"
            <6>1. \E j \in DOMAIN members[reg[t]] : j < idx'[t] /\ members[reg[t]][j] = arg[t]
              BY <4>1, <5>3 DEF Passed, LoopPcs
            <6>2. QED
              BY <3>7, <4>2, <6>1
          <5>4. QED
            BY <5>1, <5>2, <5>3
        <4>3. CASE ~Advances(t, "release", "erase")
          <5>1. CASE \E j \in DOMAIN members[reg[t]] : j < idx[t] /\ members[reg[t]][j] = arg[t]
            BY <3>6, <5>1
          <5>2. CASE pc'[t] = "rel_delete" /\ Reader(t) = arg[t]
            BY <3>4, <5>2
          <5>3. QED
            BY <3>8, <4>1, <4>3, <5>1, <5>2 DEF Passed, LoopPcs
        <4>4. QED
          BY <4>2, <4>3
      <3>10. QED
        BY <2>1, <2>3, <3>1, <3>2, <3>9 DEF HoldPcs, LoopPcs, RelClear
    <2>4. QED
      BY <2>2, <2>3
  <1>10. SingleReleased'
    <2>1. \A n \in Regs : Len(members[n]) = 1 /\ owner[members[n][1]] # n => owner'[members[n][1]] # n
      BY <1>e, OnlyReader DEF Regs
    <2>2. \A u \in Threads : u # t /\ Holder(u)' /\ pc'[u] \in {"rel_delete", "erase"} =>
                Holder(u) /\ pc'[u] = pc[u] /\ reg'[u] = reg[u] /\ reg[u] \in Regs
      BY <1>e DEF RegInv, Shape, TypeOK, Holder, HoldPcs, LoopPcs, WorkPcs, Elsewhere, Regs
    <2>3. Len(members[reg[t]]) = 1 => idx[t] = 1 /\ members[reg[t]][1] = Reader(t)
      BY <1>f DEF AtReader
    <2>4. reg[t] # 0 /\ Reader(t) \in Readers
      BY <1>f DEF AtReader, Regs
    <2>5. Len(members[reg[t]]) = 1 /\ pc'[t] \in {"rel_delete", "erase"} => owner'[members[reg[t]][1]] # reg[t]
      BY <1>e, <2>3, <2>4
    <2>6. QED
      BY <1>e, <2>1, <2>2, <2>5 DEF RegInv, SingleReleased
  <1>11. Detachable'
    <2>1. \A u \in Threads : pc[u] = "rel_native" => AtReader(u)
      BY WorkTyped DEF WorkPcs, HoldPcs, LoopPcs
    <2>2. \A u \in Threads : pc'[u] = "rel_native" =>
              /\ u # t /\ pc[u] = "rel_native" /\ reg'[u] = reg[u] /\ op'[u] = op[u]
              /\ failed'[u] = failed[u] /\ Reader(u)' = Reader(u)
              /\ Reader(u) \in Readers /\ Reader(u) \in Of(reg[u]) /\ reg[u] \in Regs /\ reg[u] <= created
      BY <1>e, <2>1 DEF Elsewhere, Reader, Advances, Released, AtReader
    <2>3. \A u \in Threads : pc'[u] = "rel_native" /\ owner[Reader(u)] = reg[u] =>
              \/ owner'[Reader(u)] = reg[u]
              \/ lifecycle[Reader(u)] = "Open" /\ (op[u] = "close" \/ (op[u] = "add" /\ ~failed[u]))
      <3> SUFFICES ASSUME NEW u \in Threads, pc'[u] = "rel_native", owner[Reader(u)] = reg[u],
                          owner'[Reader(u)] # reg[u]
                   PROVE  lifecycle[Reader(u)] = "Open" /\ (op[u] = "close" \/ (op[u] = "add" /\ ~failed[u]))
        OBVIOUS
      <3>1. Reader(u) = Reader(t) /\ reg[u] = reg[t]
        BY <1>e, <2>2
      <3>2. u # t /\ pc[u] \in LoopPcs /\ pc[t] \in LoopPcs /\ pc[u] # "idle"
        BY <1>e, <2>2 DEF LoopPcs
      <3>3. (op[t] = "add" /\ ~failed[t]) \/ (op[u] = "add" /\ ~failed[u])
        BY <3>1, <3>2 DEF RegInv, OneHolder, Holder, HoldPcs
      <3>4. CASE op[u] = "add" /\ ~failed[u]
        <4>1. Untouched(u)
          BY <3>2, <3>4 DEF RegInv, AddAhead, Adding
        <4>2. QED
          BY <2>2, <3>4, <4>1 DEF Untouched
      <3>5. CASE op[t] = "add" /\ ~failed[t]
        <4>1. Untouched(t) /\ Alone(t)
          BY <3>2, <3>5 DEF RegInv, AddAhead, Adding
        <4>2. QED
          BY <2>2, <3>1, <3>2, <4>1 DEF Untouched, Alone
      <3>6. QED
        BY <3>3, <3>4, <3>5
    <2>4. QED
      BY <1>e, <2>2, <2>3 DEF RegInv, Detachable
  <1>12. NativeKept'
    <2> SUFFICES ASSUME "rollback" \notin Failing PROVE NativeInv'
      BY DEF NativeKept
    <2>1. /\ native \subseteq condition
          /\ \A m \in Regs, x \in Readers : <<m, x>> \in native => Backed(m, x)
          /\ \A u \in Threads : pc[u] = "rel_clear" => <<reg[u], Reader(u)>> \notin native
      BY DEF RegInv, NativeKept, NativeInv
    <2>2. \A m \in Regs, x \in Readers : <<m, x>> \in native => Backed(m, x)'
      <3> SUFFICES ASSUME NEW m \in Regs, NEW x \in Readers, <<m, x>> \in native PROVE Backed(m, x)'
        OBVIOUS
      <3>1. \A u \in Threads : pc[u] \in {"attach", "commit"} => /\ pc'[u] = pc[u] /\ reg'[u] = reg[u]
                                                               /\ \A i : Holds(u, i) => Holds(u, i)'
        BY <1>e DEF Elsewhere, Holds
      <3>2. <<m, x>> # <<reg[t], Reader(t)>>
        BY <1>e, <2>1
      <3>3. owner[x] = m => owner'[x] = m
        BY <1>e, <3>2
      <3>4. QED
        BY <1>e, <2>1, <3>1, <3>3 DEF Backed
    <2>3. \A u \in Threads : pc'[u] = "rel_clear" =>
              pc[u] = "rel_clear" /\ reg'[u] = reg[u] /\ Reader(u)' = Reader(u)
      BY <1>e DEF Elsewhere, Reader, Advances, Released
    <2>4. native \subseteq condition'
      <3>1. <<reg[t], Reader(t)>> \notin native
        BY <1>e, <2>1
      <3>2. QED
        BY <1>r, <2>1, <3>1
    <2>5. QED
      BY <1>e, <2>1, <2>2, <2>3, <2>4 DEF NativeInv
  <1>13. QED
    BY <1>1, <1>2, <1>3, <1>4, <1>5, <1>6, <1>7, <1>8, <1>9, <1>10, <1>11, <1>12 DEF RegInv

\* complete_deferred_delete() deletes a reader whose owner has given it up.
LEMMA RelDeleteKeeps ==
  ASSUME RegInv, NEW t \in Threads, RelDelete(t)
  PROVE  RegInv'
  <1>w. pc[t] \in WorkPcs
    BY DEF RelDelete, WorkPcs, ClaimPcs, HoldPcs, LoopPcs
  <1>f. AtReader(t)
    BY <1>w, WorkTyped
  <1>e. /\ Elsewhere(t)
        /\ pc[t] = "rel_delete"
        /\ op'[t] = op[t]
        /\ reg'[t] = reg[t]
        /\ arg'[t] = arg[t]
        /\ failed'[t] = failed[t]
        /\ Advances(t, "release", Released(t))
        /\ \/ /\ lifecycle[Reader(t)] = "DeleteDeferredByWaitSet" /\ owner[Reader(t)] = 0
              /\ deleted' = deleted \union {Reader(t)} /\ lifecycle'[Reader(t)] = "Closed"
              /\ \A r \in Readers : r # Reader(t) => lifecycle'[r] = lifecycle[r]
           \/ lifecycle' = lifecycle /\ deleted' = deleted
        /\ UNCHANGED <<mutex, listed, created, members, phase, condition, native, claiming,
                       closing, owner>>
    <2>1. CASE /\ DeleteDue(Reader(t)) /\ deleted' = deleted \union {Reader(t)}
               /\ lifecycle' = [lifecycle EXCEPT ![Reader(t)] = "Closed"]
      BY <2>1, <1>f
      DEF RelDelete, DeleteDue, Reader, LastReader, Advance, Goto, NoFault, Fault, Elsewhere,
          RegInv, TypeOK, setVars, nativeVars, boundVars, Regs, AtReader, Advances
    <2>2. CASE UNCHANGED <<deleted, lifecycle>>
      BY <2>2, <1>f
      DEF RelDelete, DeleteDue, Reader, LastReader, Advance, Goto, NoFault, Fault, Elsewhere,
          RegInv, TypeOK, setVars, nativeVars, boundVars, Regs, AtReader, Advances
    <2>3. QED
      BY <2>1, <2>2 DEF RelDelete, Reader
  <1>x. /\ pc' = [pc EXCEPT ![t] = pc'[t]]
        /\ idx' = [idx EXCEPT ![t] = idx'[t]]
        /\ lifecycle' = [lifecycle EXCEPT ![Reader(t)] = lifecycle'[Reader(t)]]
    <2>1. pc' = [pc EXCEPT ![t] = pc'[t]]
      BY DEF RegInv, TypeOK, RelDelete, DeleteDue, Reader, LastReader, Advance, Goto, NoFault,
             Fault
    <2>2. idx' = [idx EXCEPT ![t] = idx'[t]]
      BY DEF RegInv, TypeOK, RelDelete, DeleteDue, Reader, LastReader, Advance, Goto, NoFault,
             Fault
    <2>3. lifecycle' = [lifecycle EXCEPT ![Reader(t)] = lifecycle'[Reader(t)]]
      BY DEF RegInv, TypeOK, RelDelete, DeleteDue, Reader, LastReader, Advance, Goto, NoFault,
             Fault
    <2>4. QED
      BY <2>1, <2>2, <2>3
  <1>y. UNCHANGED <<op, reg, arg, failed>>
    BY DEF RelDelete, DeleteDue, Reader, LastReader, Advance, Goto, NoFault, Fault
  <1>1. TypeOK'
    <2>1. PlainTyped'
      <3>1. /\ mutex' \in Threads \union {NoThread}
            /\ created' \in 0..MaxRegistrations
            /\ listed' \in SUBSET Regs
            /\ condition' \in SUBSET Pairs
            /\ native' \in SUBSET Pairs
        BY <1>e DEF RegInv, TypeOK
      <3>2. poisoned' \in BOOLEAN
        BY DEF RegInv, TypeOK, Regs, RelDelete, DeleteDue, Reader, LastReader, Advance, Goto,
               NoFault, Fault, Released, setVars, nativeVars, boundVars
      <3>3. faults' \in 0..MaxFaults
        <4>1. faults' = faults \/ (faults < MaxFaults /\ faults' = faults + 1)
          BY DEF RelDelete, DeleteDue, Reader, LastReader, Advance, Goto, NoFault, Fault,
                 boundVars
        <4>2. QED
          BY <4>1, ReaderRegistrationAssumption DEF RegInv, TypeOK
      <3>4. deleted' \in SUBSET Readers
        BY <1>f
        DEF RegInv, TypeOK, AtReader, Pairs, Regs, RelDelete, DeleteDue, Reader, LastReader,
            Advance, Goto, NoFault, Fault, Released, setVars, nativeVars, boundVars
      <3>5. calls' \in [Threads -> 0..MaxCalls]
        <4>1. calls' = calls
          BY DEF RelDelete, DeleteDue, Reader, LastReader, Advance, Goto, NoFault, Fault,
                 boundVars
        <4>2. QED
          BY <4>1 DEF RegInv, TypeOK
      <3>6. QED
        BY <3>1, <3>2, <3>3, <3>4, <3>5 DEF PlainTyped
    <2>2. RegsTyped'
      BY <1>e DEF RegInv, TypeOK, RegsTyped
    <2>3. ReadersTyped'
      <3>1. /\ claiming' \in [Readers -> BOOLEAN]
            /\ closing' \in [Readers -> BOOLEAN]
            /\ owner' \in [Readers -> 0..MaxRegistrations]
        BY <1>e DEF RegInv, TypeOK
      <3>2. callback' \in [Readers -> Threads \union {NoThread}]
        BY DEF RegInv, TypeOK, RelDelete, DeleteDue, Reader, LastReader, Advance, Goto,
               NoFault, Fault
      <3>3. lifecycle' \in [Readers -> {"Open", "DeleteDeferredByWaitSet", "Closed"}]
        <4>1. lifecycle \in [Readers -> {"Open", "DeleteDeferredByWaitSet", "Closed"}]
          BY DEF RegInv, TypeOK
        <4>2. QED
          BY <4>1 DEF RelDelete, DeleteDue, Reader, LastReader, Advance, Goto, NoFault, Fault
      <3>4. QED
        BY <3>1, <3>2, <3>3 DEF ReadersTyped
    <2>4. ThreadsTyped'
      <3>1. pc'[t] \in Pcs
        BY <1>e DEF RegInv, TypeOK, Pcs, Advances, Released, Regs
      <3>2. idx'[t] \in Nat \ {0}
        BY <1>f, <1>e DEF AtReader, Advances
      <3>3. QED
        BY <1>x, <1>y, <3>1, <3>2 DEF RegInv, TypeOK, ThreadsTyped
    <2>5. Within(t)'
      <3>1. idx'[t] \in 1..Len(members[reg[t]])
        BY <1>f, <1>e DEF AtReader, Advances
      <3>2. QED
        BY <1>f, <1>e, <3>1 DEF Within, AtReader, Regs
    <2>6. \A u \in Threads : u # t => Within(u)'
      BY <1>e DEF RegInv, TypeOK, Within, Elsewhere
    <2>7. QED
      BY <2>1, <2>2, <2>3, <2>4, <2>5, <2>6
      DEF TypeOK, PlainTyped, RegsTyped, ReadersTyped, ThreadsTyped, Within
  <1>2. Shape'
    <2>1. /\ reg'[t] = reg[t] /\ reg[t] # 0 /\ reg[t] <= created' /\ op'[t] = op[t]
          /\ idx'[t] \in DOMAIN members'[reg'[t]] /\ mutex' = mutex /\ failed'[t] = failed[t]
      BY <1>f, <1>e DEF AtReader, Advances, Regs
    <2>2. op[t] = "add" => mutex = t
      BY <1>e DEF RegInv, Shape
    <2>3. /\ pc[t] # "idle" /\ op[t] \in {"add", "remove", "close"}
          /\ pc'[t] \in {"detach", "rel_failed", "erase"} /\ op[t] = "add" => failed[t]
          /\ pc'[t] \notin {"idle", "close_wait", "detach", "insert"} \union ClosePcs
          /\ pc'[t] \in ClaimPcs \union {"add_unlock"} => op[t] = "add"
          /\ pc'[t] = "erase" => idx'[t] = 1
      BY <1>e DEF RegInv, Shape, Advances, Released, ClaimPcs, ClosePcs
    <2>4. QED
      BY <1>e, <2>1, <2>2, <2>3 DEF RegInv, Shape, Elsewhere, ClaimPcs
  <1>3. Numbered'
    BY <1>e DEF RegInv, Numbered, Of, Elsewhere, Advances, Reader, Released
  <1>4. Claimed'
    <2>1. pc[t] \notin ClaimPcs /\ pc'[t] \notin ClaimPcs
      BY <1>e DEF ClaimPcs, Advances, Released
    <2>2. \A u \in Threads : u # t => pc'[u] = pc[u] /\ reg'[u] = reg[u] /\ idx'[u] = idx[u]
      BY <1>e DEF Elsewhere
    <2>3. \A u \in Threads : u # t => \A i : Holds(u, i)' <=> Holds(u, i)
      BY <2>2 DEF Holds
    <2>4. \A u \in Threads, x \in Readers : Marks(u, x) => Marks(u, x)'
      BY <1>e, <2>1, <2>2, <2>3 DEF Marks
    <2>5. \A x \in Readers : owner[x] = 0 => owner'[x] = 0
      BY <1>e
    <2>6. QED
      BY <1>e, <2>1, <2>2, <2>3, <2>4, <2>5 DEF RegInv, Claimed
  <1>5. Fresh'
    BY <1>e
    DEF RegInv, Fresh, Unpublished, ClaimPcs, Shape, Elsewhere, Advances, Reader, Released
  <1>6. OneHolder'
    BY <1>e
    DEF RegInv, OneHolder, Holder, HoldPcs, LoopPcs, Shape, Elsewhere, Advances, Reader,
        Released
  <1>7. Closed'
    <2>1. /\ arg' = arg /\ pc'[t] \notin ClosePcs
          /\ \A u \in Threads : u # t => (Closer(u)' <=> Closer(u))
          /\ Closer(t)' => Closer(t) /\ pc[t] \notin ClosePcs
      BY <1>e DEF Closer, ClosePcs, Elsewhere, Advances, Released, RelDelete
    <2>2. Apart'
      BY <2>1 DEF RegInv, Closed, Apart
    <2>3. GivenUp'
      <3>1. deleted \subseteq Readers /\ Reader(t) \in Readers
        BY <1>f DEF RegInv, TypeOK, AtReader
      <3>2. QED
        BY <1>e, <3>1 DEF RegInv, Closed, GivenUp
    <2>4. \A u \in Threads : Closer(u)' => Destroying(u)'
      <3> SUFFICES ASSUME NEW u \in Threads, Closer(u)' PROVE Destroying(u)'
        OBVIOUS
      <3>1. Destroying(u) /\ arg[u] \in Readers
        BY <2>1 DEF RegInv, Closed, TypeOK
      <3>2. u = t => pc[u] # "close_wait" /\ pc'[u] \notin ClosePcs
        BY <2>1 DEF ClosePcs
      <3>3. lifecycle[arg[u]] # "Open" => lifecycle'[arg[u]] # "Open"
        BY <1>e, <3>1
      <3>4. QED
        BY <1>e, <2>1, <3>1, <3>2, <3>3 DEF Elsewhere, Destroying, ClosePcs
    <2>5. QED
      BY <2>2, <2>3, <2>4 DEF Closed
  <1>8. AddAhead'
    <2> SUFFICES ASSUME NEW a \in Threads, Adding(a)'
                 PROVE  /\ Alone(a)' /\ Untouched(a)' /\ Heading(a)' /\ Cleared(a)' /\ Overtaken(a)'
      BY DEF AddAhead
    <2>1. /\ Adding(a) /\ op'[a] = op[a] /\ reg'[a] = reg[a] /\ pc[a] \in WorkPcs
          /\ a = t => pc[t] \in LoopPcs /\ pc'[t] \in LoopPcs
      <3>1. CASE a # t
        BY <1>e, <3>1 DEF Adding, Elsewhere, LoopPcs, WorkPcs, ClaimPcs, HoldPcs
      <3>2. CASE a = t
        BY <1>e, <3>2
        DEF RegInv, Shape, Adding, Advances, Released, LoopPcs, WorkPcs, ClaimPcs, HoldPcs
      <3>3. QED
        BY <3>1, <3>2
    <2>2. AtReader(a) /\ Of(reg[a])' = Of(reg[a])
      BY <1>e, <2>1, WorkTyped DEF Of
    <2>r. Of(reg[a]) \subseteq Readers
      BY <2>2 DEF AtReader, Of
    <2>3. Alone(a) /\ Untouched(a) /\ Heading(a) /\ Cleared(a) /\ Overtaken(a)
      BY <2>1 DEF RegInv, AddAhead
    <2>d. a # t => op[t] \in {"remove", "close"}
      BY <1>e, <2>1, <2>2 DEF RegInv, Shape, AtReader, Adding
    <2>4. Detacher(reg[a]) => Detacher(reg[a])'
      <3>1. op[t] = "close" /\ pc[t] \in HoldPcs => pc'[t] \in HoldPcs \union {"poison"}
        BY <1>e DEF HoldPcs, LoopPcs, Advances, Released
      <3>2. pc[t] # "poison" /\ (a = t => op[t] = "add")
        BY <1>e, <2>1 DEF Adding
      <3>3. QED
        BY <1>e, <3>1, <3>2, <2>1 DEF Detacher, Elsewhere
    <2>5. Alone(a)'
      BY <1>e, <2>1, <2>3, <2>d DEF Alone, Elsewhere, LoopPcs
    <2>6. Untouched(a)'
      BY <1>e, <2>1, <2>2, <2>r, <2>3 DEF Untouched
    <2>7. Heading(a)'
      <3>1. /\ \A u \in Threads : u # t => (Closer(u)' <=> Closer(u))
            /\ Closer(t)' => Closer(t) /\ pc[t] # "close_wait" /\ pc'[t] \notin ClosePcs
        BY <1>e DEF Closer, Elsewhere, Advances, Released, ClosePcs
      <3>2. QED
        BY <1>e, <2>1, <2>2, <2>3, <3>1 DEF Heading, Elsewhere
    <2>8. Cleared(a)'
      BY <1>e, <2>1, <2>2, <2>3, <2>4 DEF Cleared
    <2>9. Overtaken(a)'
      BY <1>e, <2>1, <2>3, <2>4 DEF Overtaken, Elsewhere
    <2>10. QED
      BY <2>5, <2>6, <2>7, <2>8, <2>9
  <1>9. CloserReleases'
    <2> SUFFICES ASSUME NEW u \in Threads, Closer(u)' PROVE
            /\ pc'[u] \in HoldPcs \union {"detach"} =>
                 arg'[u] \in Of(reg[u])' /\ owner'[arg'[u]] \in {0, reg'[u]} /\ ~failed'[u]
            /\ pc'[u] = "poison" => failed'[u] /\ arg'[u] \in Of(reg[u])'
            /\ Passed(u)' => owner'[arg'[u]] = 0
      BY DEF CloserReleases
    <2>1. /\ pc[t] \in LoopPcs /\ arg[u] \in Readers
          /\ \A x \in Readers : owner'[x] \in {0, owner[x]}
      BY <1>e DEF RegInv, TypeOK, LoopPcs
    <2>2. CASE u # t
      <3>1. Closer(u) /\ Of(reg[u])' = Of(reg[u])
        BY <1>e, <2>2 DEF Closer, Elsewhere, Of
      <3>2. Passed(u)' <=> Passed(u)
        BY <1>e, <2>2 DEF Passed, Elsewhere, Reader
      <3>3. /\ pc[u] \in HoldPcs \union {"detach"} =>
                 arg[u] \in Of(reg[u]) /\ owner[arg[u]] \in {0, reg[u]} /\ ~failed[u]
            /\ pc[u] = "poison" => failed[u] /\ arg[u] \in Of(reg[u])
            /\ Passed(u) => owner[arg[u]] = 0
        BY <3>1 DEF RegInv, CloserReleases
      <3>4. QED
        BY <1>e, <2>1, <2>2, <3>1, <3>2, <3>3 DEF Elsewhere
    <2>3. CASE u = t
      <3>1. /\ op[t] = "close" /\ Closer(t) /\ Of(reg[t])' = Of(reg[t]) /\ Released(t) = "erase"
            /\ pc'[t] \in HoldPcs
        BY <1>e, <2>1, <2>3 DEF Closer, LoopPcs, Of, Advances, Released, HoldPcs
      <3>2. arg[t] \in Of(reg[t]) /\ owner[arg[t]] \in {0, reg[t]} /\ ~failed[t]
        BY <2>1, <3>1 DEF RegInv, CloserReleases, HoldPcs
      <3>3. \A j \in DOMAIN members[reg[t]] : j < idx[t] /\ members[reg[t]][j] = arg[t] => owner[arg[t]] = 0
        BY <2>1, <3>1 DEF RegInv, CloserReleases, Passed
      <3>4. Reader(t) = arg[t] /\ (Advances(t, "release", "erase") \/ pc'[t] = "rel_delete") => owner'[arg[t]] = 0
        BY <1>e, <2>1, <3>1, <3>2 DEF RegInv, CloserReleases, Passed, Advances
      <3>5. PICK k \in 1..Len(members[reg[t]]) : members[reg[t]][k] = arg[t]
        BY <1>f, <3>2 DEF Of, AtReader
      <3>6. \A j \in 1..Len(members[reg[t]]) : members[reg[t]][j] = arg[t] /\ j < idx[t] => owner'[arg[t]] = 0
        BY <2>1, <2>3, <3>3
      <3>7. Advances(t, "release", "erase") => \A j \in 1..Len(members[reg[t]]) :
               members[reg[t]][j] = arg[t] /\ (j < idx'[t] \/ pc'[t] = "erase") => owner'[arg[t]] = 0
        BY <1>f, <3>4, <3>6 DEF Advances, AtReader
      <3>8. ~Advances(t, "release", "erase") => idx'[t] = idx[t] /\ pc'[t] # "erase" /\ Reader(t)' = Reader(t)
        BY <1>e, <3>1 DEF Reader, Released
      <3>9. Passed(t)' => owner'[arg[t]] = 0
        <4> SUFFICES ASSUME Passed(t)' PROVE owner'[arg[t]] = 0
          OBVIOUS
        <4>1. arg' = arg /\ pc'[t] \in LoopPcs \union {"erase", "rel_failed"} /\ members'[reg'[t]] = members[reg[t]]
          BY <1>e, <3>1 DEF Advances, LoopPcs, RelDelete
        <4>2. CASE Advances(t, "release", "erase")
          <5>1. pc'[t] \in {"release", "erase"}
            BY <4>2 DEF Advances
          <5>2. CASE pc'[t] = "erase"
            BY <3>5, <3>7, <4>2, <5>2
          <5>3. CASE pc'[t] = "release"
            <6>1. \E j \in DOMAIN members[reg[t]] : j < idx'[t] /\ members[reg[t]][j] = arg[t]
              BY <4>1, <5>3 DEF Passed, LoopPcs
            <6>2. QED
              BY <3>7, <4>2, <6>1
          <5>4. QED
            BY <5>1, <5>2, <5>3
        <4>3. CASE ~Advances(t, "release", "erase")
          <5>1. CASE \E j \in DOMAIN members[reg[t]] : j < idx[t] /\ members[reg[t]][j] = arg[t]
            BY <3>6, <5>1
          <5>2. CASE pc'[t] = "rel_delete" /\ Reader(t) = arg[t]
            BY <3>4, <5>2
          <5>3. QED
            BY <3>8, <4>1, <4>3, <5>1, <5>2 DEF Passed, LoopPcs
        <4>4. QED
          BY <4>2, <4>3
      <3>10. QED
        BY <2>1, <2>3, <3>1, <3>2, <3>9 DEF HoldPcs, LoopPcs, RelDelete
    <2>4. QED
      BY <2>2, <2>3
  <1>10. SingleReleased'
    BY <1>e
    DEF RegInv, SingleReleased, Holder, HoldPcs, LoopPcs, Shape, Elsewhere, Advances, Reader,
        Released
  <1>11. Detachable'
    <2>1. \A u \in Threads : pc[u] = "rel_native" => AtReader(u)
      BY WorkTyped DEF WorkPcs, HoldPcs, LoopPcs
    <2>2. \A u \in Threads : pc'[u] = "rel_native" =>
              /\ u # t /\ pc[u] = "rel_native" /\ reg'[u] = reg[u] /\ op'[u] = op[u]
              /\ failed'[u] = failed[u] /\ Reader(u)' = Reader(u)
              /\ Reader(u) \in Readers /\ Reader(u) \in Of(reg[u]) /\ reg[u] \in Regs /\ reg[u] <= created
      BY <1>e, <2>1 DEF Elsewhere, Reader, Advances, Released, AtReader
    <2>3. \A x \in Readers : lifecycle[x] = "Open" => lifecycle'[x] = "Open"
      BY <1>e
    <2>4. QED
      BY <1>e, <2>2, <2>3 DEF RegInv, Detachable
  <1>12. NativeKept'
    BY <1>e, NativeStays DEF Elsewhere, Advances, Released
  <1>13. QED
    BY <1>1, <1>2, <1>3, <1>4, <1>5, <1>6, <1>7, <1>8, <1>9, <1>10, <1>11, <1>12 DEF RegInv

\* A failed native detach puts the registration back.
LEMMA RelFailedKeeps ==
  ASSUME RegInv, NEW t \in Threads, RelFailed(t)
  PROVE  RegInv'
  <1>w. pc[t] \in WorkPcs
    BY DEF RelFailed, WorkPcs, ClaimPcs, HoldPcs, LoopPcs
  <1>f. AtReader(t)
    BY <1>w, WorkTyped
  <1>e. /\ Elsewhere(t)
        /\ pc[t] = "rel_failed" /\ pc'[t] = "poison" /\ failed'[t] = TRUE
        /\ op'[t] = op[t]
        /\ reg'[t] = reg[t]
        /\ arg'[t] = arg[t]
        /\ idx'[t] = idx[t]
        /\ phase'[reg[t]] = "Attached" /\ \A n \in Regs : n # reg[t] => phase'[n] = phase[n]
        /\ UNCHANGED <<mutex, listed, created, members, condition, native, claiming, closing,
                       owner, lifecycle, deleted>>
    BY <1>f
    DEF RelFailed, Goto, Elsewhere, RegInv, TypeOK, setVars, nativeVars, readerVars,
        boundVars, Regs, AtReader
  <1>x. /\ pc' = [pc EXCEPT ![t] = pc'[t]]
        /\ phase' = [phase EXCEPT ![reg[t]] = phase'[reg[t]]]
        /\ failed' = [failed EXCEPT ![t] = failed'[t]]
    BY DEF RegInv, TypeOK, Regs, RelFailed, Goto, setVars, nativeVars, readerVars, boundVars
  <1>y. UNCHANGED <<op, reg, arg, idx>>
    BY DEF RelFailed, Goto
  <1>1. TypeOK'
    <2>1. PlainTyped'
      <3>1. /\ mutex' \in Threads \union {NoThread}
            /\ created' \in 0..MaxRegistrations
            /\ listed' \in SUBSET Regs
            /\ condition' \in SUBSET Pairs
            /\ native' \in SUBSET Pairs
            /\ deleted' \in SUBSET Readers
        BY <1>e DEF RegInv, TypeOK
      <3>2. poisoned' \in BOOLEAN
        BY DEF RegInv, TypeOK, Regs, RelFailed, Goto, setVars, nativeVars, readerVars, boundVars
      <3>3. faults' \in 0..MaxFaults
        <4>1. faults' = faults
          BY DEF RelFailed, Goto, boundVars
        <4>2. QED
          BY <4>1 DEF RegInv, TypeOK
      <3>4. calls' \in [Threads -> 0..MaxCalls]
        <4>1. calls' = calls
          BY DEF RelFailed, Goto, boundVars
        <4>2. QED
          BY <4>1 DEF RegInv, TypeOK
      <3>5. QED
        BY <3>1, <3>2, <3>3, <3>4 DEF PlainTyped
    <2>2. RegsTyped'
      <3>1. /\ members' \in [Regs -> Waitables \union {<< >>}]
        BY <1>e DEF RegInv, TypeOK
      <3>2. phase' \in [Regs -> {"unused", "Attached", "Detaching", "Detached"}]
        <4>1. phase \in [Regs -> {"unused", "Attached", "Detaching", "Detached"}]
          BY DEF RegInv, TypeOK
        <4>2. phase'[reg[t]] \in {"unused", "Attached", "Detaching", "Detached"}
          BY <1>e, <4>1 DEF Regs
        <4>3. QED
          BY <1>x, <4>1, <4>2
      <3>3. QED
        BY <3>1, <3>2 DEF RegsTyped
    <2>3. ReadersTyped'
      <3>1. /\ claiming' \in [Readers -> BOOLEAN]
            /\ closing' \in [Readers -> BOOLEAN]
            /\ owner' \in [Readers -> 0..MaxRegistrations]
            /\ lifecycle' \in [Readers -> {"Open", "DeleteDeferredByWaitSet", "Closed"}]
        BY <1>e DEF RegInv, TypeOK
      <3>2. callback' \in [Readers -> Threads \union {NoThread}]
        BY DEF RegInv, TypeOK, RelFailed, Goto
      <3>3. QED
        BY <3>1, <3>2 DEF ReadersTyped
    <2>4. ThreadsTyped'
      <3>1. pc'[t] \in Pcs
        BY <1>e DEF RegInv, TypeOK, Pcs, Regs
      <3>2. failed' \in [Threads -> BOOLEAN]
        BY DEF RegInv, TypeOK, RelFailed, Goto
      <3>3. QED
        BY <1>x, <1>y, <3>1, <3>2 DEF RegInv, TypeOK, ThreadsTyped
    <2>5. Within(t)'
      BY <1>e DEF RegInv, TypeOK, Shape, Within, Regs
    <2>6. \A u \in Threads : u # t => Within(u)'
      BY <1>e DEF RegInv, TypeOK, Within, Elsewhere
    <2>7. QED
      BY <2>1, <2>2, <2>3, <2>4, <2>5, <2>6
      DEF TypeOK, PlainTyped, RegsTyped, ReadersTyped, ThreadsTyped, Within
  <1>2. Shape'
    BY <1>e DEF RegInv, Shape, ClaimPcs, HoldPcs, LoopPcs, WorkPcs, ClosePcs, Elsewhere
  <1>3. Numbered'
    BY <1>e DEF RegInv, Numbered, Of, Elsewhere
  <1>4. Claimed'
    <2>1. pc[t] \notin ClaimPcs /\ pc'[t] \notin ClaimPcs
      BY <1>e DEF ClaimPcs
    <2>2. \A u \in Threads : u # t => pc'[u] = pc[u] /\ reg'[u] = reg[u] /\ idx'[u] = idx[u]
      BY <1>e DEF Elsewhere
    <2>3. \A u \in Threads : u # t => \A i : Holds(u, i)' <=> Holds(u, i)
      BY <2>2 DEF Holds
    <2>4. \A u \in Threads, x \in Readers : Marks(u, x) => Marks(u, x)'
      BY <1>e, <2>1, <2>2, <2>3 DEF Marks
    <2>5. \A x \in Readers : owner[x] = 0 => owner'[x] = 0
      BY <1>e
    <2>6. QED
      BY <1>e, <2>1, <2>2, <2>3, <2>4, <2>5 DEF RegInv, Claimed
  <1>5. Fresh'
    <2>1. pc'[t] \notin ClaimPcs \union {"insert"}
      BY <1>e DEF ClaimPcs
    <2>2. \A u \in Threads : u # t /\ Unpublished(u) => reg[u] \in Regs /\ reg[u] # reg[t]
      BY DEF RegInv, Shape, Fresh, Unpublished, WorkPcs, ClaimPcs, TypeOK, Regs
    <2>3. \A u \in Threads : u # t => (Unpublished(u)' <=> Unpublished(u))
      BY <1>e DEF Elsewhere, Unpublished
    <2>4. ~Unpublished(t)'
      BY <2>1 DEF Unpublished, ClaimPcs
    <2>5. QED
      BY <1>e, <2>1, <2>2, <2>3, <2>4 DEF RegInv, Fresh, Elsewhere
  <1>6. OneHolder'
    <2>1. \A u \in Threads : u # t => (Holder(u)' <=> Holder(u)) /\ reg'[u] = reg[u]
      BY <1>e DEF Elsewhere, Holder
    <2>2. \A u \in Threads : Holder(u) => reg[u] \in Regs
      BY DEF RegInv, TypeOK, Shape, Holder, WorkPcs, Regs
    <2>3. Holder(t) /\ ~Holder(t)'
      BY <1>e DEF RegInv, Shape, Holder, HoldPcs, LoopPcs
    <2>4. \A u \in Threads : u # t /\ Holder(u) => reg[u] # reg[t]
      BY <2>3 DEF RegInv, OneHolder
    <2>5. QED
      BY <1>e, <2>1, <2>2, <2>3, <2>4 DEF RegInv, OneHolder
  <1>7. Closed'
    BY <1>e
    DEF RegInv, Closed, Apart, GivenUp, Destroying, Closer, WorkPcs, HoldPcs, LoopPcs, Shape,
        Elsewhere
  <1>8. AddAhead'
    <2> SUFFICES ASSUME NEW a \in Threads, Adding(a)'
                 PROVE  /\ Alone(a)' /\ Untouched(a)' /\ Heading(a)' /\ Cleared(a)' /\ Overtaken(a)'
      BY DEF AddAhead
    <2>1. /\ Adding(a) /\ op'[a] = op[a] /\ reg'[a] = reg[a] /\ pc[a] \in WorkPcs
          /\ a = t => pc[t] \in LoopPcs /\ pc'[t] \in LoopPcs
      <3>1. CASE a # t
        BY <1>e, <3>1 DEF Adding, Elsewhere, LoopPcs, WorkPcs, ClaimPcs, HoldPcs
      <3>2. CASE a = t
        BY <1>e, <3>2 DEF RegInv, Shape, Adding, LoopPcs, WorkPcs, ClaimPcs, HoldPcs
      <3>3. QED
        BY <3>1, <3>2
    <2>2. AtReader(a) /\ Of(reg[a])' = Of(reg[a])
      BY <1>e, <2>1, WorkTyped DEF Of
    <2>r. Of(reg[a]) \subseteq Readers
      BY <2>2 DEF AtReader, Of
    <2>3. Alone(a) /\ Untouched(a) /\ Heading(a) /\ Cleared(a) /\ Overtaken(a)
      BY <2>1 DEF RegInv, AddAhead
    <2>d. a # t => op[t] \in {"remove", "close"}
      BY <1>e, <2>1, <2>2 DEF RegInv, Shape, AtReader, Adding
    <2>4. Detacher(reg[a]) => Detacher(reg[a])'
      <3>1. op[t] = "close" /\ pc[t] \in HoldPcs => pc'[t] \in HoldPcs \union {"poison"}
        BY <1>e DEF HoldPcs, LoopPcs
      <3>2. pc[t] # "poison" /\ (a = t => op[t] = "add")
        BY <1>e, <2>1 DEF Adding
      <3>3. QED
        BY <1>e, <3>1, <3>2, <2>1 DEF Detacher, Elsewhere
    <2>5. Alone(a)'
      BY <1>e, <2>1, <2>3, <2>d DEF Alone, Elsewhere, LoopPcs
    <2>6. Untouched(a)'
      BY <1>e, <2>1, <2>2, <2>r, <2>3 DEF Untouched
    <2>7. Heading(a)'
      <3>1. /\ \A u \in Threads : u # t => (Closer(u)' <=> Closer(u))
            /\ Closer(t)' => Closer(t) /\ pc[t] # "close_wait" /\ pc'[t] \notin ClosePcs
        BY <1>e DEF Closer, Elsewhere, ClosePcs
      <3>2. QED
        BY <1>e, <2>1, <2>2, <2>3, <3>1 DEF Heading, Elsewhere
    <2>8. Cleared(a)'
      BY <1>e, <2>1, <2>2, <2>3, <2>4 DEF Cleared
    <2>9. Overtaken(a)'
      <3>1. phase'[reg[a]] # "Attached" => phase[reg[a]] # "Attached"
        BY <1>e, <2>2 DEF AtReader
      <3>2. pc'[a] \in LoopPcs => pc[a] \in LoopPcs
        BY <1>e, <2>1 DEF Elsewhere, LoopPcs
      <3>3. QED
        BY <2>1, <2>3, <2>4, <3>1, <3>2 DEF Overtaken
    <2>10. QED
      BY <2>5, <2>6, <2>7, <2>8, <2>9
  <1>9. CloserReleases'
    <2>1. \A u \in Threads : /\ Of(reg[u])' = Of(reg[u]) /\ arg'[u] = arg[u]
                             /\ u # t => (Closer(u)' <=> Closer(u)) /\ (Passed(u)' <=> Passed(u))
      BY <1>e DEF Elsewhere, Of, Closer, Passed, Reader
    <2>2. Closer(t)' => Closer(t) /\ arg[t] \in Of(reg[t]) /\ ~Passed(t)'
      BY <1>e DEF RegInv, CloserReleases, Closer, Passed, HoldPcs, LoopPcs
    <2>3. QED
      BY <1>e, <2>1, <2>2 DEF RegInv, CloserReleases, Elsewhere, HoldPcs, LoopPcs
  <1>10. SingleReleased'
    BY <1>e DEF RegInv, SingleReleased, Holder, HoldPcs, LoopPcs, Shape, Elsewhere
  <1>11. Detachable'
    BY <1>e DEF RegInv, Detachable, Reader, Shape, Elsewhere
  <1>12. NativeKept'
    BY <1>e, NativeStays DEF Elsewhere
  <1>13. QED
    BY <1>1, <1>2, <1>3, <1>4, <1>5, <1>6, <1>7, <1>8, <1>9, <1>10, <1>11, <1>12 DEF RegInv

\* The set is poisoned after a failed release.
LEMMA PoisonKeeps ==
  ASSUME RegInv, NEW t \in Threads, Poison(t)
  PROVE  RegInv'
  <1>w. pc[t] \in WorkPcs
    BY DEF Poison, WorkPcs, ClaimPcs, HoldPcs, LoopPcs
  <1>f. AtReader(t)
    BY <1>w, WorkTyped
  <1>m. \A u \in Threads : pc[u] # "idle" => op[u] # "add"
    BY ReaderRegistrationAssumption DEF RegInv, Shape, Poison
  <1>e. /\ Elsewhere(t)
        /\ pc[t] = "poison" /\ mutex = NoThread /\ pc'[t] = Return(op[t])
        /\ op'[t] = op[t]
        /\ reg'[t] = reg[t]
        /\ arg'[t] = arg[t]
        /\ idx'[t] = idx[t]
        /\ failed'[t] = failed[t]
        /\ UNCHANGED <<mutex, listed, created, members, phase, condition, native, claiming,
                       closing, owner, lifecycle, deleted>>
    BY DEF Poison, Goto, Return, Elsewhere, RegInv, TypeOK, nativeVars, readerVars, callVars,
           boundVars, Regs
  <1>x. /\ pc' = [pc EXCEPT ![t] = pc'[t]]
    BY DEF RegInv, TypeOK, Regs, Poison, Goto, Return, nativeVars, readerVars, callVars,
           boundVars
  <1>y. UNCHANGED <<op, reg, arg, idx, failed>>
    BY DEF Poison, Goto, Return, callVars
  <1>1. TypeOK'
    <2>1. PlainTyped'
      <3>1. /\ mutex' \in Threads \union {NoThread}
            /\ created' \in 0..MaxRegistrations
            /\ listed' \in SUBSET Regs
            /\ condition' \in SUBSET Pairs
            /\ native' \in SUBSET Pairs
            /\ deleted' \in SUBSET Readers
        BY <1>e DEF RegInv, TypeOK
      <3>2. poisoned' \in BOOLEAN
        BY DEF RegInv, TypeOK, Regs, Poison, Goto, Return, nativeVars, readerVars, callVars,
               boundVars
      <3>3. faults' \in 0..MaxFaults
        <4>1. faults' = faults
          BY DEF Poison, Goto, Return, boundVars
        <4>2. QED
          BY <4>1 DEF RegInv, TypeOK
      <3>4. calls' \in [Threads -> 0..MaxCalls]
        <4>1. calls' = calls
          BY DEF Poison, Goto, Return, boundVars
        <4>2. QED
          BY <4>1 DEF RegInv, TypeOK
      <3>5. QED
        BY <3>1, <3>2, <3>3, <3>4 DEF PlainTyped
    <2>2. RegsTyped'
      BY <1>e DEF RegInv, TypeOK, RegsTyped
    <2>3. ReadersTyped'
      BY DEF RegInv, TypeOK, ReadersTyped, Poison, Goto, Return, nativeVars, readerVars,
             callVars, boundVars
    <2>4. ThreadsTyped'
      <3>1. pc'[t] \in Pcs
        BY <1>e DEF RegInv, TypeOK, Pcs, Return, Regs
      <3>2. QED
        BY <1>x, <1>y, <3>1 DEF RegInv, TypeOK, ThreadsTyped
    <2>5. Within(t)'
      BY <1>e DEF RegInv, TypeOK, Shape, Within, Regs
    <2>6. \A u \in Threads : u # t => Within(u)'
      BY <1>e DEF RegInv, TypeOK, Within, Elsewhere
    <2>7. QED
      BY <2>1, <2>2, <2>3, <2>4, <2>5, <2>6
      DEF TypeOK, PlainTyped, RegsTyped, ReadersTyped, ThreadsTyped, Within
  <1>2. Shape'
    BY <1>e DEF RegInv, Shape, ClaimPcs, HoldPcs, LoopPcs, WorkPcs, ClosePcs, Elsewhere, Return
  <1>3. Numbered'
    BY <1>e DEF RegInv, Numbered, Of, Elsewhere, Return
  <1>4. Claimed'
    BY <1>m, <1>e DEF RegInv, Claimed, Holds, Marks, ClaimPcs, Shape, Elsewhere, Return
  <1>5. Fresh'
    BY <1>e DEF RegInv, Fresh, Unpublished, ClaimPcs, Shape, Elsewhere, Return
  <1>6. OneHolder'
    BY <1>e DEF RegInv, OneHolder, Holder, HoldPcs, LoopPcs, Shape, Elsewhere, Return
  <1>7. Closed'
    BY <1>e
    DEF RegInv, Closed, Apart, GivenUp, Destroying, Closer, WorkPcs, HoldPcs, LoopPcs, Shape,
        Elsewhere, Return
  <1>8. AddAhead'
    BY <1>m, <1>e DEF RegInv, AddAhead, Adding, LoopPcs, ClosePcs, Shape, Elsewhere, Return
  <1>9. CloserReleases'
    BY <1>e
    DEF RegInv, CloserReleases, Closer, Passed, Reader, Of, HoldPcs, LoopPcs, Shape,
        Elsewhere, Return
  <1>10. SingleReleased'
    BY <1>e DEF RegInv, SingleReleased, Holder, HoldPcs, LoopPcs, Shape, Elsewhere, Return
  <1>11. Detachable'
    BY <1>e DEF RegInv, Detachable, Reader, Shape, Elsewhere, Return
  <1>12. NativeKept'
    BY <1>e, NativeStays DEF Elsewhere, Return
  <1>13. QED
    BY <1>1, <1>2, <1>3, <1>4, <1>5, <1>6, <1>7, <1>8, <1>9, <1>10, <1>11, <1>12 DEF RegInv

\* detach() erases the registration it has released.
LEMMA EraseKeeps ==
  ASSUME RegInv, NEW t \in Threads, Erase(t)
  PROVE  RegInv'
  <1>w. pc[t] \in WorkPcs
    BY DEF Erase, WorkPcs, ClaimPcs, HoldPcs, LoopPcs
  <1>f. AtReader(t)
    BY <1>w, WorkTyped
  <1>m. \A u \in Threads : pc[u] # "idle" => op[u] # "add"
    BY ReaderRegistrationAssumption DEF RegInv, Shape, Erase
  <1>e. /\ Elsewhere(t)
        /\ pc[t] = "erase" /\ mutex = NoThread /\ pc'[t] = Return(op[t])
        /\ op'[t] = op[t]
        /\ reg'[t] = reg[t]
        /\ arg'[t] = arg[t]
        /\ idx'[t] = idx[t]
        /\ failed'[t] = failed[t]
        /\ listed' = listed \ {reg[t]}
        /\ phase'[reg[t]] = "Detached" /\ \A n \in Regs : n # reg[t] => phase'[n] = phase[n]
        /\ UNCHANGED <<mutex, created, members, condition, native, claiming, closing, owner,
                       lifecycle, deleted>>
    BY <1>f
    DEF Erase, Goto, Return, Elsewhere, RegInv, TypeOK, nativeVars, readerVars, callVars,
        boundVars, Regs, AtReader
  <1>x. /\ pc' = [pc EXCEPT ![t] = pc'[t]]
        /\ phase' = [phase EXCEPT ![reg[t]] = phase'[reg[t]]]
    BY DEF RegInv, TypeOK, Regs, Erase, Goto, Return, nativeVars, readerVars, callVars,
           boundVars
  <1>y. UNCHANGED <<op, reg, arg, idx, failed>>
    BY DEF Erase, Goto, Return, callVars
  <1>1. TypeOK'
    <2>1. PlainTyped'
      <3>1. /\ mutex' \in Threads \union {NoThread}
            /\ created' \in 0..MaxRegistrations
            /\ condition' \in SUBSET Pairs
            /\ native' \in SUBSET Pairs
            /\ deleted' \in SUBSET Readers
        BY <1>e DEF RegInv, TypeOK
      <3>2. poisoned' \in BOOLEAN
        BY DEF RegInv, TypeOK, Regs, Erase, Goto, Return, nativeVars, readerVars, callVars,
               boundVars
      <3>3. faults' \in 0..MaxFaults
        <4>1. faults' = faults
          BY DEF Erase, Goto, Return, boundVars
        <4>2. QED
          BY <4>1 DEF RegInv, TypeOK
      <3>4. listed' \in SUBSET Regs
        BY DEF RegInv, TypeOK, Pairs, Regs, Erase, Goto, Return, nativeVars, readerVars,
               callVars, boundVars
      <3>5. calls' \in [Threads -> 0..MaxCalls]
        <4>1. calls' = calls
          BY DEF Erase, Goto, Return, boundVars
        <4>2. QED
          BY <4>1 DEF RegInv, TypeOK
      <3>6. QED
        BY <3>1, <3>2, <3>3, <3>4, <3>5 DEF PlainTyped
    <2>2. RegsTyped'
      <3>1. /\ members' \in [Regs -> Waitables \union {<< >>}]
        BY <1>e DEF RegInv, TypeOK
      <3>2. phase' \in [Regs -> {"unused", "Attached", "Detaching", "Detached"}]
        <4>1. phase \in [Regs -> {"unused", "Attached", "Detaching", "Detached"}]
          BY DEF RegInv, TypeOK
        <4>2. phase'[reg[t]] \in {"unused", "Attached", "Detaching", "Detached"}
          BY <1>e, <4>1 DEF Return, Regs
        <4>3. QED
          BY <1>x, <4>1, <4>2
      <3>3. QED
        BY <3>1, <3>2 DEF RegsTyped
    <2>3. ReadersTyped'
      BY DEF RegInv, TypeOK, ReadersTyped, Erase, Goto, Return, nativeVars, readerVars,
             callVars, boundVars
    <2>4. ThreadsTyped'
      <3>1. pc'[t] \in Pcs
        BY <1>e DEF RegInv, TypeOK, Pcs, Return, Regs
      <3>2. QED
        BY <1>x, <1>y, <3>1 DEF RegInv, TypeOK, ThreadsTyped
    <2>5. Within(t)'
      BY <1>e DEF RegInv, TypeOK, Shape, Within, Regs
    <2>6. \A u \in Threads : u # t => Within(u)'
      BY <1>e DEF RegInv, TypeOK, Within, Elsewhere
    <2>7. QED
      BY <2>1, <2>2, <2>3, <2>4, <2>5, <2>6
      DEF TypeOK, PlainTyped, RegsTyped, ReadersTyped, ThreadsTyped, Within
  <1>2. Shape'
    BY <1>e DEF RegInv, Shape, ClaimPcs, HoldPcs, LoopPcs, WorkPcs, ClosePcs, Elsewhere, Return
  <1>3. Numbered'
    BY <1>e DEF RegInv, Numbered, Of, Elsewhere, Return
  <1>4. Claimed'
    BY <1>m, <1>e DEF RegInv, Claimed, Holds, Marks, ClaimPcs, Shape, Elsewhere, Return
  <1>5. Fresh'
    BY <1>m, <1>e DEF RegInv, Fresh, Unpublished, ClaimPcs, Shape, Elsewhere, Return
  <1>6. OneHolder'
    <2>1. \A u \in Threads : u # t => (Holder(u)' <=> Holder(u)) /\ reg'[u] = reg[u]
      BY <1>e DEF Elsewhere, Holder
    <2>2. \A u \in Threads : Holder(u) => reg[u] \in Regs
      BY DEF RegInv, TypeOK, Shape, Holder, WorkPcs, Regs
    <2>3. Holder(t) /\ ~Holder(t)'
      BY <1>e DEF RegInv, Shape, Holder, HoldPcs, LoopPcs, Return
    <2>4. \A u \in Threads : u # t /\ Holder(u) => reg[u] # reg[t]
      BY <2>3 DEF RegInv, OneHolder
    <2>5. QED
      BY <1>e, <2>1, <2>2, <2>3, <2>4 DEF RegInv, OneHolder
  <1>7. Closed'
    BY <1>e
    DEF RegInv, Closed, Apart, GivenUp, Destroying, Closer, WorkPcs, HoldPcs, LoopPcs, Shape,
        Elsewhere, Return
  <1>8. AddAhead'
    BY <1>m, <1>e DEF RegInv, AddAhead, Adding, LoopPcs, ClosePcs, Shape, Elsewhere, Return
  <1>9. CloserReleases'
    BY <1>e
    DEF RegInv, CloserReleases, Closer, Passed, Reader, Of, HoldPcs, LoopPcs, Shape,
        Elsewhere, Return
  <1>10. SingleReleased'
    BY <1>e DEF RegInv, SingleReleased, Holder, HoldPcs, LoopPcs, Shape, Elsewhere, Return
  <1>11. Detachable'
    BY <1>e DEF RegInv, Detachable, Reader, Shape, Elsewhere, Return
  <1>12. NativeKept'
    BY <1>e, NativeStays DEF Elsewhere, Return
  <1>13. QED
    BY <1>1, <1>2, <1>3, <1>4, <1>5, <1>6, <1>7, <1>8, <1>9, <1>10, <1>11, <1>12 DEF RegInv

\* The destructor of an endpoint begins to close one of its readers.
LEMMA CloseKeeps ==
  ASSUME RegInv, NEW t \in Threads, NEW r \in Readers, Close(t, r)
  PROVE  RegInv'
  <1>e. /\ Elsewhere(t)
        /\ pc[t] = "idle" /\ pc'[t] = "close_wait" /\ op'[t] = "close" /\ idx'[t] = 1 /\ ~failed'[t]
        /\ reg'[t] = reg[t] /\ arg'[t] = r
        /\ ~closing[r] /\ closing'[r] /\ \A x \in Readers : x # r => closing'[x] = closing[x]
        /\ \A u \in Threads : Closer(u) => ~Together(r, arg[u])
        /\ UNCHANGED <<mutex, listed, created, members, phase, condition, native, claiming,
                       owner, lifecycle, deleted>>
    BY DEF Close, Begin, Goto, Free, Elsewhere, RegInv, TypeOK, setVars, nativeVars, Regs,
           Closer
  <1>x. /\ pc' = [pc EXCEPT ![t] = pc'[t]]
        /\ op' = [op EXCEPT ![t] = op'[t]]
        /\ idx' = [idx EXCEPT ![t] = idx'[t]]
        /\ failed' = [failed EXCEPT ![t] = failed'[t]]
        /\ arg' = [arg EXCEPT ![t] = arg'[t]]
        /\ closing' = [closing EXCEPT ![r] = closing'[r]]
        /\ calls' = [calls EXCEPT ![t] = calls'[t]]
    BY DEF RegInv, TypeOK, Regs, Close, Begin, Goto, Free, setVars, nativeVars
  <1>y. UNCHANGED <<reg>>
    BY DEF Close, Begin, Goto, Free
  <1>1. TypeOK'
    <2>1. PlainTyped'
      <3>1. /\ mutex' \in Threads \union {NoThread}
            /\ created' \in 0..MaxRegistrations
            /\ listed' \in SUBSET Regs
            /\ condition' \in SUBSET Pairs
            /\ native' \in SUBSET Pairs
            /\ deleted' \in SUBSET Readers
        BY <1>e DEF RegInv, TypeOK
      <3>2. poisoned' \in BOOLEAN
        BY DEF RegInv, TypeOK, Regs, Close, Begin, Goto, Free, setVars, nativeVars
      <3>3. faults' \in 0..MaxFaults
        <4>1. faults' = faults
          BY DEF Close, Begin, Goto, Free
        <4>2. QED
          BY <4>1 DEF RegInv, TypeOK
      <3>4. calls' \in [Threads -> 0..MaxCalls]
        <4>1. calls' = [calls EXCEPT ![t] = calls[t] + 1] /\ calls[t] < MaxCalls
          BY DEF Begin, Close
        <4>2. QED
          BY <4>1, ReaderRegistrationAssumption DEF RegInv, TypeOK
      <3>5. QED
        BY <3>1, <3>2, <3>3, <3>4 DEF PlainTyped
    <2>2. RegsTyped'
      BY <1>e DEF RegInv, TypeOK, RegsTyped
    <2>3. ReadersTyped'
      <3>1. /\ claiming' \in [Readers -> BOOLEAN]
            /\ owner' \in [Readers -> 0..MaxRegistrations]
            /\ lifecycle' \in [Readers -> {"Open", "DeleteDeferredByWaitSet", "Closed"}]
        BY <1>e DEF RegInv, TypeOK
      <3>2. callback' \in [Readers -> Threads \union {NoThread}]
        BY DEF RegInv, TypeOK, Close, Begin, Goto, Free
      <3>3. closing' \in [Readers -> BOOLEAN]
        <4>1. closing \in [Readers -> BOOLEAN]
          BY DEF RegInv, TypeOK
        <4>2. QED
          BY <4>1 DEF Close, Begin, Goto, Free
      <3>4. QED
        BY <3>1, <3>2, <3>3 DEF ReadersTyped
    <2>4. ThreadsTyped'
      <3>1. pc'[t] \in Pcs
        BY <1>e DEF RegInv, TypeOK, Pcs, Regs
      <3>2. op'[t] \in AllOperations \union {"none"}
        BY <1>e DEF RegInv, TypeOK, AllOperations, Regs
      <3>3. arg'[t] \in Readers
        BY <1>e DEF RegInv, TypeOK, Regs
      <3>4. idx'[t] \in Nat \ {0}
        BY <1>e DEF RegInv, TypeOK, Regs
      <3>5. failed' \in [Threads -> BOOLEAN]
        BY DEF RegInv, TypeOK, Close, Begin, Goto, Free
      <3>6. QED
        BY <1>x, <1>y, <3>1, <3>2, <3>3, <3>4, <3>5 DEF RegInv, TypeOK, ThreadsTyped
    <2>5. Within(t)'
      BY <1>e DEF RegInv, TypeOK, Shape, Within, Regs
    <2>6. \A u \in Threads : u # t => Within(u)'
      BY <1>e DEF RegInv, TypeOK, Within, Elsewhere
    <2>7. QED
      BY <2>1, <2>2, <2>3, <2>4, <2>5, <2>6
      DEF TypeOK, PlainTyped, RegsTyped, ReadersTyped, ThreadsTyped, Within
  <1>2. Shape'
    BY <1>e DEF RegInv, Shape, ClaimPcs, HoldPcs, LoopPcs, WorkPcs, ClosePcs, Elsewhere
  <1>3. Numbered'
    BY <1>e DEF RegInv, Numbered, Of, Elsewhere
  <1>4. Claimed'
    BY <1>e DEF RegInv, Claimed, Holds, Marks, ClaimPcs, Shape, Elsewhere
  <1>5. Fresh'
    BY <1>e DEF RegInv, Fresh, Unpublished, ClaimPcs, Shape, Elsewhere
  <1>6. OneHolder'
    BY <1>e DEF RegInv, OneHolder, Holder, HoldPcs, LoopPcs, Shape, Elsewhere
  <1>7. Closed'
    <2>1. /\ \A u \in Threads : u # t => (Closer(u)' <=> Closer(u)) /\ arg'[u] = arg[u]
          /\ \A u \in Threads : arg[u] \in Readers
      BY <1>e DEF RegInv, TypeOK, Closer, Elsewhere
    <2>2. \A u \in Threads : u # t /\ Closer(u)' => ~Together(r, arg[u]) /\ ~Together(arg[u], r)
      BY <1>e, <2>1 DEF Together
    <2>3. Apart'
      BY <1>e, <2>1, <2>2 DEF RegInv, Closed, Apart
    <2>4. GivenUp'
      BY <1>e DEF RegInv, Closed, GivenUp
    <2>5. \A u \in Threads : Closer(u)' => Destroying(u)'
      BY <1>e, <2>1 DEF RegInv, Closed, Elsewhere, Destroying
    <2>6. QED
      BY <2>3, <2>4, <2>5 DEF Closed
  <1>8. AddAhead'
    <2> SUFFICES ASSUME NEW a \in Threads, Adding(a)'
                 PROVE  /\ Alone(a)' /\ Untouched(a)' /\ Heading(a)' /\ Cleared(a)' /\ Overtaken(a)'
      BY DEF AddAhead
    <2>1. /\ Adding(a) /\ op'[a] = op[a] /\ reg'[a] = reg[a] /\ pc[a] \in WorkPcs
          /\ a # t
      BY <1>e DEF Adding, Elsewhere, LoopPcs, WorkPcs, ClaimPcs, HoldPcs
    <2>2. AtReader(a) /\ Of(reg[a])' = Of(reg[a])
      BY <1>e, <2>1, WorkTyped DEF Of
    <2>r. Of(reg[a]) \subseteq Readers
      BY <2>2 DEF AtReader, Of
    <2>3. Alone(a) /\ Untouched(a) /\ Heading(a) /\ Cleared(a) /\ Overtaken(a)
      BY <2>1 DEF RegInv, AddAhead
    <2>4. Detacher(reg[a]) => Detacher(reg[a])'
      BY <1>e, <2>1 DEF Detacher, Elsewhere, HoldPcs, LoopPcs
    <2>5. Alone(a)'
      BY <1>e, <2>1, <2>3 DEF Alone, Elsewhere
    <2>6. Untouched(a)'
      BY <1>e, <2>1, <2>2, <2>r, <2>3 DEF Untouched
    <2>7. Heading(a)'
      <3>1. /\ \A u \in Threads : u # t => (Closer(u)' <=> Closer(u)) /\ arg'[u] = arg[u]
            /\ pc'[t] = "close_wait"
        BY <1>e DEF Closer, Elsewhere
      <3>2. QED
        BY <1>e, <2>1, <2>2, <2>3, <3>1 DEF Heading, Elsewhere
    <2>8. Cleared(a)'
      BY <1>e, <2>1, <2>2, <2>3, <2>4 DEF Cleared
    <2>9. Overtaken(a)'
      BY <1>e, <2>1, <2>3, <2>4 DEF Overtaken, Elsewhere
    <2>10. QED
      BY <2>5, <2>6, <2>7, <2>8, <2>9
  <1>9. CloserReleases'
    BY <1>e
    DEF RegInv, CloserReleases, Closer, Passed, Reader, Of, HoldPcs, LoopPcs, Shape, Elsewhere
  <1>10. SingleReleased'
    BY <1>e DEF RegInv, SingleReleased, Holder, HoldPcs, LoopPcs, Shape, Elsewhere
  <1>11. Detachable'
    BY <1>e DEF RegInv, Detachable, Reader, Shape, Elsewhere
  <1>12. NativeKept'
    BY <1>e, NativeStays DEF Elsewhere
  <1>13. QED
    BY <1>1, <1>2, <1>3, <1>4, <1>5, <1>6, <1>7, <1>8, <1>9, <1>10, <1>11, <1>12 DEF RegInv

\* close() has waited for the claim in progress and reads the identity.
LEMMA CloseWaitKeeps ==
  ASSUME RegInv, NEW t \in Threads, CloseWait(t)
  PROVE  RegInv'
  <1>o. op[t] = "close"
    BY DEF RegInv, Shape, CloseWait, ClaimPcs, ClosePcs
  <1>e. /\ Elsewhere(t)
        /\ pc[t] = "close_wait" /\ ~claiming[arg[t]]
        /\ op'[t] = op[t]
        /\ arg'[t] = arg[t]
        /\ idx'[t] = idx[t]
        /\ failed'[t] = failed[t]
        /\ reg'[t] = owner[arg[t]]
        /\ \/ owner[arg[t]] # 0 /\ pc'[t] = "detach"
           \/ owner[arg[t]] = 0 /\ pc'[t] = "close_end"
        /\ UNCHANGED <<mutex, listed, created, members, phase, condition, native, claiming,
                       closing, owner, lifecycle, deleted>>
    BY DEF CloseWait, ClaimSettled, Goto, Free, Elsewhere, RegInv, TypeOK, setVars,
           nativeVars, readerVars, boundVars, Regs
  <1>x. /\ pc' = [pc EXCEPT ![t] = pc'[t]]
        /\ reg' = [reg EXCEPT ![t] = reg'[t]]
    BY DEF RegInv, TypeOK, Regs, CloseWait, ClaimSettled, Goto, Free, setVars, nativeVars,
           readerVars, boundVars
  <1>y. UNCHANGED <<op, arg, idx, failed>>
    BY DEF CloseWait, ClaimSettled, Goto, Free
  <1>1. TypeOK'
    <2>1. PlainTyped'
      BY DEF RegInv, TypeOK, PlainTyped, Pairs, Regs, CloseWait, ClaimSettled, Goto, Free,
             setVars, nativeVars, readerVars, boundVars
    <2>2. RegsTyped'
      BY <1>e DEF RegInv, TypeOK, RegsTyped
    <2>3. ReadersTyped'
      BY DEF RegInv, TypeOK, ReadersTyped, CloseWait, ClaimSettled, Goto, Free, setVars,
             nativeVars, readerVars, boundVars
    <2>4. ThreadsTyped'
      <3>1. pc'[t] \in Pcs
        BY <1>e DEF RegInv, TypeOK, Pcs, Regs
      <3>2. reg'[t] \in 0..MaxRegistrations
        BY <1>e DEF RegInv, TypeOK, Regs
      <3>3. QED
        BY <1>x, <1>y, <3>1, <3>2 DEF RegInv, TypeOK, ThreadsTyped
    <2>5. Within(t)'
      BY <1>e DEF RegInv, TypeOK, Shape, Within, Regs
    <2>6. \A u \in Threads : u # t => Within(u)'
      BY <1>e DEF RegInv, TypeOK, Within, Elsewhere
    <2>7. QED
      BY <2>1, <2>2, <2>3, <2>4, <2>5, <2>6
      DEF TypeOK, PlainTyped, RegsTyped, ReadersTyped, ThreadsTyped, Within
  <1>2. Shape'
    <2>1. idx[t] = 1 /\ arg[t] \in Readers
      BY <1>e DEF RegInv, Shape, TypeOK
    <2>2. owner[arg[t]] # 0 => owner[arg[t]] <= created /\ arg[t] \in Of(owner[arg[t]])
      BY <2>1 DEF RegInv, Numbered
    <2>3. owner[arg[t]] # 0 => members[owner[arg[t]]] \in Seq(Readers) /\ members[owner[arg[t]]] # << >>
      BY <2>1, <2>2, ReaderRegistrationAssumption DEF RegInv, Numbered, TypeOK, Regs
    <2>4. owner[arg[t]] # 0 => 1 \in DOMAIN members[owner[arg[t]]]
      BY <2>3
    <2>5. owner[arg[t]] <= created
      BY <2>1, <2>2 DEF RegInv, TypeOK
    <2>6. QED
      BY <1>e, <2>1, <2>4, <2>5
      DEF RegInv, Shape, ClaimPcs, HoldPcs, LoopPcs, WorkPcs, ClosePcs, Elsewhere
  <1>3. Numbered'
    BY <1>e DEF RegInv, Numbered, Of, Elsewhere
  <1>4. Claimed'
    BY <1>e DEF RegInv, Claimed, Holds, Marks, ClaimPcs, Shape, Elsewhere
  <1>5. Fresh'
    <2>1. arg[t] \in Readers /\ pc'[t] \notin ClaimPcs \union {"insert"} /\ ~Unpublished(t)'
      BY <1>e DEF RegInv, TypeOK, Unpublished, ClaimPcs
    <2>2. \A u \in Threads : u # t => (Unpublished(u)' <=> Unpublished(u))
      BY <1>e DEF Elsewhere, Unpublished
    <2>3. QED
      BY <1>e, <2>1, <2>2 DEF RegInv, Fresh, Elsewhere
  <1>6. OneHolder'
    BY <1>e DEF RegInv, OneHolder, Holder, HoldPcs, LoopPcs, Shape, Elsewhere
  <1>7. Closed'
    BY <1>e
    DEF RegInv, Closed, Apart, GivenUp, Destroying, Closer, WorkPcs, HoldPcs, LoopPcs, Shape,
        Elsewhere
  <1>8. AddAhead'
    <2> SUFFICES ASSUME NEW a \in Threads, Adding(a)'
                 PROVE  /\ Alone(a)' /\ Untouched(a)' /\ Heading(a)' /\ Cleared(a)' /\ Overtaken(a)'
      BY DEF AddAhead
    <2>1. /\ Adding(a) /\ op'[a] = op[a] /\ reg'[a] = reg[a] /\ pc[a] \in WorkPcs
          /\ a # t
      BY <1>e DEF Adding, Elsewhere, LoopPcs, WorkPcs, ClaimPcs, HoldPcs
    <2>2. AtReader(a) /\ Of(reg[a])' = Of(reg[a])
      BY <1>e, <2>1, WorkTyped DEF Of
    <2>r. Of(reg[a]) \subseteq Readers
      BY <2>2 DEF AtReader, Of
    <2>3. Alone(a) /\ Untouched(a) /\ Heading(a) /\ Cleared(a) /\ Overtaken(a)
      BY <2>1 DEF RegInv, AddAhead
    <2>4. Detacher(reg[a]) => Detacher(reg[a])'
      BY <1>e, <2>1 DEF Detacher, Elsewhere, HoldPcs, LoopPcs
    <2>5. Alone(a)'
      BY <1>o, <1>e, <2>1, <2>3 DEF Alone, Elsewhere
    <2>6. Untouched(a)'
      BY <1>e, <2>1, <2>2, <2>r, <2>3 DEF Untouched
    <2>7. Heading(a)'
      <3>1. \A u \in Threads : u # t => (Closer(u)' <=> Closer(u))
        BY <1>e DEF Closer, Elsewhere
      <3>2. arg[t] \in Of(reg[a]) => owner[arg[t]] = reg[a]
        <4> SUFFICES ASSUME arg[t] \in Of(reg[a]), owner[arg[t]] # reg[a] PROVE FALSE
          OBVIOUS
        <4>1. Detacher(reg[a])
          BY <1>e, <2>3 DEF Cleared
        <4>2. Closer(t)
          BY <1>o, <1>e DEF Closer
        <4>3. QED
          BY <1>e, <2>1, <4>1, <4>2, DetacherIs DEF HoldPcs, LoopPcs
      <3>3. reg[a] # 0
        BY <2>2 DEF AtReader, Regs
      <3>4. arg[t] \in Of(reg[a]) => reg'[t] = reg[a] /\ pc'[t] \notin ClosePcs
        BY <1>e, <3>2, <3>3 DEF ClosePcs
      <3>5. QED
        BY <1>e, <2>1, <2>2, <2>3, <3>1, <3>4 DEF Heading, Elsewhere
    <2>8. Cleared(a)'
      BY <1>e, <2>1, <2>2, <2>3, <2>4 DEF Cleared
    <2>9. Overtaken(a)'
      BY <1>e, <2>1, <2>3, <2>4 DEF Overtaken, Elsewhere
    <2>10. QED
      BY <2>5, <2>6, <2>7, <2>8, <2>9
  <1>9. CloserReleases'
    <2>1. \A u \in Threads : u # t => /\ Of(reg[u])' = Of(reg[u]) /\ arg'[u] = arg[u]
                                      /\ (Closer(u)' <=> Closer(u)) /\ (Passed(u)' <=> Passed(u))
      BY <1>e DEF Elsewhere, Of, Closer, Passed, Reader
    <2>2. arg[t] \in Readers /\ Closer(t)
      BY <1>o, <1>e DEF RegInv, TypeOK, Closer
    <2>3. ~failed[t] /\ (owner[arg[t]] # 0 => arg[t] \in Of(owner[arg[t]]))
      BY <1>e, <2>2 DEF RegInv, Closed, Destroying, Numbered
    <2>4. owner[arg[t]] # 0 => arg'[t] \in Of(reg[t])' /\ ~Passed(t)'
      BY <1>e, <2>3 DEF Of, Passed, LoopPcs
    <2>5. owner[arg[t]] = 0 => pc'[t] = "close_end"
      BY <1>e
    <2>6. QED
      BY <1>e, <2>1, <2>3, <2>4, <2>5 DEF RegInv, CloserReleases, Elsewhere, HoldPcs, LoopPcs
  <1>10. SingleReleased'
    BY <1>e DEF RegInv, SingleReleased, Holder, HoldPcs, LoopPcs, Shape, Elsewhere
  <1>11. Detachable'
    BY <1>e DEF RegInv, Detachable, Reader, Shape, Elsewhere
  <1>12. NativeKept'
    BY <1>e, NativeStays DEF Elsewhere
  <1>13. QED
    BY <1>1, <1>2, <1>3, <1>4, <1>5, <1>6, <1>7, <1>8, <1>9, <1>10, <1>11, <1>12 DEF RegInv

\* close() is done, or leaves the deletion to the WaitSet.
LEMMA CloseEndKeeps ==
  ASSUME RegInv, NEW t \in Threads, CloseEnd(t)
  PROVE  RegInv'
  <1>o. op[t] = "close"
    BY DEF RegInv, Shape, CloseEnd, ClaimPcs, ClosePcs
  <1>e. /\ Elsewhere(t)
        /\ pc[t] = "close_end"
        /\ op'[t] = op[t]
        /\ reg'[t] = reg[t]
        /\ arg'[t] = arg[t]
        /\ idx'[t] = idx[t]
        /\ failed'[t] = failed[t]
        /\ lifecycle'[arg[t]] # "Open" /\ \A r \in Readers : r # arg[t] => lifecycle'[r] = lifecycle[r]
        /\ \/ failed[t] /\ pc'[t] = "idle"
           \/ ~failed[t] /\ pc'[t] = "close_delete"
        /\ UNCHANGED <<mutex, listed, created, members, phase, condition, native, claiming,
                       closing, owner, deleted>>
    BY DEF CloseEnd, Goto, Elsewhere, RegInv, TypeOK, setVars, nativeVars, callVars,
           boundVars, Regs
  <1>x. /\ pc' = [pc EXCEPT ![t] = pc'[t]]
        /\ lifecycle' = [lifecycle EXCEPT ![arg[t]] = lifecycle'[arg[t]]]
    BY DEF RegInv, TypeOK, Regs, CloseEnd, Goto, setVars, nativeVars, callVars, boundVars
  <1>y. UNCHANGED <<op, reg, arg, idx, failed>>
    BY DEF CloseEnd, Goto, callVars
  <1>1. TypeOK'
    <2>1. PlainTyped'
      BY DEF RegInv, TypeOK, PlainTyped, Pairs, Regs, CloseEnd, Goto, setVars, nativeVars,
             callVars, boundVars
    <2>2. RegsTyped'
      BY <1>e DEF RegInv, TypeOK, RegsTyped
    <2>3. ReadersTyped'
      <3>1. /\ claiming' \in [Readers -> BOOLEAN]
            /\ closing' \in [Readers -> BOOLEAN]
            /\ owner' \in [Readers -> 0..MaxRegistrations]
        BY <1>e DEF RegInv, TypeOK
      <3>2. callback' \in [Readers -> Threads \union {NoThread}]
        BY DEF RegInv, TypeOK, CloseEnd, Goto
      <3>3. lifecycle' \in [Readers -> {"Open", "DeleteDeferredByWaitSet", "Closed"}]
        <4>1. lifecycle \in [Readers -> {"Open", "DeleteDeferredByWaitSet", "Closed"}]
          BY DEF RegInv, TypeOK
        <4>2. QED
          BY <4>1 DEF CloseEnd, Goto
      <3>4. QED
        BY <3>1, <3>2, <3>3 DEF ReadersTyped
    <2>4. ThreadsTyped'
      <3>1. pc'[t] \in Pcs
        BY <1>e DEF RegInv, TypeOK, Pcs, Regs
      <3>2. QED
        BY <1>x, <1>y, <3>1 DEF RegInv, TypeOK, ThreadsTyped
    <2>5. Within(t)'
      BY <1>e DEF RegInv, TypeOK, Shape, Within, Regs
    <2>6. \A u \in Threads : u # t => Within(u)'
      BY <1>e DEF RegInv, TypeOK, Within, Elsewhere
    <2>7. QED
      BY <2>1, <2>2, <2>3, <2>4, <2>5, <2>6
      DEF TypeOK, PlainTyped, RegsTyped, ReadersTyped, ThreadsTyped, Within
  <1>2. Shape'
    BY <1>e DEF RegInv, Shape, ClaimPcs, HoldPcs, LoopPcs, WorkPcs, ClosePcs, Elsewhere
  <1>3. Numbered'
    BY <1>e DEF RegInv, Numbered, Of, Elsewhere
  <1>4. Claimed'
    BY <1>e DEF RegInv, Claimed, Holds, Marks, ClaimPcs, Shape, Elsewhere
  <1>5. Fresh'
    BY <1>e DEF RegInv, Fresh, Unpublished, ClaimPcs, Shape, Elsewhere
  <1>6. OneHolder'
    BY <1>e DEF RegInv, OneHolder, Holder, HoldPcs, LoopPcs, Shape, Elsewhere
  <1>7. Closed'
    <2>1. /\ arg' = arg /\ \A u \in Threads : u # t => (Closer(u)' <=> Closer(u))
          /\ Closer(t) /\ Destroying(t) /\ \A u \in Threads : arg[u] \in Readers
      BY <1>o, <1>e DEF RegInv, Closed, TypeOK, Closer, Elsewhere, CloseEnd, callVars
    <2>2. Apart'
      BY <2>1 DEF RegInv, Closed, Apart
    <2>3. closing[arg[t]] /\ ~claiming[arg[t]]
      BY <1>e, <2>1 DEF Destroying
    <2>4. GivenUp'
      <3>1. deleted \subseteq Readers
        BY DEF RegInv, TypeOK
      <3>2. QED
        BY <1>e, <2>3, <3>1 DEF RegInv, Closed, GivenUp
    <2>5. \A u \in Threads : Closer(u)' => Destroying(u)'
      BY <1>e, <2>1, <2>3 DEF RegInv, Closed, Closer, Elsewhere, Destroying
    <2>6. QED
      BY <2>2, <2>4, <2>5 DEF Closed
  <1>8. AddAhead'
    <2> SUFFICES ASSUME NEW a \in Threads, Adding(a)'
                 PROVE  /\ Alone(a)' /\ Untouched(a)' /\ Heading(a)' /\ Cleared(a)' /\ Overtaken(a)'
      BY DEF AddAhead
    <2>1. /\ Adding(a) /\ op'[a] = op[a] /\ reg'[a] = reg[a] /\ pc[a] \in WorkPcs
          /\ a # t
      BY <1>e DEF Adding, Elsewhere, LoopPcs, WorkPcs, ClaimPcs, HoldPcs
    <2>2. AtReader(a) /\ Of(reg[a])' = Of(reg[a])
      BY <1>e, <2>1, WorkTyped DEF Of
    <2>r. Of(reg[a]) \subseteq Readers
      BY <2>2 DEF AtReader, Of
    <2>3. Alone(a) /\ Untouched(a) /\ Heading(a) /\ Cleared(a) /\ Overtaken(a)
      BY <2>1 DEF RegInv, AddAhead
    <2>4. Detacher(reg[a]) => Detacher(reg[a])'
      BY <1>e, <2>1 DEF Detacher, Elsewhere, HoldPcs, LoopPcs
    <2>5. Alone(a)'
      BY <1>e, <2>1, <2>3 DEF Alone, Elsewhere
    <2>6. Untouched(a)'
      <3>1. arg[t] \notin Of(reg[a])
        BY <1>o, <1>e, <2>3 DEF Heading, Closer, ClosePcs
      <3>2. QED
        BY <1>e, <2>1, <2>2, <2>r, <2>3, <3>1 DEF Untouched
    <2>7. Heading(a)'
      <3>1. /\ \A u \in Threads : u # t => (Closer(u)' <=> Closer(u)) /\ arg'[u] = arg[u]
            /\ arg'[t] = arg[t] /\ arg[t] \notin Of(reg[a])
        BY <1>o, <1>e, <2>3 DEF Heading, Closer, Elsewhere, ClosePcs
      <3>2. QED
        BY <1>e, <2>1, <2>2, <2>3, <3>1 DEF Heading, Elsewhere
    <2>8. Cleared(a)'
      BY <1>e, <2>1, <2>2, <2>3, <2>4 DEF Cleared
    <2>9. Overtaken(a)'
      BY <1>e, <2>1, <2>3, <2>4 DEF Overtaken, Elsewhere
    <2>10. QED
      BY <2>5, <2>6, <2>7, <2>8, <2>9
  <1>9. CloserReleases'
    BY <1>e
    DEF RegInv, CloserReleases, Closer, Passed, Reader, Of, HoldPcs, LoopPcs, Shape, Elsewhere
  <1>10. SingleReleased'
    BY <1>e DEF RegInv, SingleReleased, Holder, HoldPcs, LoopPcs, Shape, Elsewhere
  <1>11. Detachable'
    <2>1. \A u \in Threads : pc[u] = "rel_native" => AtReader(u)
      BY WorkTyped DEF WorkPcs, HoldPcs, LoopPcs
    <2>2. \A u \in Threads : pc'[u] = "rel_native" =>
              /\ u # t /\ pc[u] = "rel_native" /\ reg'[u] = reg[u] /\ op'[u] = op[u]
              /\ failed'[u] = failed[u] /\ Reader(u)' = Reader(u)
              /\ Reader(u) \in Readers /\ Reader(u) \in Of(reg[u]) /\ reg[u] \in Regs /\ reg[u] <= created
      BY <1>e, <2>1 DEF Elsewhere, Reader, AtReader
    <2>3. Closer(t) /\ pc[t] \in ClosePcs /\ pc[t] # "close_wait"
      BY <1>o, <1>e DEF Closer, ClosePcs
    <2>4. \A u \in Threads : pc'[u] = "rel_native" /\ lifecycle[Reader(u)] = "Open" /\
               (op[u] = "close" \/ (op[u] = "add" /\ ~failed[u])) => Reader(u) # arg[t]
      <3> SUFFICES ASSUME NEW u \in Threads, pc'[u] = "rel_native", Reader(u) = arg[t],
                          op[u] = "close" \/ (op[u] = "add" /\ ~failed[u])
                   PROVE  FALSE
        OBVIOUS
      <3>1. CASE op[u] = "close"
        <4>1. Closer(u) /\ arg[u] \in Of(reg[u])
          BY <2>2, <3>1 DEF RegInv, CloserReleases, Closer, HoldPcs, LoopPcs
        <4>2. Together(arg[t], arg[u])
          BY <2>2, <4>1, OfTogether
        <4>3. QED
          BY <2>2, <2>3, <4>1, <4>2 DEF RegInv, Closed, Apart
      <3>2. CASE op[u] = "add" /\ ~failed[u]
        <4>1. Heading(u)
          BY <2>2, <3>2 DEF RegInv, AddAhead, Adding, LoopPcs
        <4>2. QED
          BY <2>2, <2>3, <4>1 DEF Heading
      <3>3. QED
        BY <3>1, <3>2
    <2>5. QED
      BY <1>e, <2>2, <2>4 DEF RegInv, Detachable
  <1>12. NativeKept'
    BY <1>e, NativeStays DEF Elsewhere
  <1>13. QED
    BY <1>1, <1>2, <1>3, <1>4, <1>5, <1>6, <1>7, <1>8, <1>9, <1>10, <1>11, <1>12 DEF RegInv

\* The owner deletes its DataReader.
LEMMA CloseDeleteKeeps ==
  ASSUME RegInv, NEW t \in Threads, CloseDelete(t)
  PROVE  RegInv'
  <1>o. op[t] = "close"
    BY DEF RegInv, Shape, CloseDelete, ClaimPcs, ClosePcs
  <1>e. /\ Elsewhere(t)
        /\ pc[t] = "close_delete" /\ pc'[t] = "idle"
        /\ op'[t] = op[t]
        /\ reg'[t] = reg[t]
        /\ arg'[t] = arg[t]
        /\ idx'[t] = idx[t]
        /\ failed'[t] = failed[t]
        /\ deleted' = deleted \union {arg[t]}
        /\ UNCHANGED <<mutex, listed, created, members, phase, condition, native, claiming,
                       closing, owner, lifecycle>>
    BY DEF CloseDelete, Goto, Elsewhere, RegInv, TypeOK, setVars, nativeVars, callVars,
           boundVars, Regs
  <1>x. /\ pc' = [pc EXCEPT ![t] = pc'[t]]
    BY DEF RegInv, TypeOK, Regs, CloseDelete, Goto, setVars, nativeVars, callVars, boundVars
  <1>y. UNCHANGED <<op, reg, arg, idx, failed>>
    BY DEF CloseDelete, Goto, callVars
  <1>1. TypeOK'
    <2>1. PlainTyped'
      BY DEF RegInv, TypeOK, PlainTyped, Pairs, Regs, CloseDelete, Goto, setVars, nativeVars,
             callVars, boundVars
    <2>2. RegsTyped'
      BY <1>e DEF RegInv, TypeOK, RegsTyped
    <2>3. ReadersTyped'
      BY DEF RegInv, TypeOK, ReadersTyped, CloseDelete, Goto, setVars, nativeVars, callVars,
             boundVars
    <2>4. ThreadsTyped'
      <3>1. pc'[t] \in Pcs
        BY <1>e DEF RegInv, TypeOK, Pcs, Regs
      <3>2. QED
        BY <1>x, <1>y, <3>1 DEF RegInv, TypeOK, ThreadsTyped
    <2>5. Within(t)'
      BY <1>e DEF RegInv, TypeOK, Shape, Within, Regs
    <2>6. \A u \in Threads : u # t => Within(u)'
      BY <1>e DEF RegInv, TypeOK, Within, Elsewhere
    <2>7. QED
      BY <2>1, <2>2, <2>3, <2>4, <2>5, <2>6
      DEF TypeOK, PlainTyped, RegsTyped, ReadersTyped, ThreadsTyped, Within
  <1>2. Shape'
    BY <1>e DEF RegInv, Shape, ClaimPcs, HoldPcs, LoopPcs, WorkPcs, ClosePcs, Elsewhere
  <1>3. Numbered'
    BY <1>e DEF RegInv, Numbered, Of, Elsewhere
  <1>4. Claimed'
    BY <1>e DEF RegInv, Claimed, Holds, Marks, ClaimPcs, Shape, Elsewhere
  <1>5. Fresh'
    BY <1>e DEF RegInv, Fresh, Unpublished, ClaimPcs, Shape, Elsewhere
  <1>6. OneHolder'
    BY <1>e DEF RegInv, OneHolder, Holder, HoldPcs, LoopPcs, Shape, Elsewhere
  <1>7. Closed'
    <2>1. /\ arg' = arg /\ \A u \in Threads : u # t => (Closer(u)' <=> Closer(u))
          /\ Closer(t) /\ Destroying(t) /\ \A u \in Threads : arg[u] \in Readers
      BY <1>o, <1>e DEF RegInv, Closed, TypeOK, Closer, Elsewhere, CloseDelete, callVars
    <2>2. Apart'
      BY <2>1 DEF RegInv, Closed, Apart
    <2>3. closing[arg[t]] /\ ~claiming[arg[t]]
      BY <1>e, <2>1 DEF Destroying
    <2>4. GivenUp'
      <3>1. owner[arg[t]] = 0
        BY <1>e, <2>1 DEF RegInv, CloserReleases, Passed
      <3>2. lifecycle[arg[t]] # "Open"
        BY <1>e, <2>1 DEF Destroying
      <3>3. QED
        BY <1>e, <2>1, <3>1, <3>2 DEF RegInv, Closed, GivenUp
    <2>5. \A u \in Threads : Closer(u)' => Destroying(u)'
      BY <1>e, <2>1, <2>3 DEF RegInv, Closed, Closer, Elsewhere, Destroying
    <2>6. QED
      BY <2>2, <2>4, <2>5 DEF Closed
  <1>8. AddAhead'
    <2> SUFFICES ASSUME NEW a \in Threads, Adding(a)'
                 PROVE  /\ Alone(a)' /\ Untouched(a)' /\ Heading(a)' /\ Cleared(a)' /\ Overtaken(a)'
      BY DEF AddAhead
    <2>1. /\ Adding(a) /\ op'[a] = op[a] /\ reg'[a] = reg[a] /\ pc[a] \in WorkPcs
          /\ a # t
      BY <1>e DEF Adding, Elsewhere, LoopPcs, WorkPcs, ClaimPcs, HoldPcs
    <2>2. AtReader(a) /\ Of(reg[a])' = Of(reg[a])
      BY <1>e, <2>1, WorkTyped DEF Of
    <2>r. Of(reg[a]) \subseteq Readers
      BY <2>2 DEF AtReader, Of
    <2>3. Alone(a) /\ Untouched(a) /\ Heading(a) /\ Cleared(a) /\ Overtaken(a)
      BY <2>1 DEF RegInv, AddAhead
    <2>4. Detacher(reg[a]) => Detacher(reg[a])'
      BY <1>e, <2>1 DEF Detacher, Elsewhere, HoldPcs, LoopPcs
    <2>5. Alone(a)'
      BY <1>e, <2>1, <2>3 DEF Alone, Elsewhere
    <2>6. Untouched(a)'
      BY <1>e, <2>1, <2>2, <2>r, <2>3 DEF Untouched
    <2>7. Heading(a)'
      <3>1. /\ \A u \in Threads : u # t => (Closer(u)' <=> Closer(u)) /\ arg'[u] = arg[u]
            /\ ~Closer(t)'
        BY <1>e DEF Closer, Elsewhere
      <3>2. QED
        BY <1>e, <2>1, <2>2, <2>3, <3>1 DEF Heading, Elsewhere
    <2>8. Cleared(a)'
      BY <1>e, <2>1, <2>2, <2>3, <2>4 DEF Cleared
    <2>9. Overtaken(a)'
      BY <1>e, <2>1, <2>3, <2>4 DEF Overtaken, Elsewhere
    <2>10. QED
      BY <2>5, <2>6, <2>7, <2>8, <2>9
  <1>9. CloserReleases'
    BY <1>e
    DEF RegInv, CloserReleases, Closer, Passed, Reader, Of, HoldPcs, LoopPcs, Shape, Elsewhere
  <1>10. SingleReleased'
    BY <1>e DEF RegInv, SingleReleased, Holder, HoldPcs, LoopPcs, Shape, Elsewhere
  <1>11. Detachable'
    BY <1>e DEF RegInv, Detachable, Reader, Shape, Elsewhere
  <1>12. NativeKept'
    BY <1>e, NativeStays DEF Elsewhere
  <1>13. QED
    BY <1>1, <1>2, <1>3, <1>4, <1>5, <1>6, <1>7, <1>8, <1>9, <1>10, <1>11, <1>12 DEF RegInv

-----------------------------------------------------------------------------
(* The invariant holds in every state.                                     *)

\* The WaitSet starts with no registration and no reader claimed.
LEMMA InitRegInv == Init => RegInv
  <1> SUFFICES ASSUME Init PROVE RegInv
    OBVIOUS
  <1>1. TypeOK
    <2>1. arg \in [Threads -> Readers]
      BY ReaderRegistrationAssumption DEF Init
    <2>2. \A t \in Threads : idx[t] = 1
      BY DEF Init
    <2>3. PlainTyped
      <3>1. created \in 0..MaxRegistrations /\ faults \in 0..MaxFaults
        BY ReaderRegistrationAssumption DEF Init
      <3>2. calls \in [Threads -> 0..MaxCalls]
        BY ReaderRegistrationAssumption DEF Init
      <3>3. QED
        BY <3>1, <3>2 DEF Init, PlainTyped
    <2>4. RegsTyped /\ ReadersTyped
      BY ReaderRegistrationAssumption DEF Init, RegsTyped, ReadersTyped
    <2>5. ThreadsTyped
      BY <2>1, ReaderRegistrationAssumption DEF Init, ThreadsTyped, Pcs
    <2>6. QED
      BY <2>2, <2>3, <2>4, <2>5 DEF TypeOK, PlainTyped, RegsTyped, ReadersTyped, ThreadsTyped
  <1>2. Shape
    BY DEF Init, Shape, WorkPcs, ClaimPcs, HoldPcs, LoopPcs, ClosePcs
  <1>3. Numbered /\ Claimed /\ Fresh /\ OneHolder
    BY DEF Init, Numbered, Claimed, Fresh, OneHolder, Regs, ClaimPcs, Unpublished, Holder,
           HoldPcs, LoopPcs
  <1>4. AddAhead /\ Closed /\ CloserReleases
    BY DEF Init, AddAhead, Adding, Closed, Apart, GivenUp, CloserReleases, Closer
  <1>5. SingleReleased /\ Detachable
    BY DEF Init, SingleReleased, Detachable, Holder, HoldPcs, LoopPcs
  <1>6. NativeKept
    BY DEF Init, NativeKept, NativeInv
  <1>7. QED
    BY <1>1, <1>2, <1>3, <1>4, <1>5, <1>6 DEF RegInv

\* Every step of every thread preserves the invariant.
LEMMA NextKeeps == RegInv /\ [Next]_vars => RegInv'
  <1> SUFFICES ASSUME RegInv, [Next]_vars PROVE RegInv'
    OBVIOUS
  <1>1. CASE UNCHANGED vars
    <2>1. UNCHANGED <<mutex, poisoned, listed, created, members, phase, condition, native>>
      BY <1>1 DEF vars, setVars, nativeVars
    <2>2. UNCHANGED <<callback, claiming, closing, owner, lifecycle, deleted>>
      BY <1>1 DEF vars, readerVars
    <2>3. UNCHANGED <<pc, op, reg, idx, arg, failed, calls, faults>>
      BY <1>1 DEF vars, callVars, boundVars
    <2>4. TypeOK'
      BY <2>1, <2>2, <2>3 DEF RegInv, TypeOK
    <2>5. Shape' /\ Numbered' /\ Claimed' /\ Fresh' /\ OneHolder'
      BY <2>1, <2>2, <2>3
      DEF RegInv, Shape, Numbered, Of, Claimed, Holds, Marks, Fresh, Unpublished, OneHolder,
          Holder
    <2>6. AddAhead'
      BY <2>1, <2>2, <2>3
      DEF RegInv, AddAhead, Adding, Alone, Untouched, Heading, Cleared, Overtaken, Detacher,
          Closer, Of
    <2>7. Closed' /\ CloserReleases'
      BY <2>1, <2>2, <2>3
      DEF RegInv, Closed, Apart, GivenUp, Destroying, CloserReleases, Passed, Closer, Of,
          Reader
    <2>8. SingleReleased' /\ Detachable' /\ NativeKept'
      BY <2>1, <2>2, <2>3
      DEF RegInv, SingleReleased, Holder, Detachable, Reader, NativeKept, NativeInv, Backed,
          Holds
    <2>9. QED
      BY <2>4, <2>5, <2>6, <2>7, <2>8 DEF RegInv
  <1>2. ASSUME NEW t \in Threads, Call(t) PROVE RegInv'
    BY <1>2, AddKeeps, RemoveKeeps, CloseKeeps DEF Call
  <1>3. ASSUME NEW t \in Threads, Step(t) PROVE RegInv'
    <2>1. CASE Claim(t) \/ Clear(t) \/ Attach(t) \/ Commit(t) \/ Insert(t) \/ AddUnlock(t)
      BY <2>1, ClaimKeeps, ClearKeeps, AttachKeeps, CommitKeeps, InsertKeeps, AddUnlockKeeps
    <2>2. CASE DetachCas(t) \/ Release(t) \/ RelNative(t) \/ RelClear(t) \/ RelDelete(t)
      BY <2>2, DetachCasKeeps, ReleaseKeeps, RelNativeKeeps, RelClearKeeps, RelDeleteKeeps
    <2>3. CASE RelFailed(t) \/ Poison(t) \/ Erase(t)
      BY <2>3, RelFailedKeeps, PoisonKeeps, EraseKeeps
    <2>4. CASE CloseWait(t) \/ CloseEnd(t) \/ CloseDelete(t)
      BY <2>4, CloseWaitKeeps, CloseEndKeeps, CloseDeleteKeeps
    <2>5. QED
      BY <1>3, <2>1, <2>2, <2>3, <2>4 DEF Step
  <1>4. QED
    BY <1>1, <1>2, <1>3 DEF Next

\* The inductive invariant is an invariant.
LEMMA RegInvAlways == Spec => []RegInv
  BY InitRegInv, NextKeeps, PTL DEF Spec

-----------------------------------------------------------------------------
(* What follows from it.                                                   *)

\* A reader that shares no endpoint is the only one of its registration, so that
\* erasing the registration has released it.
LEMMA NoClaimStays ==
  ASSUME RegInv
  PROVE  NoStaleClaim
  <1> SUFFICES ASSUME NEW r \in Readers
               PROVE  /\ claiming[r] => \E t \in Threads : pc[t] \in ClaimPcs
                      /\ \/ owner[r] = 0
                         \/ phase[owner[r]] # "Detached"
                         \/ ~ \A s \in Readers \ {r} : ~Together(r, s)
    BY DEF NoStaleClaim, ClaimPcs
  <1>1. claiming[r] => \E t \in Threads : pc[t] \in ClaimPcs
    BY DEF RegInv, Claimed, Marks
  <1>2. ASSUME owner[r] # 0, phase[owner[r]] = "Detached", \A s \in Readers \ {r} : ~Together(r, s)
        PROVE  FALSE
    <2>1. owner[r] \in Regs /\ owner[r] <= created /\ r \in Of(owner[r])
      BY <1>2 DEF RegInv, TypeOK, Numbered, Regs
    <2>2. members[owner[r]] \in Waitables
      BY <2>1 DEF RegInv, Numbered
    <2>3. PICK w \in Seq(Readers) : w = members[owner[r]] /\ w # << >>
      BY <2>2, ReaderRegistrationAssumption
    <2>4. \A i \in DOMAIN w : w[i] = r
      <3> SUFFICES ASSUME NEW i \in DOMAIN w, w[i] # r PROVE FALSE
        OBVIOUS
      <3>1. w[i] \in Readers \ {r} /\ w[i] \in Of(owner[r])
        BY <2>3 DEF Of
      <3>2. Together(r, w[i])
        BY <2>1, <3>1, OfTogether
      <3>3. QED
        BY <1>2, <3>1, <3>2
    <2>5. \A i, j \in DOMAIN w : i = j
      BY <2>2, <2>3, <2>4, ReaderRegistrationAssumption
    <2>6. Len(w) \in Nat \ {0} /\ DOMAIN w = 1..Len(w)
      BY <2>3
    <2>7. Len(w) = 1
      <3>1. 1 \in DOMAIN w /\ Len(w) \in DOMAIN w
        BY <2>6
      <3>2. QED
        BY <2>5, <3>1
    <2>8. w[1] = r
      BY <2>4, <2>6, <2>7
    <2>9. QED
      BY <1>2, <2>1, <2>3, <2>7, <2>8 DEF RegInv, SingleReleased
  <1>3. QED
    BY <1>1, <1>2

\* A DataReader is deleted only by the destructor that found its registration
\* released, or by the release that cleared it.
LEMMA NoneDangles ==
  ASSUME RegInv, "rollback" \notin Failing
  PROVE  NoDanglingCondition
  <1>1. \A r \in deleted : r \in Readers /\ owner[r] = 0 /\ lifecycle[r] # "Open" /\ ~claiming[r]
    BY DEF RegInv, TypeOK, Closed, GivenUp
  <1>2. ASSUME NEW n \in Regs, NEW r \in Readers, <<n, r>> \in native
        PROVE  r \notin deleted
    <2>1. Backed(n, r)
      BY <1>2 DEF RegInv, NativeKept, NativeInv
    <2>2. CASE owner[r] = n
      BY <1>1, <2>2 DEF Regs
    <2>3. CASE owner[r] # n
      <3>1. PICK t \in Threads : /\ reg[t] = n /\ pc[t] \in {"attach", "commit"}
                                /\ \E i \in DOMAIN members[n] : members[n][i] = r /\ Holds(t, i)
        BY <2>1, <2>3 DEF Backed
      <3>2. claiming[r]
        BY <3>1 DEF RegInv, Claimed, ClaimPcs
      <3>3. QED
        BY <1>1, <3>2
    <2>4. QED
      BY <2>2, <2>3
  <1>3. \A c \in native : c[2] \notin deleted
    BY <1>2 DEF RegInv, TypeOK, Pairs
  <1>4. ASSUME NEW t \in Threads, pc[t] = "rel_native"
        PROVE  Reader(t) \notin deleted
    <2>1. AtReader(t)
      BY <1>4, WorkTyped DEF WorkPcs, HoldPcs, LoopPcs
    <2>2. owner[Reader(t)] = reg[t] \/ lifecycle[Reader(t)] = "Open"
      BY <1>4 DEF RegInv, Detachable
    <2>3. QED
      BY <1>1, <2>1, <2>2 DEF AtReader, Regs
  <1>5. QED
    BY <1>3, <1>4 DEF NoDanglingCondition

\* Claims are taken and given back in pairs: whichever of a failed add(), remove()
\* and close() comes first, no claim_in_progress is left behind, no erased
\* registration owns a reader, and every loop over the readers of a registration
\* stays within its vector.
THEOREM ClaimsStayBalanced == Spec => []ClaimsBalanced
  <1>1. RegInv => ClaimsBalanced
    BY NoClaimStays DEF ClaimsBalanced, RegInv
  <1>2. QED
    BY <1>1, RegInvAlways, PTL

\* No DataReader is deleted while the native WaitSet holds its condition or a
\* thread in release() is about to detach it, as long as the native detaches that
\* claim() makes to roll a registration back, whose result it ignores, succeed.
THEOREM NothingDangles ==
  ASSUME "rollback" \notin Failing
  PROVE  Spec => []NoDanglingCondition
  <1>1. RegInv => NoDanglingCondition
    BY NoneDangles
  <1>2. QED
    BY <1>1, RegInvAlways, PTL
=============================================================================
