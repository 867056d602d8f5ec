------------------------------ MODULE PipeProofs ------------------------------
(***************************************************************************)
(* For every page size, set of processes and set of byte values: the       *)
(* counters of a pipe count its holders, and the ring with its wake-ups    *)
(* implements the first-in first-out channel of module ByteChannel.        *)
(***************************************************************************)
EXTENDS Pipe, Sequences, FiniteSetTheorems, TLAPS

(* An offset that wraps around is an offset. *)
LEMMA IncOffset == \A i \in Offsets : Inc(i) \in Offsets
BY PipeAssumption DEF Offsets, Inc

(* The operators of WaitQueue.tla keep the record well formed. *)
LEMMA WaitStateClosed ==
  ASSUME NEW w \in WaitState
  PROVE  /\ \A q \in Queues : WakeUp(w, q) \in WaitState
         /\ \A t \in Tasks : WakeBehind(w, t) \in WaitState
         /\ \A t \in Tasks, q \in Queues, how \in TaskStates :
              SleepOn(w, t, q, how) \in WaitState
<1>1. ASSUME NEW q \in Queues PROVE WakeUp(w, q) \in WaitState
  BY NoTaskAssumption DEF WakeUp, Awaken, WaitState, MaybeTask, TaskStates
<1>2. ASSUME NEW t \in Tasks PROVE WakeBehind(w, t) \in WaitState
  BY NoTaskAssumption DEF WakeBehind, Awaken, WaitState, MaybeTask, TaskStates
<1>3. ASSUME NEW t \in Tasks, NEW q \in Queues, NEW how \in TaskStates
      PROVE SleepOn(w, t, q, how) \in WaitState
  BY DEF SleepOn, WaitState, MaybeTask
<1>4. QED
  BY <1>1, <1>2, <1>3
-----------------------------------------------------------------------------
(* The part of the types that needs no counting. *)
TypeInv ==
  /\ wq \in WaitState
  /\ page \in [Offsets -> Bytes]
  /\ head \in Offsets /\ tail \in Offsets
  /\ i_count \in Int
  /\ f_count \in [Ends -> Int]
  /\ ends \in [Tasks -> SUBSET Ends]
  /\ pc \in [Tasks -> {"user", "read", "copy", "write"}]
  /\ left \in [Tasks -> 0 .. MaxCount]
  /\ run \in MaybeTask
  /\ out \in Bytes

(* The types hold at the start. *)
LEMMA TypeInvInit == Init => TypeInv
<1>1. AllAwake \in WaitState
  BY DEF AllAwake, WaitState, MaybeTask, TaskStates
<1>2. QED
  BY <1>1, PipeAssumption DEF Init, TypeInv, Offsets, Ends, MaybeTask

(* Every step of the readers, the writers and close keeps the types. *)
LEMMA TypeInvStep == TypeInv /\ [Next]_vars => TypeInv'
<1> SUFFICES ASSUME TypeInv, [Next]_vars
             PROVE  TypeInv'
  OBVIOUS
<1> USE WaitStateClosed, IncOffset, PipeAssumption
    DEF TypeInv, MaybeTask, ring, holders, Wake, Continue, Return
<1>1. ASSUME NEW t \in Tasks, NEW n \in 1 .. MaxCount, BeginRead(t, n)
      PROVE  TypeInv'
  BY <1>1 DEF BeginRead
<1>2. ASSUME NEW t \in Tasks, NEW n \in 1 .. MaxCount, BeginWrite(t, n)
      PROVE  TypeInv'
  <2>1. wq' \in WaitState
    BY <1>2 DEF BeginWrite
  <2>2. /\ pc' \in [Tasks -> {"user", "read", "copy", "write"}]
        /\ left' \in [Tasks -> 0 .. MaxCount]
        /\ run' \in MaybeTask
    <3>1. CASE i_count = 2
      <4>1. Continue(t, "write") /\ left' = [left EXCEPT ![t] = n]
        BY <1>2, <3>1 DEF BeginWrite
      <4>2. n \in 0 .. MaxCount
        OBVIOUS
      <4>3. QED
        BY <4>1, <4>2
    <3>2. CASE i_count # 2
      BY <1>2, <3>2 DEF BeginWrite
    <3>3. QED
      BY <3>1, <3>2
  <2>3. QED
    BY <1>2, <2>1, <2>2 DEF BeginWrite
<1>3. ASSUME NEW t \in Tasks, ReadEof(t) \/ ReadDone(t) \/ WriteBroken(t)
                              \/ WriteDone(t)
      PROVE  TypeInv'
  <2>1. Wake /\ Return(t) /\ UNCHANGED <<out, ring, holders>>
    BY <1>3 DEF ReadEof, ReadDone, WriteBroken, WriteDone
  <2>2. wq' \in WaitState
    BY <2>1
  <2>3. QED
    BY <2>1, <2>2
<1>4. ASSUME NEW t \in Tasks, ReadBlock(t) \/ WriteBlock(t)
      PROVE  TypeInv'
  <2>1. WakeUp(wq, i_wait) \in WaitState
    OBVIOUS
  <2>2. wq' \in WaitState
    BY <1>4, <2>1 DEF ReadBlock, WriteBlock, WakeAndSleep, TaskStates
  <2>3. QED
    BY <1>4, <2>2 DEF ReadBlock, WriteBlock, WakeAndSleep
<1>5. ASSUME NEW t \in Tasks, ReadByte(t)
      PROVE  TypeInv'
  BY <1>5 DEF ReadByte
<1>6. ASSUME NEW t \in Tasks, NEW b \in Bytes, WriteByte(t, b)
      PROVE  TypeInv'
  BY <1>6 DEF WriteByte
<1>7. ASSUME NEW t \in Tasks, Resume(t)
      PROVE  TypeInv'
  BY <1>7 DEF Resume
<1>8. ASSUME NEW t \in Tasks, NEW u \in Tasks, Fork(t, u)
      PROVE  TypeInv'
  BY <1>8 DEF Fork
<1>9. ASSUME NEW t \in Tasks, NEW e \in Ends, Close(t, e)
      PROVE  TypeInv'
  BY <1>9 DEF Close
<1>10. CASE UNCHANGED vars
  BY <1>10 DEF vars
<1>11. QED
  BY <1>1, <1>2, <1>3, <1>4, <1>5, <1>6, <1>7, <1>8, <1>9, <1>10
  DEF Next, KernelStep
-----------------------------------------------------------------------------
(* The two pure facts about the ring: one byte in, one byte out. *)

(* PIPE_SIZE is below the page size, and 0 just when the pipe is empty. *)
LEMMA SizeBounds ==
  ASSUME head \in Offsets, tail \in Offsets
  PROVE  /\ Size \in 0 .. PageSize - 1
         /\ Empty <=> Size = 0
BY PipeAssumption DEF Offsets, Size, Empty

(* What is between tail and head is a sequence of PIPE_SIZE bytes. *)
LEMMA ContentType ==
  TypeInv => Content \in Seq(Bytes) /\ Len(Content) = Size
<1> SUFFICES ASSUME TypeInv
             PROVE  Content \in Seq(Bytes) /\ Len(Content) = Size
  OBVIOUS
<1>1. Size \in 0 .. PageSize - 1
  BY SizeBounds DEF TypeInv
<1>2. ASSUME NEW i \in 1 .. Size PROVE Wrap(tail + i - 1) \in Offsets
  BY <1>1, PipeAssumption DEF TypeInv, Offsets, Size, Wrap
<1>3. Content \in [1 .. Size -> Bytes]
  BY <1>2 DEF Content, TypeInv
<1>4. Size \in Nat
  BY <1>1, PipeAssumption
<1>5. QED
  BY <1>3, <1>4

(* A byte stored at head is appended to the contents. *)
LEMMA PutByte ==
  ASSUME TypeInv, TypeInv', NEW b \in Bytes, ~ Full,
         page' = [page EXCEPT ![head] = b], head' = Inc(head), tail' = tail
  PROVE  /\ Content' = Append(Content, b)
         /\ Len(Content) < PageSize - 1
<1>1. Size \in 0 .. PageSize - 1 /\ Size # PageSize - 1 /\ Size' = Size + 1
  BY PipeAssumption DEF TypeInv, Offsets, Size, Full, Inc
<1>2. /\ Content \in Seq(Bytes) /\ Len(Content) = Size
      /\ Content' \in Seq(Bytes) /\ Len(Content') = Size'
  <2>1. (TypeInv => Content \in Seq(Bytes) /\ Len(Content) = Size)'
    BY ContentType, PTL
  <2>2. QED
    BY <2>1, ContentType
<1>3. ASSUME NEW i \in 1 .. Size PROVE Content'[i] = Content[i]
  <2>1. Wrap(tail + i - 1) \in Offsets /\ Wrap(tail + i - 1) # head
    BY <1>1, PipeAssumption DEF TypeInv, Offsets, Size, Wrap
  <2>2. Content[i] = page[Wrap(tail + i - 1)]
    BY DEF Content
  <2>3. i \in 1 .. Size'
    BY <1>1
  <2>4. Content'[i] = page'[Wrap(tail + i - 1)]
    BY <2>3 DEF Content, Wrap
  <2>5. QED
    BY <2>1, <2>2, <2>4 DEF TypeInv
<1>4. Content'[Size + 1] = b
  <2>1. Wrap(tail + Size) = head
    BY <1>1, PipeAssumption DEF TypeInv, Offsets, Size, Wrap
  <2>2. Size + 1 \in 1 .. Size' /\ tail + (Size + 1) - 1 = tail + Size
    BY <1>1, PipeAssumption DEF TypeInv, Offsets
  <2>3. Content'[Size + 1] = page'[Wrap(tail + Size)]
    BY <2>2 DEF Content, Wrap
  <2>4. QED
    BY <2>1, <2>3 DEF TypeInv
<1>5. Append(Content, b) \in Seq(Bytes) /\ Len(Append(Content, b)) = Size + 1
  BY <1>2
<1>6. ASSUME NEW i \in 1 .. Size + 1
      PROVE  Content'[i] = Append(Content, b)[i]
  <2>1. CASE i \in 1 .. Size
    BY <1>2, <1>3, <2>1
  <2>2. CASE i = Size + 1
    BY <1>2, <1>4, <2>2
  <2>3. i \in 1 .. Size \/ i = Size + 1
    BY <1>1, PipeAssumption
  <2>4. QED
    BY <2>1, <2>2, <2>3
<1>7. Content' = Append(Content, b)
  BY <1>1, <1>2, <1>5, <1>6
<1>8. QED
  BY <1>1, <1>2, <1>7, PipeAssumption

(* A byte fetched at tail is the first of the contents. *)
LEMMA GetByte ==
  ASSUME TypeInv, TypeInv', ~ Empty,
         page' = page, head' = head, tail' = Inc(tail)
  PROVE  /\ Content # <<>>
         /\ Head(Content) = page[tail]
         /\ Content' = Tail(Content)
<1>1. Size \in 1 .. PageSize - 1 /\ Size' = Size - 1
  BY PipeAssumption DEF TypeInv, Offsets, Size, Empty, Inc
<1>2. /\ Content \in Seq(Bytes) /\ Len(Content) = Size
      /\ Content' \in Seq(Bytes) /\ Len(Content') = Size'
  <2>1. (TypeInv => Content \in Seq(Bytes) /\ Len(Content) = Size)'
    BY ContentType, PTL
  <2>2. QED
    BY <2>1, ContentType
<1>3. Content # <<>>
  BY <1>1, <1>2, PipeAssumption
<1>4. Content[1] = page[tail]
  <2>1. 1 \in 1 .. Size /\ Wrap(tail + 1 - 1) = tail
    BY <1>1, PipeAssumption DEF TypeInv, Offsets, Wrap
  <2>2. QED
    BY <2>1 DEF Content
<1>5. ASSUME NEW i \in 1 .. Size' PROVE Content'[i] = Tail(Content)[i]
  <2>1. i + 1 \in 1 .. Size /\ i \in Int
    BY <1>1, PipeAssumption
  <2>2. (Wrap(tail + i - 1))' = Wrap(tail + (i + 1) - 1)
    BY <1>1, <2>1, PipeAssumption DEF TypeInv, Offsets, Wrap, Inc
  <2>3. Content'[i] = page[(Wrap(tail + i - 1))']
    BY DEF Content
  <2>4. Content[i + 1] = page[Wrap(tail + (i + 1) - 1)]
    BY <2>1 DEF Content
  <2>5. Tail(Content)[i] = Content[i + 1]
    BY <1>1, <1>2, <1>3, PipeAssumption
  <2>6. QED
    BY <2>2, <2>3, <2>4, <2>5
<1>6. Tail(Content) \in Seq(Bytes) /\ Len(Tail(Content)) = Size'
  BY <1>1, <1>2, <1>3, PipeAssumption
<1>7. Content' = Tail(Content)
  BY <1>2, <1>5, <1>6
<1>8. QED
  BY <1>3, <1>4, <1>7, <1>2
-----------------------------------------------------------------------------
(* The counters. *)

Holders(e) == {t \in Tasks : e \in ends[t]}
OpenEnds == {e \in Ends : f_count[e] > 0}

(* f_count is the size of a finite set, the holders of that end. *)
LEMMA HoldersCounted ==
  ASSUME TypeInv, EndsCounted, NEW e \in Ends
  PROVE  /\ IsFiniteSet(Holders(e)) /\ f_count[e] = Cardinality(Holders(e))
         /\ f_count[e] \in Nat
         /\ f_count[e] > 0 <=> Holders(e) # {}
<1>1. IsFiniteSet(Holders(e))
  BY PipeAssumption, FS_Subset DEF Holders
<1>2. f_count[e] = Cardinality(Holders(e))
  BY DEF EndsCounted, Holders
<1>3. QED
  BY <1>1, <1>2, FS_CardinalityType, FS_EmptySet

(* There are two ends, so a set of them has 0, 1 or 2 elements. *)
LEMMA EndsFinite ==
  /\ IsFiniteSet(Ends) /\ Cardinality(Ends) = 2
  /\ \A S \in SUBSET Ends : IsFiniteSet(S) /\ Cardinality(S) \in 0 .. 2
<1>1. IsFiniteSet({}) /\ Cardinality({}) = 0
  BY FS_EmptySet
<1>2. IsFiniteSet({"r"}) /\ Cardinality({"r"}) = 1
  BY FS_Singleton
<1>3. IsFiniteSet({"r"} \cup {"w"}) /\ Cardinality({"r"} \cup {"w"}) = 2
  BY <1>2, FS_AddElement
<1>4. Ends = {"r"} \cup {"w"}
  BY DEF Ends
<1>5. ASSUME NEW S \in SUBSET Ends
      PROVE  IsFiniteSet(S) /\ Cardinality(S) \in 0 .. 2
  <2>1. IsFiniteSet(S) /\ Cardinality(S) <= Cardinality(Ends)
    BY <1>3, <1>4, FS_Subset
  <2>2. QED
    BY <1>3, <1>4, <2>1, FS_CardinalityType
<1>6. QED
  BY <1>3, <1>4, <1>5

(* The counters are right when sys_pipe returns. *)
LEMMA EndsCountedInit == Init => EndsCounted
<1> SUFFICES ASSUME Init
             PROVE  EndsCounted
  OBVIOUS
<1>1. PICK t \in Tasks : ends = [u \in Tasks |-> IF u = t THEN Ends ELSE {}]
  BY DEF Init
<1>2. ASSUME NEW e \in Ends
      PROVE  f_count[e] = Cardinality(Holders(e))
  <2>1. Holders(e) = {t}
    BY <1>1 DEF Holders
  <2>2. QED
    BY <2>1, FS_Singleton DEF Init
<1>3. i_count = Cardinality(OpenEnds)
  <2>1. OpenEnds = Ends
    BY DEF Init, OpenEnds
  <2>2. QED
    BY <2>1, EndsFinite DEF Init
<1>4. QED
  BY <1>2, <1>3 DEF EndsCounted, Holders, OpenEnds

(* fork adds one holder to every end the parent holds, and counts it. *)
LEMMA EndsCountedFork ==
  ASSUME TypeInv, TypeInv', EndsCounted,
         NEW t \in Tasks, NEW u \in Tasks, Fork(t, u)
  PROVE  EndsCounted'
<1>1. ASSUME NEW e \in Ends
      PROVE  /\ f_count'[e] = Cardinality(Holders(e)')
             /\ f_count'[e] > 0 <=> f_count[e] > 0
  <2>1. CASE e \in ends[t]
    <3>1. t # u /\ u \notin Holders(e) /\ t \in Holders(e)
      BY <2>1 DEF Fork, Holders
    <3>2. Holders(e)' = Holders(e) \cup {u}
      BY <2>1, <3>1 DEF Fork, Holders, TypeInv
    <3>3. f_count'[e] = f_count[e] + 1
      BY <2>1 DEF Fork, TypeInv
    <3>4. /\ IsFiniteSet(Holders(e)) /\ f_count[e] = Cardinality(Holders(e))
          /\ f_count[e] \in Nat /\ f_count[e] > 0
      BY <3>1, HoldersCounted
    <3>5. Cardinality(Holders(e) \cup {u}) = Cardinality(Holders(e)) + 1
      BY <3>1, <3>4, FS_AddElement
    <3>6. QED
      BY <3>2, <3>3, <3>4, <3>5
  <2>2. CASE e \notin ends[t]
    <3>1. Holders(e)' = Holders(e)
      BY <2>2 DEF Fork, Holders, TypeInv
    <3>2. f_count'[e] = f_count[e]
      BY <2>2 DEF Fork, TypeInv
    <3>3. QED
      BY <3>1, <3>2, HoldersCounted
  <2>3. QED
    BY <2>1, <2>2
<1>2. OpenEnds' = OpenEnds /\ i_count' = i_count
  BY <1>1 DEF OpenEnds, Fork
<1>3. QED
  BY <1>1, <1>2 DEF EndsCounted, Holders, OpenEnds

(* close takes one holder away, and the inode's count with the last one. *)
LEMMA EndsCountedClose ==
  ASSUME TypeInv, TypeInv', EndsCounted,
         NEW t \in Tasks, NEW e \in Ends, Close(t, e)
  PROVE  EndsCounted'
<1>1. /\ f_count'[e] = f_count[e] - 1 /\ f_count[e] > 0
      /\ f_count'[e] = Cardinality(Holders(e)')
  <2>1. t \in Holders(e)
    BY DEF Close, Holders
  <2>2. Holders(e)' = Holders(e) \ {t}
    BY DEF Close, Holders, TypeInv
  <2>3. f_count'[e] = f_count[e] - 1
    <3>1. f_count \in [Ends -> Int]
      BY DEF TypeInv
    <3>2. f_count' = [f_count EXCEPT ![e] = @ - 1]
      BY DEF Close
    <3>3. QED
      BY <3>1, <3>2
  <2>4. /\ IsFiniteSet(Holders(e)) /\ f_count[e] = Cardinality(Holders(e))
        /\ f_count[e] > 0
    BY <2>1, HoldersCounted
  <2>5. Cardinality(Holders(e) \ {t}) = Cardinality(Holders(e)) - 1
    BY <2>1, <2>4, FS_RemoveElement
  <2>6. QED
    BY <2>2, <2>3, <2>4, <2>5
<1>2. ASSUME NEW d \in Ends \ {e}
      PROVE  f_count'[d] = f_count[d] /\ Holders(d)' = Holders(d)
  BY DEF Close, Holders, TypeInv
<1>3. i_count' = Cardinality(OpenEnds')
  <2>1. CASE f_count[e] = 1
    <3>1. e \in OpenEnds /\ OpenEnds' = OpenEnds \ {e}
      BY <1>1, <1>2, <2>1 DEF OpenEnds
    <3>2. i_count' = i_count - 1 /\ i_count = Cardinality(OpenEnds)
      BY <2>1 DEF Close, EndsCounted, OpenEnds
    <3>3. IsFiniteSet(OpenEnds)
      BY EndsFinite DEF OpenEnds
    <3>4. QED
      BY <3>1, <3>2, <3>3, FS_RemoveElement
  <2>2. CASE f_count[e] # 1
    <3>1. f_count'[e] > 0
      BY <1>1, <2>2 DEF TypeInv
    <3>2. OpenEnds' = OpenEnds
      BY <1>1, <1>2, <3>1 DEF OpenEnds
    <3>3. i_count' = i_count /\ i_count = Cardinality(OpenEnds)
      BY <2>2 DEF Close, EndsCounted, OpenEnds
    <3>4. QED
      BY <3>2, <3>3
  <2>3. QED
    BY <2>1, <2>2
<1>4. \A d \in Ends : f_count'[d] = Cardinality(Holders(d)')
  BY <1>1, <1>2 DEF EndsCounted, Holders
<1>5. QED
  BY <1>3, <1>4 DEF EndsCounted, Holders, OpenEnds
-----------------------------------------------------------------------------
(* The inductive invariant: types, who may be in a call, and the counters. *)
PipeInv == TypeInv /\ CallersHoldEnds /\ EndsCounted

(* Who is in read_pipe or write_pipe keeps the end it was called with. *)
LEMMA CallersStep == TypeInv /\ CallersHoldEnds /\ [Next]_vars => CallersHoldEnds'
<1> SUFFICES ASSUME TypeInv, CallersHoldEnds, [Next]_vars
             PROVE  CallersHoldEnds'
  OBVIOUS
<1> USE DEF TypeInv, CallersHoldEnds, holders, Continue, Return
<1>1. ASSUME NEW t \in Tasks, NEW n \in 1 .. MaxCount, BeginRead(t, n)
      PROVE  CallersHoldEnds'
  BY <1>1 DEF BeginRead
<1>2. ASSUME NEW t \in Tasks, NEW n \in 1 .. MaxCount, BeginWrite(t, n)
      PROVE  CallersHoldEnds'
  BY <1>2 DEF BeginWrite
<1>3. ASSUME NEW t \in Tasks, KernelStep(t) \/ Resume(t)
      PROVE  CallersHoldEnds'
  BY <1>3 DEF KernelStep, ReadEof, ReadBlock, ReadByte, ReadDone, WriteByte,
              WriteBlock, WriteBroken, WriteDone, WakeAndSleep, Resume, InLoop
<1>4. ASSUME NEW t \in Tasks, NEW u \in Tasks, Fork(t, u)
      PROVE  CallersHoldEnds'
  BY <1>4 DEF Fork, InUser
<1>5. ASSUME NEW t \in Tasks, NEW e \in Ends, Close(t, e)
      PROVE  CallersHoldEnds'
  BY <1>5 DEF Close, InUser
<1>6. CASE UNCHANGED vars
  BY <1>6 DEF vars
<1>7. QED
  BY <1>1, <1>2, <1>3, <1>4, <1>5, <1>6 DEF Next

(* Every other step leaves the holders and the counters. *)
LEMMA EndsCountedStep ==
  TypeInv /\ TypeInv' /\ EndsCounted /\ [Next]_vars => EndsCounted'
<1> SUFFICES ASSUME TypeInv, TypeInv', EndsCounted, [Next]_vars
             PROVE  EndsCounted'
  OBVIOUS
<1>1. ASSUME UNCHANGED holders
      PROVE  EndsCounted'
  BY <1>1 DEF holders, EndsCounted
<1>2. ASSUME NEW t \in Tasks, NEW n \in 1 .. MaxCount,
             BeginRead(t, n) \/ BeginWrite(t, n)
      PROVE  UNCHANGED holders
  BY <1>2 DEF BeginRead, BeginWrite
<1>3. ASSUME NEW t \in Tasks, KernelStep(t) \/ Resume(t)
      PROVE  UNCHANGED holders
  BY <1>3 DEF KernelStep, ReadEof, ReadBlock, ReadByte, ReadDone, WriteByte,
              WriteBlock, WriteBroken, WriteDone, Resume
<1>4. CASE UNCHANGED vars
  BY <1>1, <1>4 DEF vars, holders
<1>5. QED
  BY <1>1, <1>2, <1>3, <1>4, EndsCountedFork, EndsCountedClose DEF Next

(* The inductive invariant holds in every state. *)
LEMMA PipeInvariant == Spec => []PipeInv
<1>1. Init => PipeInv
  BY TypeInvInit, EndsCountedInit DEF Init, PipeInv, CallersHoldEnds
<1>2. PipeInv /\ [Next]_vars => PipeInv'
  BY TypeInvStep, CallersStep, EndsCountedStep DEF PipeInv
<1>3. QED
  BY <1>1, <1>2, PTL DEF Spec

(* Every component of the pipe keeps its type; that i_count never leaves   *)
(* 0..2 and no f_count drops below zero follows from the counting.         *)
THEOREM TypeCorrect == Spec => []TypeOK
<1>1. PipeInv => TypeOK
  <2> SUFFICES ASSUME PipeInv
               PROVE  TypeOK
    OBVIOUS
  <2>1. ASSUME NEW e \in Ends
        PROVE  f_count[e] \in Nat
    BY HoldersCounted DEF PipeInv
  <2>2. f_count \in [Ends -> Nat]
    BY <2>1 DEF PipeInv, TypeInv
  <2>3. i_count \in 0 .. 2
    BY EndsFinite DEF PipeInv, EndsCounted
  <2>4. QED
    BY <2>2, <2>3 DEF PipeInv, TypeInv, TypeOK
<1>2. QED
  BY <1>1, PipeInvariant, PTL

(* f_count and i_count count the holders of the two ends of the pipe,      *)
(* however many processes inherit and close them.                          *)
THEOREM CountersCorrect == Spec => []EndsCounted
<1>1. PipeInv => EndsCounted
  BY DEF PipeInv
<1>2. QED
  BY <1>1, PipeInvariant, PTL

(* Both ends are open exactly when each has a holder. *)
LEMMA BothOpen ==
  ASSUME PipeInv, i_count # 2, NEW e \in Ends, Holders(e) # {}
  PROVE  \A d \in Ends \ {e} : Holders(d) = {}
<1> SUFFICES ASSUME NEW d \in Ends \ {e}, Holders(d) # {}
             PROVE  FALSE
  OBVIOUS
<1>1. {e, d} = Ends
  BY DEF Ends
<1>2. e \in OpenEnds /\ d \in OpenEnds
  BY HoldersCounted DEF PipeInv, OpenEnds
<1>3. OpenEnds = Ends
  BY <1>1, <1>2 DEF OpenEnds
<1>4. QED
  BY <1>3, EndsFinite DEF PipeInv, EndsCounted, OpenEnds

(* read_pipe ends a read without data only at ReadEof, and there i_count   *)
(* tells that the write end has no holder left: a reader never takes an    *)
(* empty pipe whose writer is late for a finished one.                     *)
THEOREM EofIsTrue == Spec => EofMeansDrained
<1>1. ASSUME PipeInv, [Next]_vars, NEW t \in Tasks,
             pc[t] = "read", pc'[t] = "user"
      PROVE  Empty /\ \A u \in Tasks : "w" \notin ends[u]
  <2>1. ReadEof(t)
    <3> USE <1>1 DEF PipeInv, TypeInv, Continue, Return, InLoop, InUser
    <3>1. ASSUME NEW u \in Tasks, NEW n \in 1 .. MaxCount,
                 BeginRead(u, n) \/ BeginWrite(u, n)
          PROVE  FALSE
      BY <3>1 DEF BeginRead, BeginWrite
    <3>2. ASSUME NEW u \in Tasks,
                 \/ ReadBlock(u) \/ ReadByte(u) \/ ReadDone(u)
                 \/ WriteBlock(u) \/ WriteBroken(u) \/ WriteDone(u)
                 \/ \E b \in Bytes : WriteByte(u, b)
          PROVE  FALSE
      BY <3>2 DEF ReadBlock, ReadByte, ReadDone, WriteBlock, WriteBroken,
                  WriteDone, WriteByte, WakeAndSleep
    <3>3. ASSUME NEW u \in Tasks,
                 \/ Resume(u) \/ \E v \in Tasks : Fork(u, v)
                 \/ \E e \in Ends : Close(u, e)
          PROVE  FALSE
      BY <3>3 DEF Resume, Fork, Close
    <3>4. ASSUME NEW u \in Tasks, ReadEof(u)
          PROVE  u = t
      BY <3>4 DEF ReadEof
    <3>5. CASE UNCHANGED vars
      BY <3>5 DEF vars
    <3>6. QED
      BY <3>1, <3>2, <3>3, <3>4, <3>5 DEF Next, KernelStep
  <2>2. Empty /\ i_count # 2 /\ t \in Holders("r")
    BY <1>1, <2>1 DEF ReadEof, PipeInv, CallersHoldEnds, Holders
  <2>3. Holders("w") = {}
    BY <1>1, <2>2, BothOpen DEF Ends
  <2>4. QED
    BY <2>2, <2>3 DEF Holders
<1>2. PipeInv /\ [Next]_vars =>
        [\A t \in Tasks : pc[t] = "read" /\ pc'[t] = "user" =>
           Empty /\ \A u \in Tasks : "w" \notin ends[u]]_vars
  BY <1>1
<1>3. QED
  BY <1>2, PipeInvariant, PTL DEF Spec, EofMeansDrained
-----------------------------------------------------------------------------
(* What makes NoLostWakeup inductive: every sleep_on of a pipe comes just  *)
(* after a wake_up of the same queue, so that the queue never holds more   *)
(* than one task and no task ever waits behind another.                    *)
QueueInv ==
  /\ \A t \in Tasks :
       /\ wq.tmp[t] = NoTask
       /\ Asleep(wq, t) => wq.head[i_wait] = t /\ pc[t] # "user" /\ run # t
  /\ run # NoTask => pc[run] # "user"

(* Waking the queue leaves nobody asleep. *)
LEMMA WakeEmpties ==
  ASSUME TypeInv, QueueInv, NEW w, w = WakeUp(wq, i_wait)
  PROVE  /\ w \in WaitState /\ w.head[i_wait] = NoTask
         /\ \A t \in Tasks : ~ Asleep(w, t) /\ w.tmp[t] = NoTask
<1> DEFINE h == wq.head[i_wait]
           v == Awaken(wq, h)
<1>1. wq \in WaitState /\ i_wait \in Queues /\ h \in MaybeTask
  BY PipeAssumption DEF TypeInv, WaitState
<1>2. /\ v \in WaitState /\ v.tmp = wq.tmp
      /\ \A t \in Tasks : t = h \/ ~ Asleep(wq, t) => ~ Asleep(v, t)
  BY <1>1, NoTaskAssumption DEF Awaken, Asleep, WaitState, MaybeTask, TaskStates
<1>3. w = [v EXCEPT !.head[i_wait] = NoTask]
  BY DEF WakeUp
<1>4. /\ w \in WaitState /\ w.head[i_wait] = NoTask
      /\ w.tmp = v.tmp /\ w.state = v.state
  BY <1>1, <1>2, <1>3 DEF WaitState, MaybeTask
<1>5. ASSUME NEW t \in Tasks  PROVE  ~ Asleep(w, t) /\ w.tmp[t] = NoTask
  BY <1>2, <1>4 DEF QueueInv, Asleep
<1>6. QED
  BY <1>4, <1>5

(* No step loses a wake-up: a task that falls asleep has just found the *)
(* pipe empty or full, and whoever changes that wakes the queue.        *)
LEMMA WakeupStep ==
  TypeInv /\ QueueInv /\ NoLostWakeup /\ [Next]_vars => QueueInv' /\ NoLostWakeup'
<1> SUFFICES ASSUME TypeInv, QueueInv, NoLostWakeup, [Next]_vars
             PROVE  QueueInv' /\ NoLostWakeup'
  OBVIOUS
<1> USE NoTaskAssumption, PipeAssumption DEF TypeInv, QueueInv, NoLostWakeup
<1> DEFINE w == WakeUp(wq, i_wait)
<1>w. /\ w \in WaitState /\ w.head[i_wait] = NoTask
      /\ \A t \in Tasks : ~ Asleep(w, t) /\ w.tmp[t] = NoTask
  BY WakeEmpties
<1> HIDE DEF w
<1>1. ASSUME NEW t \in Tasks, NEW n \in 1 .. MaxCount, BeginRead(t, n)
      PROVE  QueueInv' /\ NoLostWakeup'
  BY <1>1 DEF BeginRead, InUser, Continue
<1>2. ASSUME NEW t \in Tasks, NEW n \in 1 .. MaxCount, BeginWrite(t, n)
      PROVE  QueueInv' /\ NoLostWakeup'
  <2>1. wq' = w /\ (run' # NoTask => run' = t /\ pc'[t] # "user")
    BY <1>2 DEF BeginWrite, Wake, w, Continue, InUser
  <2>2. QED
    BY <2>1, <1>w
<1>3. ASSUME NEW t \in Tasks, ReadEof(t) \/ ReadDone(t) \/ WriteBroken(t)
                              \/ WriteDone(t)
      PROVE  QueueInv' /\ NoLostWakeup'
  <2>1. wq' = w /\ run' = NoTask
    BY <1>3 DEF ReadEof, ReadDone, WriteBroken, WriteDone, Wake, w, Return
  <2>2. QED
    BY <2>1, <1>w
<1>4. ASSUME NEW t \in Tasks, ReadBlock(t) \/ WriteBlock(t)
      PROVE  QueueInv' /\ NoLostWakeup'
  <2>1. /\ wq' = SleepOn(w, t, i_wait, "UNINTERRUPTIBLE")
        /\ run' = NoTask /\ UNCHANGED <<pc, ring, i_count>>
        /\ i_count = 2
        /\ (pc[t] = "read" /\ Empty) \/ (pc[t] = "write" /\ Full)
    BY <1>4 DEF ReadBlock, WriteBlock, WakeAndSleep, w, InLoop, holders
  <2>2. /\ wq'.head[i_wait] = t
        /\ \A u \in Tasks : wq'.tmp[u] = NoTask /\ (Asleep(wq', u) => u = t)
    BY <2>1, <1>w DEF SleepOn, WaitState, Asleep
  <2>3. QED
    BY <2>1, <2>2 DEF Empty, Full, Size, ring
<1>5. ASSUME NEW t \in Tasks, ReadByte(t)
      PROVE  QueueInv' /\ NoLostWakeup'
  BY <1>5 DEF ReadByte, InLoop, Continue
<1>6. ASSUME NEW t \in Tasks, NEW b \in Bytes, WriteByte(t, b)
      PROVE  QueueInv' /\ NoLostWakeup'
  <2>1. wq' = w /\ run' = t /\ pc'[t] # "user"
    BY <1>6 DEF WriteByte, Wake, w, Continue
  <2>2. QED
    BY <2>1, <1>w
<1>7. ASSUME NEW t \in Tasks, Resume(t)
      PROVE  QueueInv' /\ NoLostWakeup'
  <2>1. /\ wq'.state = wq.state /\ wq'.head = wq.head
        /\ \A u \in Tasks : wq'.tmp[u] = NoTask
        /\ run' = t /\ pc' = pc /\ pc[t] # "user" /\ ~ Asleep(wq, t)
    BY <1>7 DEF Resume, WakeBehind, Awaken, WaitState
  <2>2. \A u \in Tasks : Asleep(wq', u) <=> Asleep(wq, u)
    BY <2>1 DEF Asleep
  <2>3. QED
    BY <2>1, <2>2
<1>8. ASSUME NEW t \in Tasks, NEW u \in Tasks, Fork(t, u)
      PROVE  QueueInv' /\ NoLostWakeup'
  BY <1>8 DEF Fork, ring, Empty, Full, Size
<1>9. ASSUME NEW t \in Tasks, NEW e \in Ends, Close(t, e)
      PROVE  QueueInv' /\ NoLostWakeup'
  <2>1. CASE f_count[e] = 1
    <3>1. wq' = w /\ run' = NoTask
      BY <1>9, <2>1 DEF Close, Wake, w, InUser
    <3>2. QED
      BY <3>1, <1>w
  <2>2. CASE f_count[e] # 1
    BY <1>9, <2>2 DEF Close, ring, Empty, Full, Size
  <2>3. QED
    BY <2>1, <2>2
<1>10. CASE UNCHANGED vars
  BY <1>10 DEF vars, Empty, Full, Size
<1>11. QED
  BY <1>1, <1>2, <1>3, <1>4, <1>5, <1>6, <1>7, <1>8, <1>9, <1>10
  DEF Next, KernelStep

(* No wake-up of a pipe is lost, for any number of readers and writers:    *)
(* when everybody inside read_pipe and write_pipe sleeps, readers do so on *)
(* an empty pipe, writers on a full one, and both ends are open.           *)
THEOREM WakeupsKept == Spec => []NoLostWakeup
<1>1. Init => QueueInv /\ NoLostWakeup
  BY DEF Init, QueueInv, NoLostWakeup, AllAwake, Asleep
<1>2. PipeInv => TypeInv
  BY DEF PipeInv
<1>3. QED
  BY <1>1, <1>2, WakeupStep, PipeInvariant, PTL DEF Spec
-----------------------------------------------------------------------------
(* The ring buffer of fs/pipe.c implements the abstract channel: every     *)
(* byte comes out once and in order, whatever the interleaving.            *)
THEOREM RingIsChannel == Spec => PipeIsChannel
<1> DEFINE R == {t \in Tasks : "r" \in ends[t]}
           W == {t \in Tasks : "w" \in ends[t]}
<1>1. Init /\ TypeInv => Channel!ChannelInit
  <2> SUFFICES ASSUME Init, TypeInv
               PROVE  Channel!ChannelInit
    OBVIOUS
  <2>1. Content = <<>>
    <3>1. Len(Content) = 0 /\ Content \in Seq(Bytes)
      BY ContentType DEF Init, Size
    <3>2. QED
      BY <3>1
  <2>2. PICK t \in Tasks : ends = [u \in Tasks |-> IF u = t THEN Ends ELSE {}]
    BY DEF Init
  <2>3. R = {t} /\ W = {t}
    BY <2>2 DEF Ends
  <2>4. QED
    BY <2>1, <2>3, PipeAssumption DEF Init, Channel!ChannelInit
<1>2. PipeInv /\ PipeInv' /\ [Next]_vars => [Channel!ChannelNext]_(Channel!cvars)
  <2> SUFFICES ASSUME PipeInv, PipeInv', [Next]_vars
               PROVE  [Channel!ChannelNext]_(Channel!cvars)
    OBVIOUS
  <2> USE DEF PipeInv
  <2>1. ASSUME UNCHANGED <<ring, holders, out>>
        PROVE  UNCHANGED Channel!cvars
    BY <2>1 DEF ring, holders, Channel!cvars, Content, Size, Wrap
  <2>2. ASSUME NEW t \in Tasks, ReadByte(t)
        PROVE  Channel!Receive
    <3>1. t \in R
      <4>1. pc[t] \in {"read", "copy"}
        BY <2>2 DEF ReadByte, InLoop
      <4>2. "r" \in ends[t]
        BY <4>1 DEF CallersHoldEnds
      <4>3. QED
        BY <4>2
    <3>2. /\ Content # <<>> /\ Head(Content) = page[tail]
          /\ Content' = Tail(Content)
      BY <2>2, GetByte DEF ReadByte
    <3>3. out' = page[tail] /\ R' = R /\ W' = W
      BY <2>2 DEF ReadByte, holders
    <3>4. QED
      BY <3>1, <3>2, <3>3 DEF Channel!Receive
  <2>3. ASSUME NEW t \in Tasks, NEW b \in Bytes, WriteByte(t, b)
        PROVE  Channel!Send
    <3>1. t \in W
      <4>1. pc[t] = "write"
        BY <2>3 DEF WriteByte, InLoop
      <4>2. "w" \in ends[t]
        BY <4>1 DEF CallersHoldEnds
      <4>3. QED
        BY <4>2
    <3>2. Content' = Append(Content, b) /\ Len(Content) < PageSize - 1
      BY <2>3, PutByte DEF WriteByte
    <3>3. out' = out /\ R' = R /\ W' = W
      BY <2>3 DEF WriteByte, holders
    <3>4. QED
      BY <3>1, <3>2, <3>3 DEF Channel!Send
  <2>4. ASSUME NEW t \in Tasks, NEW u \in Tasks, Fork(t, u)
        PROVE  Channel!ShareEnds
    <3>1. UNCHANGED <<Content, out>>
      BY <2>4 DEF Fork, ring, Content, Size, Wrap
    <3>2. R = {} => R' = {}
      BY <2>4 DEF Fork, TypeInv
    <3>3. W = {} => W' = {}
      BY <2>4 DEF Fork, TypeInv
    <3>4. R' \in SUBSET Tasks /\ W' \in SUBSET Tasks
      OBVIOUS
    <3>5. QED
      BY <3>1, <3>2, <3>3, <3>4 DEF Channel!ShareEnds
  <2>5. ASSUME NEW t \in Tasks, NEW e \in Ends, Close(t, e)
        PROVE  Channel!ShareEnds
    <3>1. UNCHANGED <<Content, out>>
      BY <2>5 DEF Close, ring, Content, Size, Wrap
    <3>2. R = {} => R' = {}
      BY <2>5 DEF Close, TypeInv
    <3>3. W = {} => W' = {}
      BY <2>5 DEF Close, TypeInv
    <3>4. R' \in SUBSET Tasks /\ W' \in SUBSET Tasks
      OBVIOUS
    <3>5. QED
      BY <3>1, <3>2, <3>3, <3>4 DEF Channel!ShareEnds
  <2>6. ASSUME NEW t \in Tasks, NEW n \in 1 .. MaxCount,
               BeginRead(t, n) \/ BeginWrite(t, n)
        PROVE  UNCHANGED <<ring, holders, out>>
    BY <2>6 DEF BeginRead, BeginWrite
  <2>7. ASSUME NEW t \in Tasks,
               \/ ReadEof(t) \/ ReadBlock(t) \/ ReadDone(t) \/ WriteBlock(t)
               \/ WriteBroken(t) \/ WriteDone(t) \/ Resume(t)
        PROVE  UNCHANGED <<ring, holders, out>>
    BY <2>7 DEF ReadEof, ReadBlock, ReadDone, WriteBlock, WriteBroken,
                WriteDone, Resume
  <2>8. CASE UNCHANGED vars
    BY <2>1, <2>8 DEF vars, ring, holders
  <2>9. QED
    BY <2>1, <2>2, <2>3, <2>4, <2>5, <2>6, <2>7, <2>8
    DEF Next, KernelStep, Channel!ChannelNext
<1>3. QED
  BY <1>1, <1>2, PipeInvariant, PTL DEF Spec, PipeIsChannel, Channel!ChannelSpec,
     PipeInv
=============================================================================
