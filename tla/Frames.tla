------------------------------- MODULE Frames -------------------------------
(***************************************************************************)
(* Who owns the buffers of a DataFrame (frame/dataframe.ts, frame/owned.ts,*)
(* freeColumn of memory/column.ts).                                        *)
(*                                                                         *)
(* A frame lists, per entry, the OwnedColumn of the column it shows.  A    *)
(* column whose data did not change is shared: select, drop, withColumn    *)
(* and slices retain its owner.  dispose() releases one reference per      *)
(* entry, and the last release frees the buffers.                          *)
(*                                                                         *)
(* JS runs an operation to its end, but it may throw between two entries;  *)
(* an operation is therefore one step per entry.  A column stands for its  *)
(* data, validity and dictionary buffers, which freeColumn frees together: *)
(* every operation that makes a column makes all of them afresh.           *)
(***************************************************************************)
EXTENDS Integers, Sequences, FiniteSets

CONSTANTS
  MaxFrames,    \* bound: frames ever made
  MaxColumns,   \* bound: columns ever made
  MaxWidth,     \* bound: entries of a frame
  MaxThrows,    \* bound: operations that throw
  Throwing      \* the operations whose arguments may be wrong

ASSUME FramesAssumption ==
  /\ MaxFrames \in Nat /\ MaxColumns \in Nat /\ MaxThrows \in Nat
  /\ MaxWidth \in Nat \ {0}
  /\ Throwing \subseteq {"select", "fromColumns"}

FrameIds == 1 .. MaxFrames
Columns == 1 .. MaxColumns

VARIABLES
  frames,   \* what each frame is: [state, entries]
  refs,     \* the references each column's owner counts
  buffers,  \* the state of each column's buffers: none, live or freed
  made,     \* how many columns have been made
  throws,   \* how many operations have thrown
  task,     \* the running operation: [op, todo, done]
  scope     \* the running scope(): [state, tracked]

vars == <<frames, refs, buffers, made, throws, task, scope>>

Idle == [op |-> "idle", todo |-> << >>, done |-> << >>, frame |-> 0]
NoScope == [state |-> "none", tracked |-> << >>]

Init ==
  /\ frames = [f \in FrameIds |-> [state |-> "none", entries |-> << >>]]
  /\ refs = [o \in Columns |-> 0]
  /\ buffers = [o \in Columns |-> "none"]
  /\ made = 0 /\ throws = 0
  /\ task = Idle
  /\ scope = NoScope

Open(f) == frames[f].state = "open"
OpenFrames == {f \in FrameIds : Open(f)}
NewFrame == CHOOSE f \in FrameIds : frames[f].state = "none"

-----------------------------------------------------------------------------
(* What an operation does for one entry of its result.                     *)

Retain(o) == [kind |-> "retain", col |-> o]
Create    == [kind |-> "create", col |-> 0]
Throw     == [kind |-> "throw", col |-> 0]

Creates(todo) == Cardinality({i \in DOMAIN todo : todo[i] = Create})

\* No operation runs, nor the finally clause of scope.
Ready == task.op = "idle" /\ scope.state # "ending"

Plan(op, todo) ==
  /\ Ready
  /\ \E f \in FrameIds : frames[f].state = "none"
  /\ made + Creates(todo) <= MaxColumns
  /\ task' = [op |-> op, todo |-> todo, done |-> << >>, frame |-> NewFrame]
  /\ UNCHANGED <<frames, refs, buffers, made, scope, throws>>

Repeat(n, item) == [i \in 1 .. n |-> item]
Retained(entries) == [i \in 1 .. Len(entries) |-> Retain(entries[i])]

\* fromColumns, fromRecords, describe; filter, filterFn, sortValues, groupby
\* and join make every column of their result.  fromColumns throws at a column
\* of another length.
FromColumns(n) ==
  \/ Plan("make", Repeat(n, Create))
  \/ "fromColumns" \in Throwing /\ throws < MaxThrows /\ Plan("make", Repeat(n, Create) \o <<Throw>>)

\* select: the named entries, in the order named; a name may be unknown.
Select(f, names) ==
  /\ Open(f) /\ \A i \in 1 .. Len(names) : names[i] \in 1 .. Len(frames[f].entries)
  /\ LET chosen == Retained([i \in 1 .. Len(names) |-> frames[f].entries[names[i]]]) IN
     \/ Plan("make", chosen)
     \/ "select" \in Throwing /\ throws < MaxThrows /\ Plan("make", chosen \o <<Throw>>)

\* Mutant: a slice shares its parent's owners without a reference of its own.
SliceBorrowed(f) ==
  /\ Open(f) /\ Ready
  /\ \E g \in FrameIds : frames[g].state = "none"
  /\ task' = [op |-> "make", todo |-> << >>, done |-> frames[f].entries, frame |-> NewFrame]
  /\ UNCHANGED <<frames, refs, buffers, made, scope, throws>>

\* slice, head and tail.
Slice(f) == Open(f) /\ Plan("make", Retained(frames[f].entries))

\* withColumn: the new column is made first, then the entries it does not
\* replace are retained (it replaces entry `at`, or none when the name is new).
\* The position of an entry in its frame is not kept.
WithColumn(f, at) ==
  /\ Open(f)
  /\ LET old == frames[f].entries
         kept == SubSeq(old, 1, at - 1) \o SubSeq(old, at + 1, Len(old)) IN
     /\ Len(kept) < MaxWidth
     /\ Plan("make", <<Create>> \o Retained(kept))

RetainEntry ==
  /\ task.op = "make" /\ task.todo # << >> /\ Head(task.todo).kind = "retain"
  /\ LET o == Head(task.todo).col IN
     /\ refs' = [refs EXCEPT ![o] = @ + 1]
     /\ task' = [task EXCEPT !.todo = Tail(@), !.done = Append(@, o)]
  /\ UNCHANGED <<frames, buffers, made, scope, throws>>

CreateEntry ==
  /\ task.op = "make" /\ task.todo # << >> /\ Head(task.todo) = Create
  /\ made' = made + 1
  /\ buffers' = [buffers EXCEPT ![made + 1] = "live"]
  /\ task' = [task EXCEPT !.todo = Tail(@), !.done = Append(@, made + 1)]
  /\ UNCHANGED <<frames, refs, scope, throws>>

\* The exception leaves what the operation has retained or created.
ThrowOut ==
  /\ task.op = "make" /\ task.todo # << >> /\ Head(task.todo) = Throw
  /\ task' = Idle
  /\ throws' = throws + 1
  /\ UNCHANGED <<frames, refs, buffers, made, scope>>

\* Mutant: owners of new columns start without a reference.
FirstRefsNone(done) == refs

\* The OwnedColumn of a column just made counts one reference.
FirstRefs(done) ==
  [o \in Columns |->
    IF refs[o] = 0 /\ \E i \in 1 .. Len(done) : done[i] = o THEN 1 ELSE refs[o]]

Construct ==
  /\ task.op = "make" /\ task.todo = << >>
  /\ frames' = [frames EXCEPT ![task.frame] = [state |-> "open", entries |-> task.done]]
  /\ refs' = FirstRefs(task.done)
  /\ task' = Idle
  /\ UNCHANGED <<buffers, made, scope, throws>>

-----------------------------------------------------------------------------
(* dispose.                                                                *)

\* Mutant: a second dispose releases again.
ReleasedByAlways(f) == frames[f].entries

\* A frame releases its entries once.
ReleasedBy(f) == IF Open(f) THEN frames[f].entries ELSE << >>

Releasing(todo) == IF todo = << >> THEN Idle ELSE [Idle EXCEPT !.op = "dispose", !.todo = todo]

Disposes(f) ==
  /\ frames' = [frames EXCEPT ![f].state = "disposed"]
  /\ task' = Releasing(ReleasedBy(f))
  /\ UNCHANGED <<refs, buffers, made, throws>>

Dispose(f) == Ready /\ frames[f].state # "none" /\ Disposes(f) /\ UNCHANGED scope

\* Mutant: the last release does not free.
FreedNever(o) == buffers
Freed(o) == IF refs[o] = 1 THEN [buffers EXCEPT ![o] = "freed"] ELSE buffers

Release ==
  /\ task.op = "dispose" /\ task.todo # << >>
  /\ LET o == Head(task.todo) IN
     IF refs[o] <= 0 THEN UNCHANGED <<refs, buffers>>
     ELSE /\ refs' = [refs EXCEPT ![o] = @ - 1]
          /\ buffers' = Freed(o)
  /\ task' = Releasing(Tail(task.todo))
  /\ UNCHANGED <<frames, made, scope, throws>>

-----------------------------------------------------------------------------
(* scope(fn): fn may hand frames to track, and may dispose them itself; the*)
(* finally clause disposes the tracked ones when fn returns or throws.     *)

ScopeStart ==
  /\ Ready /\ scope.state = "none"
  /\ scope' = [state |-> "open", tracked |-> << >>]
  /\ UNCHANGED <<frames, refs, buffers, made, task, throws>>

Track(f) ==
  /\ Ready /\ scope.state = "open" /\ frames[f].state # "none"
  /\ \A i \in 1 .. Len(scope.tracked) : scope.tracked[i] # f
  /\ scope' = [scope EXCEPT !.tracked = Append(@, f)]
  /\ UNCHANGED <<frames, refs, buffers, made, task, throws>>

ScopeFinally ==
  /\ Ready /\ scope.state = "open"
  /\ scope' = [scope EXCEPT !.state = "ending"]
  /\ UNCHANGED <<frames, refs, buffers, made, task, throws>>

DisposeTracked ==
  /\ scope.state = "ending" /\ task.op = "idle"
  /\ IF scope.tracked = << >>
     THEN scope' = NoScope /\ UNCHANGED <<frames, refs, buffers, made, task, throws>>
     ELSE /\ scope' = [scope EXCEPT !.tracked = Tail(@)]
          /\ Disposes(Head(scope.tracked))

-----------------------------------------------------------------------------
Names == UNION {[1 .. n -> 1 .. MaxWidth] : n \in 1 .. MaxWidth}

Next ==
  \/ RetainEntry \/ CreateEntry \/ ThrowOut \/ Construct \/ Release
  \/ ScopeStart \/ ScopeFinally \/ DisposeTracked
  \/ \E n \in 1 .. MaxWidth : FromColumns(n)
  \/ \E f \in FrameIds :
       \/ Slice(f) \/ Dispose(f) \/ Track(f)
       \/ \E names \in Names : Select(f, names)
       \/ \E at \in 1 .. Len(frames[f].entries) + 1 : WithColumn(f, at)

Spec == Init /\ [][Next]_vars

-----------------------------------------------------------------------------
(* Properties.                                                             *)

Items == [kind : {"retain"}, col : Columns] \cup {Create, Throw}
Tasks ==
  [op : {"idle"}, todo : {<< >>}, done : {<< >>}, frame : {0}]
  \cup [op : {"make"}, todo : Seq(Items), done : Seq(Columns), frame : FrameIds]
  \cup [op : {"dispose"}, todo : Seq(Columns), done : {<< >>}, frame : {0}]

\* Every variable ranges over its type; columns are numbered as they are made,
\* and the buffers of one that is counted are there.
TypeOK ==
  /\ frames \in [FrameIds -> [state : {"none", "open", "disposed"}, entries : Seq(Columns)]]
  /\ refs \in [Columns -> Nat]
  /\ buffers \in [Columns -> {"none", "live", "freed"}]
  /\ made \in 0 .. MaxColumns /\ throws \in 0 .. MaxThrows
  /\ \A o \in Columns : buffers[o] = "none" <=> o > made
  /\ \A o \in Columns : refs[o] > 0 => buffers[o] = "live"
  /\ task \in Tasks
  /\ scope \in [state : {"none", "open", "ending"}, tracked : Seq(FrameIds)]

\* Where columns are shown: by an open frame, by the frame under construction (0),
\* and by what a dispose has still to release (-1).
Showing == FrameIds \cup {0, -1}
Shown ==
  [h \in Showing |->
    IF h = 0 THEN task.done
    ELSE IF h = -1 THEN IF task.op = "dispose" THEN task.todo ELSE << >>
    ELSE IF Open(h) THEN frames[h].entries ELSE << >>]

\* The places of what is shown that show column o.
Places(shown, o) ==
  {h \in Showing \X (1 .. MaxWidth) : h[2] <= Len(shown[h[1]]) /\ shown[h[1]][h[2]] = o}
Holders(o) == Places(Shown, o)

\* A column just made has no OwnedColumn before the frame is constructed.
JustMade(o) == refs[o] = 0 /\ \E i \in 1 .. Len(task.done) : task.done[i] = o

\* In whatever order frames are disposed, an open frame's buffers are there:
\* slices outlive their parents, and parents their children.
OpenFramesReadable ==
  \A f \in OpenFrames : \A i \in 1 .. Len(frames[f].entries) :
    buffers[frames[f].entries[i]] = "live"

\* No buffers are freed twice.
FreedOnce == [][\A o \in Columns : buffers[o] = "freed" => refs'[o] = 0 /\ buffers'[o] = "freed"]_vars

\* An owner counts one reference per place that shows its column, and more
\* only when an operation threw after it had retained some.
RefsExact ==
  \A o \in Columns :
    \/ JustMade(o)
    \/ refs[o] = Cardinality(Holders(o))
    \/ throws > 0 /\ refs[o] > Cardinality(Holders(o))

\* The running operation: what it has still to retain is counted by a frame that
\* stays open, what it has made is shown by its frame alone, and it has the room
\* it needs.
TaskSound ==
  /\ \A h \in Showing : Len(Shown[h]) <= MaxWidth /\ \A i \in 1 .. Len(Shown[h]) : Shown[h][i] <= made
  /\ task.op = "make" =>
       /\ frames[task.frame].state = "none"
       /\ made + Creates(task.todo) <= MaxColumns
       /\ \A i \in 1 .. Len(task.todo) :
            /\ task.todo[i].kind = "retain" => refs[task.todo[i].col] > 0
            /\ task.todo[i] = Throw => throws < MaxThrows
            /\ task.todo[i] # Throw => Len(task.done) + i <= MaxWidth
       /\ \A i \in 1 .. Len(task.done) : buffers[task.done[i]] = "live"
  /\ \A o \in Columns : JustMade(o) => \E i \in 1 .. MaxWidth : Holders(o) = {<<0, i>>}
  /\ \A o \in Columns : buffers[o] = "live" /\ refs[o] = 0 => JustMade(o) \/ throws > 0

\* What every step of the owners preserves: counts are of the places that show a
\* column, and what is counted is there.
OwnersInv == TypeOK /\ RefsExact /\ TaskSound

\* Between operations the live buffers are those of the open frames, unless an
\* operation threw.
NothingLost ==
  Ready /\ throws = 0 =>
    \A o \in Columns : buffers[o] = "live" =>
      \E f \in OpenFrames : \E i \in 1 .. Len(frames[f].entries) : frames[f].entries[i] = o
=============================================================================
