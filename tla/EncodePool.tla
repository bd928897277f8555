------------------------------- MODULE EncodePool -------------------------------
(***************************************************************************)
(* Marshal, MarshalIndent and Append of src/internal/stdjsoncompat/json.go: *)
(* goroutines encode through states taken from a sync.Pool.  Marshal        *)
(* encodes into the state's own buffer and returns a clone; Append lends    *)
(* the caller's buffer to the state and takes it back.  A value's           *)
(* MarshalJSON may call the encoder again, fail or panic.                   *)
(*                                                                          *)
(* The text of value v is Size[v] cells with v in them.                     *)
(***************************************************************************)
EXTENDS Naturals, Sequences, FiniteSets

CONSTANTS
    Goroutines,
    Values, Size,
    Limit,         \* option.LimitBufferSize
    MaxDepth,      \* bound: encoder calls nested through MarshalJSON
    MaxCalls       \* bound: calls in a run

Newline == "newline"
Blank == "blank"

ASSUME PoolAssumption ==
    /\ Size \in [Values -> Nat \ {0}] /\ Limit \in Nat
    /\ MaxDepth \in Nat /\ MaxCalls \in Nat
    /\ Newline \notin Values /\ Blank \notin Values

VARIABLES
    mem,       \* backing arrays, by allocation: sequences of cells
    state,     \* encodeStates, by allocation: [arr, len, drop]; arr 0 is a nil buffer
    pool,      \* the states in encodePool
    stack,     \* goroutine -> its encoder calls, innermost first
    dst,       \* goroutine -> the buffer it appends to, [arr, len]
    appended,  \* history: goroutine -> the values appended to dst
    results,   \* history: the slices Marshal returned, [arr, len, val]
    calls      \* history: number of calls

vars == <<mem, state, pool, stack, dst, appended, results, calls>>

NilBuf == [arr |-> 0, len |-> 0]
Phases == {"encoding", "written", "failed", "panicking"}

Init ==
    /\ mem = <<>> /\ state = <<>> /\ pool = {}
    /\ stack = [g \in Goroutines |-> <<>>]
    /\ dst = [g \in Goroutines |-> NilBuf]
    /\ appended = [g \in Goroutines |-> <<>>]
    /\ results = {} /\ calls = 0

Cells(v) == [i \in 1..Size[v] |-> v]
Capacity(m, b) == IF b.arr = 0 THEN 0 ELSE Len(m[b.arr])
Read(m, b) == IF b.arr = 0 THEN <<>> ELSE SubSeq(m[b.arr], 1, b.len)

\* append(b, cells...): in place while there is room, else in a new array.
Extended(m, b, cells) ==
    LET n == b.len + Len(cells)
        cap == Capacity(m, b)
        room == IF n <= cap THEN cap ELSE IF n > 2 * cap THEN n ELSE 2 * cap
        text == Read(m, b) \o cells
    IN
    IF n <= cap
    THEN [mem |-> [m EXCEPT ![b.arr] =
                     [i \in DOMAIN @ |-> IF i \in (b.len + 1)..n THEN text[i] ELSE @[i]]],
          buf |-> [arr |-> b.arr, len |-> n]]
    ELSE [mem |-> Append(m, [i \in 1..room |-> IF i <= n THEN text[i] ELSE Blank]),
          buf |-> [arr |-> Len(m) + 1, len |-> n]]

BufOf(s) == [arr |-> state[s].arr, len |-> state[s].len]
State(b, drop) == [arr |-> b.arr, len |-> b.len, drop |-> drop]
Top(g) == Head(stack[g])

-----------------------------------------------------------------------------

\* encodePool.Get: any pooled state, or a new one.
Gettable == pool \cup {Len(state) + 1}
Got(s) == IF s \in DOMAIN state THEN state ELSE Append(state, State(NilBuf, FALSE))

\* A defect of the pool's user: the state stays in the pool.
TakenBug(s) == pool
Taken(s) == pool \ {s}

\* A call of Marshal ("marshal") or Append ("append"), from the caller or from
\* the MarshalJSON of the value being encoded.  own is Append's retained.
Enter(g, op, v) ==
    /\ stack[g] # <<>> => Top(g).phase = "encoding"
    /\ Len(stack[g]) < MaxDepth /\ calls < MaxCalls
    /\ op = "append" => \A i \in DOMAIN stack[g] : stack[g][i].op # "append"
    /\ \E s \in Gettable :
         /\ pool' = Taken(s)
         /\ state' = [Got(s) EXCEPT ![s] =
                        State(IF op = "append" THEN dst[g] ELSE [arr |-> @.arr, len |-> @.len], TRUE)]
         /\ stack' = [stack EXCEPT ![g] =
                        <<[op |-> op, val |-> v, st |-> s, phase |-> "encoding",
                           own |-> [arr |-> Got(s)[s].arr, len |-> Got(s)[s].len]]>> \o @]
    /\ calls' = calls + 1
    /\ UNCHANGED <<mem, dst, appended, results>>

SetPhase(g, p) == stack' = [stack EXCEPT ![g][1].phase = p]

\* encodeState.Write: json.Encoder writes the whole text at once, after the
\* value has been encoded without an error.
Write(g) ==
    LET s == Top(g).st
        text == Cells(Top(g).val) \o (IF state[s].drop THEN <<>> ELSE <<Newline>>)
        e == Extended(mem, BufOf(s), text)
    IN
    /\ stack[g] # <<>> /\ Top(g).phase = "encoding"
    /\ mem' = e.mem
    /\ state' = [state EXCEPT ![s] = State(e.buf, @.drop)]
    /\ SetPhase(g, "written")
    /\ UNCHANGED <<pool, dst, appended, results, calls>>

\* MarshalJSON returns an error, or the value cannot be encoded.
EncodeError(g) ==
    /\ stack[g] # <<>> /\ Top(g).phase = "encoding"
    /\ SetPhase(g, "failed")
    /\ UNCHANGED <<mem, state, pool, dst, appended, results, calls>>

Panic(g) ==
    /\ stack[g] # <<>> /\ Top(g).phase = "encoding"
    /\ SetPhase(g, "panicking")
    /\ UNCHANGED <<mem, state, pool, dst, appended, results, calls>>

\* The call is over; a panic goes on in the MarshalJSON that made it.
Popped(g) ==
    LET rest == Tail(stack[g]) IN
    IF Top(g).phase = "panicking" /\ rest # <<>>
    THEN [rest EXCEPT ![1].phase = "panicking"] ELSE rest

\* A defect of marshal: the buffer itself is returned.
CloneBug(m, b) == [mem |-> m, buf |-> b]
\* bytes.Clone.
Clone(m, b) == [mem |-> Append(m, Read(m, b)), buf |-> [arr |-> Len(m) + 1, len |-> b.len]]

\* A defect of reset: the text stays in the buffer.
ResetBug(s) == BufOf(s)
\* reset: a buffer over the limit is given up, a smaller one is emptied.
Reset(s) ==
    IF Capacity(mem, BufOf(s)) > Limit THEN NilBuf ELSE [arr |-> state[s].arr, len |-> 0]

\* The end of marshal; its deferred function runs on a panic too.
MarshalReturn(g) ==
    LET s == Top(g).st
        c == Clone(mem, BufOf(s))
    IN
    /\ stack[g] # <<>> /\ Top(g).op = "marshal" /\ Top(g).phase # "encoding"
    /\ IF Top(g).phase = "written"
       THEN /\ mem' = c.mem
            /\ results' = results \cup {[arr |-> c.buf.arr, len |-> c.buf.len, val |-> Top(g).val]}
       ELSE UNCHANGED <<mem, results>>
    /\ state' = [state EXCEPT ![s] = State(Reset(s), FALSE)]
    /\ pool' = pool \cup {s}
    /\ stack' = [stack EXCEPT ![g] = Popped(g)]
    /\ UNCHANGED <<dst, appended, calls>>

\* A defect of Append: the caller's buffer stays in the state.
TakeBackBug(g) == [arr |-> state[Top(g).st].arr, len |-> 0]
\* s.buf = retained.
TakeBack(g) == Top(g).own

\* The end of Append; a panic leaves the state to the garbage collector.
AppendReturn(g) ==
    LET s == Top(g).st IN
    /\ stack[g] # <<>> /\ Top(g).op = "append" /\ Top(g).phase # "encoding"
    /\ IF Top(g).phase = "written"
       THEN /\ dst' = [dst EXCEPT ![g] = BufOf(s)]
            /\ appended' = [appended EXCEPT ![g] = Append(@, Top(g).val)]
       ELSE UNCHANGED <<dst, appended>>
    /\ IF Top(g).phase = "panicking"
       THEN UNCHANGED <<state, pool>>
       ELSE /\ state' = [state EXCEPT ![s] = State(TakeBack(g), FALSE)]
            /\ pool' = pool \cup {s}
    /\ stack' = [stack EXCEPT ![g] = Popped(g)]
    /\ UNCHANGED <<mem, results, calls>>

\* The garbage collector may empty a sync.Pool.
Collect(s) ==
    /\ s \in pool
    /\ pool' = pool \ {s}
    /\ UNCHANGED <<mem, state, stack, dst, appended, results, calls>>

Next ==
    \/ \E g \in Goroutines :
         \/ \E op \in {"marshal", "append"}, v \in Values : Enter(g, op, v)
         \/ Write(g) \/ EncodeError(g) \/ Panic(g) \/ MarshalReturn(g) \/ AppendReturn(g)
    \/ \E s \in pool : Collect(s)

Spec == Init /\ [][Next]_vars
-----------------------------------------------------------------------------
(* Properties.                                                              *)

Frames(g) == {stack[g][i] : i \in DOMAIN stack[g]}

TypeOK ==
    /\ pool \subseteq DOMAIN state
    /\ \A s \in DOMAIN state : state[s].arr \in 0..Len(mem) /\ state[s].drop \in BOOLEAN
    /\ \A g \in Goroutines :
         /\ dst[g].arr \in 0..Len(mem) /\ dst[g].len <= Capacity(mem, dst[g])
         /\ \A f \in Frames(g) : f.st \in DOMAIN state \ pool /\ f.phase \in Phases

\* A state is used by one call at a time: no two calls, of one goroutine or of
\* two, hold the same state, and none holds a pooled one.
OneUserPerState ==
    /\ TypeOK
    /\ \A g, h \in Goroutines : \A i \in DOMAIN stack[g], j \in DOMAIN stack[h] :
         stack[g][i].st = stack[h][j].st => g = h /\ i = j

\* The array of a pooled buffer belongs to nobody else: not to another state,
\* a caller's destination or a slice that Marshal returned.
PooledBuffersAreOwned ==
    \A s \in pool : LET a == state[s].arr IN a # 0 =>
        /\ \A t \in pool \ {s} : state[t].arr # a
        /\ \A g \in Goroutines : dst[g].arr # a /\ \A f \in Frames(g) : f.own.arr # a
        /\ \A r \in results : r.arr # a

\* A pooled state is empty, adds newlines again, and is not larger than the limit.
PoolIsClean ==
    \A s \in pool :
        /\ state[s].len = 0 /\ ~state[s].drop
        /\ Capacity(mem, BufOf(s)) <= Limit

\* What Marshal returned is the text of its value and stays so, whatever is
\* encoded later.
ResultsStayIntact ==
    \A r \in results : Read(mem, r) = Cells(r.val)

\* The text of a sequence of values.
Text(vs) ==
    LET t[n \in 0..Len(vs)] == IF n = 0 THEN <<>> ELSE t[n - 1] \o Cells(vs[n])
    IN t[Len(vs)]

\* A destination holds exactly the values appended without an error, in order:
\* "If encoding fails, *buf is left untouched" (src/encoder/encoder.go:124).
DestinationsHoldTheirValues ==
    \A g \in Goroutines : Read(mem, dst[g]) = Text(appended[g])
=============================================================================
