---------------------------- MODULE McpServer_proofs ----------------------------
(***************************************************************************)
(* Proofs about the bridge and the lazily built state of the MCP server.   *)
(*                                                                         *)
(* McpBridge, for any number of lines, any queue size and any number of    *)
(* reconnections.  Two facts carry them.  A line is in one place on its    *)
(* way in, and the places are in the order of the lines: whatever was      *)
(* forwarded comes before the line being sent, that before the queue, the  *)
(* queue before the line in hand, and that before stdin.  And until a      *)
(* request is answered for it is in pending, so that a connection that     *)
(* breaks finds it there.                                                  *)
(***************************************************************************)
EXTENDS McpServer, SequenceTheorems, TLAPS

\* What a client may have been told of a line.
Tellings == {<<>>, <<"error">>, <<"timeout">>, <<"result">>, <<"timeout", "result">>}

TypeOK ==
    /\ kind \in Seq(Kinds) /\ Len(kind) <= MaxLines
    /\ stdin \in Seq(Lines) /\ queue \in Seq(Lines \cup {Eof})
    /\ hand \in Lines \cup {0, Eof} /\ sending \in Lines \cup {0}
    /\ forwarded \in Seq(Lines)
    /\ reader \in {"reading", "ended", "cancelled"} /\ closed \in BOOLEAN
    /\ pending \subseteq Requests /\ working \subseteq Requests
    /\ answers \in Seq(Lines) /\ Elements(answers) \subseteq Requests
    /\ out \in [Lines -> Tellings]

Increasing(s) == \A i, j \in 1 .. Len(s) : i < j => s[i] < s[j]
NoTwice(s) == \A i, j \in 1 .. Len(s) : s[i] = s[j] => i = j
Below(S, T) == \A a \in S, b \in T : a < b

\* The line a task holds, if any.
Held(l) == {l} \ {0}

\* The lines go through stdin, hand, queue and sending in order.
InOrder ==
    /\ Increasing(stdin) /\ Increasing(queue) /\ Increasing(forwarded)
    /\ Below(Held(hand), Elements(stdin))
    /\ Below(Elements(queue), Held(hand) \cup Elements(stdin))
    /\ Below(Held(sending), Elements(queue) \cup Held(hand) \cup Elements(stdin))
    /\ Below(Elements(forwarded),
             Held(sending) \cup Elements(queue) \cup Held(hand) \cup Elements(stdin))
    /\ sending # 0 => phase = "up"

\* What the bridge has was written, and the sentinel comes after the last line.
EofIsLast ==
    /\ \A l \in (Elements(stdin) \cup Elements(queue) \cup Elements(forwarded)
                   \cup {hand, sending}) \ {Eof} : l <= Len(kind)
    /\ hand = Eof \/ Eof \in Elements(queue) \/ reader = "ended" => closed /\ stdin = <<>>
    /\ reader = "reading" => Eof \notin Elements(queue)
    /\ reader = "ended" => hand = 0

\* Lines on their way in, up to the forwarding task.
WayIn == Elements(stdin) \cup Elements(queue) \cup {hand}

\* A line on its way in is nowhere else.
OneWayIn ==
    /\ \A l \in WayIn \cap Lines :
           /\ out[l] = <<>>
           /\ l \notin pending /\ l \notin working /\ l \notin Elements(answers)
    /\ sending \notin working /\ sending \notin Elements(answers)

\* A request is told of as long as it is pending, and an answer that is under
\* way is the first, or comes after the watchdog.
OneAnswer ==
    /\ \A l \in pending : out[l] = <<>>
    /\ \A l \in working \cup Elements(answers) \cup (Held(sending) \cap Requests) :
           out[l] \in {<<>>, <<"timeout">>}
    /\ working \cap Elements(answers) = {} /\ NoTwice(answers)
    /\ \A l \in Lines : out[l] # <<>> => l \in Requests
    /\ phase = "fallback" => pending = {}

\* Every request is on its way in, pending or told of.
NoneLost ==
    phase \notin {"fallback", "done"} =>
        \A l \in Requests : l \in WayIn \cup pending \/ out[l] # <<>>

IInv == TypeOK /\ InOrder /\ EofIsLast /\ OneWayIn /\ OneAnswer /\ NoneLost

-----------------------------------------------------------------------------
(* Sequences of lines.                                                      *)

\* An element put at the end of a sequence.
LEMMA PutAtEnd ==
    ASSUME NEW S, NEW s \in Seq(S), NEW x \in S
    PROVE  /\ Append(s, x) \in Seq(S)
           /\ Elements(Append(s, x)) = Elements(s) \cup {x}
           /\ x \notin Elements(s) /\ NoTwice(s) => NoTwice(Append(s, x))
           /\ S \subseteq Nat /\ Increasing(s) /\ Below(Elements(s), {x})
                  => Increasing(Append(s, x))
<1> DEFINE t == Append(s, x)
<1>1. /\ t \in Seq(S) /\ Len(t) = Len(s) + 1 /\ Len(s) \in Nat
      /\ \A i \in 1 .. Len(s) : t[i] = s[i] /\ s[i] \in S
      /\ t[Len(s) + 1] = x
      /\ DOMAIN s = 1 .. Len(s) /\ DOMAIN t = 1 .. Len(s) + 1
    OBVIOUS
<1> HIDE DEF t
<1>2. Elements(t) = Elements(s) \cup {x}
    <2>1. \A i \in DOMAIN t : i \in DOMAIN s \/ i = Len(s) + 1
        BY <1>1
    <2>2. DOMAIN s \subseteq DOMAIN t /\ Len(s) + 1 \in DOMAIN t
        BY <1>1
    <2> QED BY <1>1, <2>1, <2>2 DEF Elements
<1>3. \A i \in 1 .. Len(s) : s[i] \in Elements(s)
    BY <1>1 DEF Elements
<1>4. x \notin Elements(s) /\ NoTwice(s) => NoTwice(t)
    BY <1>1, <1>3 DEF NoTwice
<1>5. S \subseteq Nat /\ Increasing(s) /\ Below(Elements(s), {x}) => Increasing(t)
    BY <1>1, <1>3 DEF Increasing, Below
<1> QED BY <1>1, <1>2, <1>4, <1>5 DEF t

\* The first element taken from a sequence.
LEMMA TakeFirst ==
    ASSUME NEW S, NEW s \in Seq(S), s # <<>>
    PROVE  /\ Tail(s) \in Seq(S) /\ Head(s) \in S
           /\ Elements(s) = {Head(s)} \cup Elements(Tail(s))
           /\ NoTwice(s) => NoTwice(Tail(s)) /\ Head(s) \notin Elements(Tail(s))
           /\ S \subseteq Nat /\ Increasing(s) =>
                  Increasing(Tail(s)) /\ Below({Head(s)}, Elements(Tail(s)))
<1> DEFINE t == Tail(s)
           x == Head(s)
<1>1. /\ t \in Seq(S) /\ x \in S /\ Len(t) = Len(s) - 1 /\ Len(s) \in Nat \ {0}
      /\ \A i \in 1 .. Len(t) : t[i] = s[i + 1]
      /\ \A i \in 1 .. Len(s) : s[i] \in S
      /\ s[1] = x
      /\ DOMAIN s = 1 .. Len(s) /\ DOMAIN t = 1 .. Len(t)
    BY HeadTailProperties, LenProperties, EmptySeq
<1> HIDE DEF t, x
<1>2. Elements(s) = {x} \cup Elements(t)
    <2>1. ASSUME NEW i \in DOMAIN s PROVE s[i] \in {x} \cup Elements(t)
        <3>1. CASE i = 1
            BY <1>1, <3>1
        <3>2. CASE i # 1
            <4>1. i - 1 \in 1 .. Len(t) /\ s[i] = t[i - 1]
                BY <1>1, <3>2
            <4> QED BY <1>1, <4>1 DEF Elements
        <3> QED BY <3>1, <3>2
    <2>2. ASSUME NEW i \in DOMAIN t PROVE t[i] \in Elements(s)
        <3>1. i + 1 \in DOMAIN s /\ t[i] = s[i + 1]
            BY <1>1
        <3> QED BY <3>1 DEF Elements
    <2>3. x \in Elements(s)
        BY <1>1 DEF Elements
    <2> QED BY <2>1, <2>2, <2>3 DEF Elements
<1>3. NoTwice(s) => NoTwice(t) /\ x \notin Elements(t)
    <2> SUFFICES ASSUME NoTwice(s) PROVE NoTwice(t) /\ x \notin Elements(t)
        OBVIOUS
    <2>1. \A i \in 1 .. Len(t) : i + 1 \in 1 .. Len(s) /\ i + 1 # 1
        BY <1>1
    <2>2. NoTwice(t)
        BY <1>1, <2>1 DEF NoTwice
    <2>3. \A i \in 1 .. Len(t) : t[i] # x
        BY <1>1, <2>1 DEF NoTwice
    <2> QED BY <1>1, <2>2, <2>3 DEF Elements
<1>4. S \subseteq Nat /\ Increasing(s) => Increasing(t) /\ Below({x}, Elements(t))
    <2> SUFFICES ASSUME S \subseteq Nat, Increasing(s)
                 PROVE  Increasing(t) /\ Below({x}, Elements(t))
        OBVIOUS
    <2>1. \A i \in 1 .. Len(t) : i + 1 \in 1 .. Len(s) /\ 1 < i + 1
        BY <1>1
    <2>2. Increasing(t)
        BY <1>1, <2>1 DEF Increasing
    <2>3. \A i \in 1 .. Len(t) : x < t[i]
        BY <1>1, <2>1 DEF Increasing
    <2> QED BY <1>1, <2>2, <2>3 DEF Elements, Below
<1> QED BY <1>1, <1>2, <1>3, <1>4 DEF t, x

LEMMA AppendToOne ==
    ASSUME NEW S, NEW a \in S, NEW b \in S
    PROVE  Append(<<a>>, b) = <<a, b>>
<1> DEFINE s == Append(<<a>>, b)
           t == <<a, b>>
<1>1. <<a>> \in Seq(S)
    OBVIOUS
<1>2. t \in Seq(S) /\ Len(t) = 2 /\ t[1] = a /\ t[2] = b
    OBVIOUS
<1>3. s \in Seq(S) /\ Len(s) = 2 /\ s[1] = a /\ s[2] = b
    BY <1>1
<1> HIDE DEF s, t
<1>4. \A i \in 1 .. Len(s) : s[i] = t[i]
    BY <1>2, <1>3
<1> QED BY <1>2, <1>3, <1>4, SeqEqual DEF s, t

LEMMA EmptyHasNone == Elements(<<>>) = {} /\ Increasing(<<>>) /\ NoTwice(<<>>)
BY DEF Elements, Increasing, NoTwice

LEMMA Bounds == /\ MaxLines \in Nat /\ Eof \in Nat /\ Eof \notin Lines /\ 0 \notin Lines /\ Eof # 0
                /\ Lines \subseteq Nat /\ \A l \in Lines : l < Eof
BY BridgeBounds DEF Eof, Lines

\* The same of a line.
LEMMA PutLineAtEnd ==
    ASSUME NEW q \in Seq(Lines), NEW l \in Lines
    PROVE  /\ Append(q, l) \in Seq(Lines)
           /\ Elements(Append(q, l)) = Elements(q) \cup {l}
           /\ Increasing(q) /\ Below(Elements(q), {l}) => Increasing(Append(q, l))
<1>1. Lines \subseteq Nat
    BY Bounds
<1> QED BY <1>1, PutAtEnd

\* What is told of a line that was told of nothing, or timed out.
LEMMA Telling ==
    ASSUME out \in [Lines -> Tellings], NEW F \in SUBSET Lines,
           NEW w \in {"error", "timeout", "result"}
    PROVE  /\ DOMAIN Told(F, w) = Lines
           /\ \A l \in Lines \ F : Told(F, w)[l] = out[l]
           /\ \A l \in F : out[l] = <<>> => Told(F, w)[l] = <<w>>
           /\ \A l \in F : out[l] = <<"timeout">> => Told(F, w)[l] = <<"timeout", w>>
           /\ Told(F, w) = [l \in Lines |-> Told(F, w)[l]]
<1>1. /\ \A l \in Lines \ F : Told(F, w)[l] = out[l]
      /\ \A l \in F : Told(F, w)[l] = Append(out[l], w)
      /\ DOMAIN Told(F, w) = Lines
      /\ Told(F, w) = [l \in Lines |-> Told(F, w)[l]]
    BY DEF Told
<1>2. Append(<<>>, w) = <<w>>
    OBVIOUS
<1>3. Append(<<"timeout">>, w) = <<"timeout", w>>
    BY AppendToOne
<1> QED BY <1>1, <1>2, <1>3

LEMMA InitEstablishes == Init => IInv
<1> SUFFICES ASSUME Init PROVE IInv
    OBVIOUS
<1>1. /\ kind = <<>> /\ stdin = <<>> /\ queue = <<>> /\ forwarded = <<>> /\ answers = <<>>
      /\ closed = FALSE /\ reader = "reading" /\ hand = 0 /\ sending = 0
      /\ pending = {} /\ working = {} /\ out = [l \in Lines |-> <<>>]
    BY DEF Init
<1>2. Len(kind) = 0 /\ Requests = {} /\ kind \in Seq(Kinds)
    BY <1>1 DEF Requests
<1>3. TypeOK
    <2>1. \A S : <<>> \in Seq(S)
        BY EmptySeq
    <2>2. out \in [Lines -> Tellings]
        BY <1>1 DEF Tellings
    <2>3. Elements(answers) = {}
        BY <1>1, EmptyHasNone
    <2>4. Len(kind) <= MaxLines
        BY <1>2, Bounds
    <2> QED BY <1>1, <1>2, <2>1, <2>2, <2>3, <2>4 DEF TypeOK
<1>4. InOrder /\ EofIsLast
    BY <1>1, <1>2, EmptyHasNone, Bounds DEF InOrder, EofIsLast, Held, Below
<1>5. OneWayIn /\ OneAnswer /\ NoneLost
    BY <1>1, <1>2, EmptyHasNone, Bounds DEF OneWayIn, OneAnswer, NoneLost, WayIn, Held
<1> QED BY <1>3, <1>4, <1>5 DEF IInv
-----------------------------------------------------------------------------
(* The client and the reader.                                               *)

LEMMA WriteKeeps ==
    ASSUME IInv, NEW k \in Kinds, Write(k)
    PROVE  IInv'
<1> DEFINE n == Len(kind) + 1
<1>1. /\ UNCHANGED <<closed, reader, hand, queue, attempt, phase, sending, pending,
                     forwarded, working, answers, out>>
      /\ ~closed /\ n <= MaxLines /\ kind' = Append(kind, k) /\ stdin' = Append(stdin, n)
    <2>1. Len(kind) \in Nat
        BY DEF IInv, TypeOK
    <2> QED BY <2>1, Bounds DEF Write
<1>2. /\ n \in Nat \ {0} /\ n \in Lines /\ Len(kind') = n /\ kind' \in Seq(Kinds)
      /\ Requests \subseteq Requests' /\ Requests' \subseteq Requests \cup {n}
      /\ Requests \subseteq 1 .. Len(kind)
    <2>1. Len(kind) \in Nat /\ n \in Nat \ {0} /\ n \in Lines
        BY <1>1 DEF IInv, TypeOK, Lines
    <2>2. /\ Len(kind') = n /\ kind' \in Seq(Kinds)
          /\ \A l \in 1 .. Len(kind) : kind'[l] = kind[l]
        BY <1>1 DEF IInv, TypeOK
    <2>3. 1 .. n = (1 .. Len(kind)) \cup {n}
        BY <2>1
    <2> QED BY <2>1, <2>2, <2>3 DEF Requests
<1>3. /\ stdin' \in Seq(Lines) /\ Elements(stdin') = Elements(stdin) \cup {n}
      /\ Increasing(stdin) /\ Below(Elements(stdin), {n}) => Increasing(stdin')
    <2> HIDE DEF n
    <2>1. stdin \in Seq(Lines) /\ n \in Lines /\ Lines \subseteq Nat
        BY <1>2, Bounds DEF IInv, TypeOK
    <2> QED BY <1>1, <2>1, PutLineAtEnd
<1>4. \A l \in Elements(stdin) \cup Elements(queue) \cup Elements(forwarded)
                 \cup {hand, sending} : l \in Nat /\ l < n
    <2>1. Eof # hand /\ Eof \notin Elements(queue)
        BY <1>1 DEF IInv, EofIsLast
    <2>2. Elements(stdin) \subseteq Lines /\ Elements(queue) \subseteq Lines \cup {Eof}
          /\ Elements(forwarded) \subseteq Lines
        BY DEF IInv, TypeOK, Elements
    <2>3. hand \in Nat /\ sending \in Nat /\ sending # Eof
        BY Bounds DEF IInv, TypeOK
    <2>4. \A l \in Elements(stdin) \cup Elements(queue) \cup Elements(forwarded)
                     \cup {hand, sending} : l \in Nat /\ l # Eof
        BY <2>1, <2>2, <2>3, Bounds
    <2>5. Len(kind) \in Nat /\ n = Len(kind) + 1
        BY DEF IInv, TypeOK
    <2> QED BY <2>4, <2>5 DEF IInv, EofIsLast
<1> HIDE DEF n
<1>5. TypeOK'
    BY <1>1, <1>2, <1>3 DEF IInv, TypeOK
<1>6. InOrder'
    BY <1>1, <1>3, <1>4 DEF IInv, InOrder, Below, Held
<1>7. EofIsLast'
    <2>1. n <= Len(kind') /\ n \in Nat
        BY <1>2
    <2>2. hand # Eof /\ Eof \notin Elements(queue) /\ reader # "ended"
        BY <1>1 DEF IInv, EofIsLast
    <2>3. \A l \in Elements(stdin') \cup Elements(queue) \cup Elements(forwarded)
                 \cup {hand, sending} : l <= n
        BY <1>3, <1>4, <2>1
    <2> QED BY <1>1, <1>2, <2>2, <2>3 DEF EofIsLast
<1>8. n \notin Requests /\ out[n] = <<>>
    <2>1. n \notin Requests
        BY <1>2 DEF n
    <2> QED BY <1>2, <2>1 DEF IInv, OneAnswer
<1>9. OneWayIn' /\ OneAnswer'
    BY <1>1, <1>2, <1>3, <1>4, <1>8 DEF IInv, OneWayIn, OneAnswer, TypeOK, WayIn, Held
<1>10. NoneLost'
    BY <1>1, <1>2, <1>3 DEF IInv, NoneLost, WayIn
<1> QED BY <1>5, <1>6, <1>7, <1>9, <1>10 DEF IInv

LEMMA ReadLineKeeps ==
    ASSUME IInv, ReadLine
    PROVE  IInv'
<1>1. /\ UNCHANGED <<kind, closed, reader, queue, attempt, phase, sending, pending,
                     forwarded, working, answers, out>>
      /\ reader = "reading" /\ hand = 0 /\ stdin # <<>>
      /\ hand' = Head(stdin) /\ stdin' = Tail(stdin) /\ Requests' = Requests
    BY DEF ReadLine, Requests
<1>2. /\ stdin' \in Seq(Lines) /\ hand' \in Lines
      /\ Elements(stdin) = {hand'} \cup Elements(stdin')
      /\ Increasing(stdin) => Increasing(stdin') /\ Below({hand'}, Elements(stdin'))
    BY <1>1, TakeFirst, Bounds DEF IInv, TypeOK
<1>3. TypeOK'
    BY <1>1, <1>2 DEF IInv, TypeOK
<1>4. InOrder'
    BY <1>1, <1>2 DEF IInv, InOrder, Below, Held
<1>5. EofIsLast'
    <2>1. Eof \notin Elements(queue) /\ hand' # Eof /\ hand' \in Elements(stdin)
          /\ Elements(stdin') \subseteq Elements(stdin)
        BY <1>1, <1>2, Bounds DEF IInv, EofIsLast
    <2> QED BY <1>1, <2>1 DEF IInv, EofIsLast
<1>6. WayIn' \subseteq WayIn /\ WayIn \subseteq WayIn' \cup {0} /\ 0 \notin Requests
    BY <1>1, <1>2 DEF WayIn, Requests
<1>7. OneWayIn' /\ OneAnswer'
    BY <1>1, <1>6 DEF IInv, OneWayIn, OneAnswer
<1>8. NoneLost'
    BY <1>1, <1>6 DEF IInv, NoneLost
<1> QED BY <1>3, <1>4, <1>5, <1>7, <1>8 DEF IInv

LEMMA ReadEofKeeps ==
    ASSUME IInv, ReadEof
    PROVE  IInv'
<1>1. /\ UNCHANGED <<kind, stdin, closed, reader, queue, attempt, phase, sending, pending,
                     forwarded, working, answers, out>>
      /\ reader = "reading" /\ hand = 0 /\ stdin = <<>> /\ closed /\ hand' = Eof
      /\ Requests' = Requests /\ Elements(stdin) = {}
    BY EmptyHasNone DEF ReadEof, Requests
<1>2. TypeOK'
    BY <1>1 DEF IInv, TypeOK
<1>3. InOrder'
    <2>1. \A l \in Elements(queue) \cup Elements(forwarded) \cup Held(sending) : l < Eof
        <3>1. Eof \notin Elements(queue)
            BY <1>1 DEF IInv, EofIsLast
        <3>2. Elements(queue) \subseteq Lines \cup {Eof} /\ Elements(forwarded) \subseteq Lines
            BY DEF IInv, TypeOK, Elements
        <3> QED BY <3>1, <3>2, Bounds DEF IInv, TypeOK, Held
    <2> QED BY <1>1, <2>1 DEF IInv, InOrder, Below, Held
<1>4. EofIsLast'
    BY <1>1, Bounds DEF IInv, EofIsLast
<1>5. OneWayIn' /\ OneAnswer' /\ NoneLost'
    <2>1. hand' \notin Lines
        BY <1>1, Bounds
    <2>2. OneWayIn'
        BY <1>1, <2>1 DEF IInv, OneWayIn, WayIn
    <2>3. OneAnswer'
        BY <1>1 DEF IInv, OneAnswer
    <2>4. 0 \notin Requests
        BY DEF Requests
    <2>5. NoneLost'
        BY <1>1, <2>4 DEF IInv, NoneLost, WayIn
    <2> QED BY <2>2, <2>3, <2>5
<1> QED BY <1>2, <1>3, <1>4, <1>5 DEF IInv

LEMMA PutLineKeeps ==
    ASSUME IInv, PutLine
    PROVE  IInv'
<1>1. /\ UNCHANGED <<kind, stdin, closed, attempt, phase, sending, pending, forwarded,
                     working, answers, out>>
      /\ reader = "reading" /\ hand # 0 /\ hand' = 0 /\ queue' = Append(queue, hand)
      /\ reader' = IF hand = Eof THEN "ended" ELSE "reading"
      /\ Requests' = Requests
    BY DEF PutLine, Requests
<1>2. /\ queue' \in Seq(Lines \cup {Eof}) /\ Elements(queue') = Elements(queue) \cup {hand}
      /\ Increasing(queue) /\ Below(Elements(queue), {hand}) => Increasing(queue')
    <2>1. queue \in Seq(Lines \cup {Eof}) /\ hand \in Lines \cup {Eof}
          /\ Lines \cup {Eof} \subseteq Nat
        BY <1>1, Bounds DEF IInv, TypeOK
    <2>2. /\ Append(queue, hand) \in Seq(Lines \cup {Eof})
          /\ Elements(Append(queue, hand)) = Elements(queue) \cup {hand}
          /\ Increasing(queue) /\ Below(Elements(queue), {hand}) => Increasing(Append(queue, hand))
        BY <2>1, PutAtEnd
    <2> QED BY <1>1, <2>2
<1>3. TypeOK'
    BY <1>1, <1>2 DEF IInv, TypeOK
<1>4. InOrder'
    BY <1>1, <1>2 DEF IInv, InOrder, Below, Held
<1>5. EofIsLast'
    BY <1>1, <1>2, Bounds DEF IInv, EofIsLast
<1>6. OneWayIn' /\ OneAnswer' /\ NoneLost'
    BY <1>1, <1>2, Bounds DEF IInv, OneWayIn, OneAnswer, NoneLost, WayIn, TypeOK
<1> QED BY <1>3, <1>4, <1>5, <1>6 DEF IInv
-----------------------------------------------------------------------------
(* The connection.                                                          *)

\* What leaves the lines alone.
LEMMA IdleKeeps ==
    ASSUME IInv, CloseStdin \/ Backoff \/ Connect \/ UNCHANGED vars
    PROVE  IInv'
<1>1. /\ UNCHANGED <<kind, stdin, reader, hand, queue, sending, pending, forwarded, working,
                     answers, out>>
      /\ closed' = closed \/ closed' = TRUE
      /\ phase' = phase \/ (phase = "backoff" /\ phase' = "connect")
         \/ (phase = "connect" /\ phase' = "up")
    BY DEF CloseStdin, Backoff, Connect, vars
<1>2. Requests' = Requests /\ WayIn' = WayIn
    BY <1>1 DEF Requests, WayIn
<1>3. closed \in BOOLEAN
    BY DEF IInv, TypeOK
<1>4. TypeOK'
    BY <1>1, <1>2, <1>3 DEF IInv, TypeOK
<1>5. InOrder'
    BY <1>1 DEF IInv, InOrder
<1>6. EofIsLast'
    BY <1>1, <1>3 DEF IInv, EofIsLast
<1>7. OneWayIn' /\ OneAnswer' /\ NoneLost'
    BY <1>1, <1>2 DEF IInv, OneWayIn, OneAnswer, NoneLost
<1> QED BY <1>4, <1>5, <1>6, <1>7 DEF IInv

LEMMA ConnectionLostKeeps ==
    ASSUME IInv, ConnectionLost
    PROVE  IInv'
<1>1. /\ UNCHANGED <<kind, stdin, closed, hand, queue, forwarded>>
      /\ phase \notin {"fallback", "done"}
      /\ out' = Told(pending, "error") /\ pending' = {}
      /\ sending' = 0 /\ working' = {} /\ answers' = <<>>
      /\ reader' = reader \/ reader' = IF reader = "reading" THEN "cancelled" ELSE reader
    BY DEF ConnectionLost, Unanswered, Stop
<1>2. /\ Requests' = Requests /\ WayIn' = WayIn /\ Elements(answers') = {}
      /\ NoTwice(answers') /\ answers' \in Seq(Lines)
    BY <1>1, EmptyHasNone DEF Requests, WayIn
<1>3. pending \subseteq Requests /\ Requests \subseteq Lines
    BY Bounds DEF IInv, TypeOK, Requests, Lines
<1>4. /\ \A l \in Lines \ pending : out'[l] = out[l]
      /\ \A l \in pending : out'[l] = <<"error">>
      /\ out' \in [Lines -> Tellings]
    <2>1. /\ \A l \in Lines \ pending : out'[l] = out[l]
          /\ \A l \in pending : out[l] = <<>> => out'[l] = <<"error">>
          /\ out' = [l \in Lines |-> out'[l]]
        BY <1>1, <1>3, Telling DEF IInv, TypeOK
    <2>2. \A l \in pending : out[l] = <<>>
        BY DEF IInv, OneAnswer
    <2>3. \A l \in Lines : out[l] \in Tellings
        BY DEF IInv, TypeOK
    <2>4. \A l \in Lines : out'[l] \in Tellings
        BY <2>1, <2>2, <2>3 DEF Tellings
    <2> QED BY <2>1, <2>2, <2>4
<1>5. TypeOK'
    BY <1>1, <1>2, <1>4 DEF IInv, TypeOK
<1>6. InOrder'
    BY <1>1 DEF IInv, InOrder, Held, Below
<1>7. EofIsLast'
    <2>1. 0 <= Len(kind)
        BY DEF IInv, TypeOK
    <2> QED BY <1>1, <2>1 DEF IInv, EofIsLast
<1>8. OneWayIn' /\ OneAnswer'
    BY <1>1, <1>2, <1>3, <1>4 DEF IInv, OneWayIn, OneAnswer, Held
<1>9. NoneLost'
    BY <1>1, <1>2, <1>3, <1>4 DEF IInv, NoneLost
<1> QED BY <1>5, <1>6, <1>7, <1>8, <1>9 DEF IInv

\* What remains when run() returns, the queue one shorter or not.
LEMMA LeaveKeeps ==
    ASSUME IInv, ForwardEof \/ StreamEnds \/ (Forward /\ phase' = "done") \/ DrainEof
    PROVE  IInv'
<1>1. /\ UNCHANGED <<kind, stdin, closed, hand, forwarded, out>> /\ phase' = "done"
      /\ reader' = reader \/ reader' = IF reader = "reading" THEN "cancelled" ELSE reader
      /\ queue' = queue \/ (queue # <<>> /\ queue' = Tail(queue))
    BY DEF ForwardEof, StreamEnds, Forward, DrainEof, Leave, Stop
<1>2. /\ sending' = 0 /\ working' \subseteq working
      /\ answers' \in {<<>>, answers} /\ pending' = pending
    <2>1. CASE Forward /\ phase' = "done"
        <3>1. phase = "up" /\ phase' # phase
            BY <2>1 DEF Forward
        <3>2. Leave /\ kind[Head(queue)] = "odd"
              /\ pending' = pending \cup ({Head(queue)} \cap Requests)
            BY <2>1, <3>1 DEF Forward
        <3> QED BY <3>2 DEF Leave, Requests
    <2> QED BY <2>1 DEF ForwardEof, StreamEnds, DrainEof, Leave, IInv, InOrder
<1>3. /\ queue' \in Seq(Lines \cup {Eof}) /\ Increasing(queue')
      /\ Elements(queue') \subseteq Elements(queue)
    <2>1. queue \in Seq(Lines \cup {Eof}) /\ Lines \cup {Eof} \subseteq Nat /\ Increasing(queue)
        BY Bounds DEF IInv, TypeOK, InOrder
    <2>2. CASE queue # <<>> /\ queue' = Tail(queue)
        BY <2>1, <2>2, TakeFirst
    <2> QED BY <1>1, <2>1, <2>2
<1>4. /\ Requests' = Requests /\ WayIn' \subseteq WayIn
      /\ Elements(answers') \subseteq Elements(answers)
      /\ NoTwice(answers') /\ answers' \in Seq(Lines)
    <2>1. Requests' = Requests /\ WayIn' \subseteq WayIn
        BY <1>1, <1>3 DEF Requests, WayIn
    <2>2. NoTwice(answers) /\ answers \in Seq(Lines) /\ <<>> \in Seq(Lines)
        BY DEF IInv, OneAnswer, TypeOK
    <2> QED BY <1>2, <2>1, <2>2, EmptyHasNone
<1>5. TypeOK'
    BY <1>1, <1>2, <1>3, <1>4 DEF IInv, TypeOK
<1>6. InOrder'
    BY <1>1, <1>2, <1>3 DEF IInv, InOrder, Held, Below
<1>7. EofIsLast'
    <2>1. 0 <= Len(kind)
        BY DEF IInv, TypeOK
    <2> QED BY <1>1, <1>2, <1>3, <2>1 DEF IInv, EofIsLast
<1>8. OneWayIn' /\ OneAnswer'
    <2>1. 0 \notin Requests
        BY DEF Requests
    <2> QED BY <1>1, <1>2, <1>4, <2>1 DEF IInv, OneWayIn, OneAnswer, Held, TypeOK
<1>9. NoneLost'
    BY <1>1 DEF NoneLost
<1> QED BY <1>5, <1>6, <1>7, <1>8, <1>9 DEF IInv

LEMMA ForwardKeeps ==
    ASSUME IInv, Forward
    PROVE  IInv'
<1>0. CASE phase' = "done"
    BY <1>0, LeaveKeeps
<1>1. CASE phase' # "done"
    <2>1. /\ UNCHANGED <<kind, stdin, closed, reader, hand, phase, forwarded, working,
                         answers, out>>
          /\ phase = "up" /\ queue # <<>> /\ sending' = Head(queue) /\ Head(queue) # Eof
          /\ sending = 0 /\ queue' = Tail(queue) /\ pending' = pending \cup ({sending'} \cap Requests)
        BY <1>1 DEF Forward, Leave
    <2>2. /\ queue' \in Seq(Lines \cup {Eof}) /\ Increasing(queue')
          /\ Elements(queue) = {sending'} \cup Elements(queue')
          /\ sending' \in Lines /\ Below({sending'}, Elements(queue'))
        <3>1. queue \in Seq(Lines \cup {Eof}) /\ Lines \cup {Eof} \subseteq Nat
              /\ Increasing(queue)
            BY Bounds DEF IInv, TypeOK, InOrder
        <3>2. /\ Tail(queue) \in Seq(Lines \cup {Eof}) /\ Increasing(Tail(queue))
              /\ Elements(queue) = {Head(queue)} \cup Elements(Tail(queue))
              /\ Head(queue) \in Lines \cup {Eof}
              /\ Below({Head(queue)}, Elements(Tail(queue)))
            BY <2>1, <3>1, TakeFirst
        <3> QED BY <2>1, <3>2
    <2>3. Requests' = Requests /\ WayIn' \subseteq WayIn /\ WayIn \subseteq WayIn' \cup {sending'}
        BY <2>1, <2>2 DEF Requests, WayIn
    <2>4. sending' \in WayIn \cap Lines
        BY <2>2 DEF WayIn
    <2>5. TypeOK'
        BY <2>1, <2>2, <2>3 DEF IInv, TypeOK
    <2>6. InOrder'
        BY <2>1, <2>2 DEF IInv, InOrder, Held, Below
    <2>7. EofIsLast'
        BY <2>1, <2>2, Bounds DEF IInv, EofIsLast
    <2>8. sending' \notin WayIn'
        <3>1. Below({sending'}, Elements(queue') \cup Held(hand) \cup Elements(stdin))
            BY <2>2 DEF IInv, InOrder, Below
        <3>2. sending' # 0 /\ sending' \in Nat
            BY <2>2, Bounds
        <3> QED BY <2>1, <3>1, <3>2 DEF WayIn, Below, Held
    <2>9. OneWayIn'
        BY <2>1, <2>3, <2>4, <2>8 DEF IInv, OneWayIn
    <2>10. OneAnswer'
        BY <2>1, <2>3, <2>4 DEF IInv, OneWayIn, OneAnswer, Held
    <2>11. NoneLost'
        BY <2>1, <2>3 DEF IInv, NoneLost
    <2> QED BY <2>5, <2>6, <2>7, <2>9, <2>10, <2>11 DEF IInv
<1> QED BY <1>0, <1>1

LEMMA SendKeeps ==
    ASSUME IInv, Send
    PROVE  IInv'
<1>1. /\ UNCHANGED <<kind, stdin, closed, reader, hand, queue, phase, pending, answers, out>>
      /\ sending # 0 /\ sending' = 0 /\ forwarded' = Append(forwarded, sending)
      /\ working' = working \cup ({sending} \cap Requests)
      /\ Requests' = Requests /\ WayIn' = WayIn /\ 0 \notin Requests
    BY DEF Send, Requests, WayIn
<1>2. sending \in Lines /\ sending \in Held(sending)
    BY <1>1 DEF IInv, TypeOK, Held
<1>3. /\ forwarded' \in Seq(Lines) /\ Increasing(forwarded')
      /\ Elements(forwarded') = Elements(forwarded) \cup {sending}
    <2>1. /\ Increasing(forwarded) /\ Below(Elements(forwarded), {sending})
          /\ forwarded \in Seq(Lines)
        BY <1>2 DEF IInv, InOrder, TypeOK, Below
    <2> QED BY <1>1, <1>2, <2>1, PutLineAtEnd
<1>4. sending \notin WayIn
    <2>1. Below({sending}, Elements(queue) \cup Held(hand) \cup Elements(stdin))
        BY <1>2 DEF IInv, InOrder, Below
    <2> QED BY <1>1, <1>2, <2>1, Bounds DEF WayIn, Below, Held
<1>5. TypeOK'
    BY <1>1, <1>3 DEF IInv, TypeOK
<1>6. InOrder'
    BY <1>1, <1>2, <1>3 DEF IInv, InOrder, Held, Below
<1>7. EofIsLast'
    <2>1. 0 <= Len(kind)
        BY DEF IInv, TypeOK
    <2> QED BY <1>1, <1>3, <2>1 DEF IInv, EofIsLast
<1>8. OneWayIn'
    BY <1>1, <1>4 DEF IInv, OneWayIn, TypeOK
<1>9. OneAnswer'
    BY <1>1, <1>2 DEF IInv, OneAnswer, OneWayIn, Held
<1>10. NoneLost'
    BY <1>1 DEF IInv, NoneLost
<1> QED BY <1>5, <1>6, <1>7, <1>8, <1>9, <1>10 DEF IInv

LEMMA SidecarAnswersKeeps ==
    ASSUME IInv, NEW l \in Lines, SidecarAnswers(l)
    PROVE  IInv'
<1>1. /\ UNCHANGED <<kind, stdin, closed, reader, hand, queue, phase, sending, pending,
                     forwarded, out>>
      /\ l \in working /\ working' = working \ {l} /\ answers' = Append(answers, l)
      /\ Requests' = Requests /\ WayIn' = WayIn
    BY DEF SidecarAnswers, Requests, WayIn
<1>2. /\ answers' \in Seq(Lines) /\ Elements(answers') = Elements(answers) \cup {l}
      /\ NoTwice(answers')
    <2>1. l \notin Elements(answers) /\ NoTwice(answers) /\ answers \in Seq(Lines)
        BY <1>1 DEF IInv, OneAnswer, TypeOK
    <2>2. /\ Append(answers, l) \in Seq(Lines)
          /\ Elements(Append(answers, l)) = Elements(answers) \cup {l}
          /\ NoTwice(Append(answers, l))
        BY <2>1, PutAtEnd
    <2> QED BY <1>1, <2>2
<1>3. TypeOK'
    BY <1>1, <1>2 DEF IInv, TypeOK
<1>4. InOrder'
    BY <1>1 DEF IInv, InOrder
<1>5. EofIsLast'
    BY <1>1 DEF IInv, EofIsLast
<1>6. OneWayIn' /\ OneAnswer' /\ NoneLost'
    BY <1>1, <1>2 DEF IInv, OneWayIn, OneAnswer, NoneLost
<1> QED BY <1>3, <1>4, <1>5, <1>6 DEF IInv

\* Telling the result of a request that is in neither working nor answers any
\* more, or the timeout of pending requests.
LEMMA ToldOfSome ==
    ASSUME IInv, NEW F \in SUBSET Requests, NEW w \in {"timeout", "result"},
           \/ w = "result" /\ (\A l \in F : out[l] \in {<<>>, <<"timeout">>})
           \/ w = "timeout" /\ F \subseteq pending,
           out' = Told(F, w)
    PROVE  /\ \A l \in Lines \ F : out'[l] = out[l]
           /\ \A l \in F : out'[l] # <<>>
           /\ w = "timeout" => \A l \in F : out'[l] = <<"timeout">>
           /\ out' \in [Lines -> Tellings]
<1>1. F \subseteq Lines
    BY Bounds DEF Requests, IInv, TypeOK, Lines
<1>2. /\ \A l \in Lines \ F : out'[l] = out[l]
      /\ \A l \in F : out[l] = <<>> => out'[l] = <<w>>
      /\ \A l \in F : out[l] = <<"timeout">> => out'[l] = <<"timeout", w>>
      /\ out' = [l \in Lines |-> out'[l]]
    <2>1. w \in {"error", "timeout", "result"} /\ F \in SUBSET Lines /\ out \in [Lines -> Tellings]
        BY <1>1 DEF IInv, TypeOK
    <2> QED BY <2>1, Telling
<1>3. w = "timeout" => \A l \in F : out[l] = <<>>
    BY DEF IInv, OneAnswer
<1>4. ASSUME NEW l \in F PROVE out'[l] \in {<<w>>, <<"timeout", "result">>}
    BY <1>2, <1>3
<1>5. <<w>> # <<>> /\ <<"timeout", "result">> # <<>>
    OBVIOUS
<1>6. \A l \in Lines : out[l] \in Tellings
    BY DEF IInv, TypeOK
<1>7. \A l \in Lines : out'[l] \in Tellings
    BY <1>2, <1>4, <1>6 DEF Tellings
<1> QED BY <1>2, <1>3, <1>4, <1>5, <1>7

LEMMA RelayKeeps ==
    ASSUME IInv, Relay
    PROVE  IInv'
<1> DEFINE x == Head(answers)
<1>1. /\ UNCHANGED <<kind, stdin, closed, reader, hand, queue, phase, sending, forwarded,
                     working>>
      /\ answers # <<>> /\ answers' = Tail(answers) /\ pending' = pending \ {x}
      /\ out' = Told({x}, "result") /\ Requests' = Requests /\ WayIn' = WayIn
    BY DEF Relay, Requests, WayIn
<1>2. /\ answers' \in Seq(Lines) /\ x \in Lines /\ NoTwice(answers')
      /\ Elements(answers) = {x} \cup Elements(answers') /\ x \notin Elements(answers')
    BY <1>1, TakeFirst DEF IInv, TypeOK, OneAnswer
<1> HIDE DEF x
<1>3. x \in Requests /\ out[x] \in {<<>>, <<"timeout">>} /\ x \notin working
      /\ x # sending /\ x \notin WayIn
    BY <1>2 DEF IInv, TypeOK, OneAnswer, OneWayIn
<1>4. /\ \A l \in Lines \ {x} : out'[l] = out[l]
      /\ out'[x] # <<>> /\ out' \in [Lines -> Tellings]
    BY <1>1, <1>3, ToldOfSome
<1>5. Requests \subseteq Lines
    BY Bounds DEF IInv, TypeOK, Requests, Lines
<1>6. TypeOK'
    BY <1>1, <1>2, <1>4 DEF IInv, TypeOK
<1>7. InOrder'
    BY <1>1 DEF IInv, InOrder
<1>8. EofIsLast'
    BY <1>1 DEF IInv, EofIsLast
<1>9. OneWayIn'
    BY <1>1, <1>2, <1>3, <1>4 DEF IInv, OneWayIn
<1>10. OneAnswer'
    BY <1>1, <1>2, <1>3, <1>4, <1>5 DEF IInv, OneAnswer, Held, TypeOK
<1>11. NoneLost'
    BY <1>1, <1>2, <1>4, <1>5 DEF IInv, NoneLost
<1> QED BY <1>6, <1>7, <1>8, <1>9, <1>10, <1>11 DEF IInv

LEMMA TimeOutKeeps ==
    ASSUME IInv, NEW P \in SUBSET pending, TimeOut(P)
    PROVE  IInv'
<1>1. /\ UNCHANGED <<kind, stdin, closed, reader, hand, queue, phase, sending, forwarded,
                     working, answers>>
      /\ pending' = pending \ P /\ out' = Told(P, "timeout")
      /\ Requests' = Requests /\ WayIn' = WayIn
    BY DEF TimeOut, Requests, WayIn
<1>2. P \subseteq Requests /\ Requests \subseteq Lines
    BY Bounds DEF IInv, TypeOK, Requests, Lines
<1>3. /\ \A l \in Lines \ P : out'[l] = out[l]
      /\ \A l \in P : out'[l] = <<"timeout">> /\ out'[l] # <<>>
      /\ out' \in [Lines -> Tellings]
    BY <1>1, <1>2, ToldOfSome
<1>4. \A l \in WayIn \cap Lines : l \notin P
    BY DEF IInv, OneWayIn
<1>5. TypeOK'
    BY <1>1, <1>3 DEF IInv, TypeOK
<1>6. InOrder'
    BY <1>1 DEF IInv, InOrder
<1>7. EofIsLast'
    BY <1>1 DEF IInv, EofIsLast
<1>8. OneWayIn'
    BY <1>1, <1>3, <1>4 DEF IInv, OneWayIn
<1>9. OneAnswer'
    <2>1. working \cup Elements(answers) \cup (Held(sending) \cap Requests) \subseteq Lines
        BY <1>2 DEF IInv, TypeOK
    <2> QED BY <1>1, <1>2, <1>3, <2>1 DEF IInv, OneAnswer, TypeOK
<1>10. NoneLost'
    BY <1>1, <1>2, <1>3 DEF IInv, NoneLost
<1> QED BY <1>5, <1>6, <1>7, <1>8, <1>9, <1>10 DEF IInv

-----------------------------------------------------------------------------
(* The standalone server.                                                   *)

LEMMA DrainKeeps ==
    ASSUME IInv, Drain
    PROVE  IInv'
<1> DEFINE x == Head(queue)
<1>1. /\ UNCHANGED <<kind, stdin, closed, reader, hand, phase, sending, pending, answers, out>>
      /\ phase = "fallback" /\ queue # <<>> /\ x # Eof /\ queue' = Tail(queue)
      /\ forwarded' = Append(forwarded, x) /\ working' = working \cup ({x} \cap Requests)
      /\ Requests' = Requests /\ sending = 0 /\ 0 \notin Requests
    BY DEF Drain, Requests, IInv, InOrder
<1>2. /\ queue' \in Seq(Lines \cup {Eof}) /\ Increasing(queue')
      /\ Elements(queue) = {x} \cup Elements(queue')
      /\ x \in Lines /\ Below({x}, Elements(queue'))
    <2>1. queue \in Seq(Lines \cup {Eof}) /\ Lines \cup {Eof} \subseteq Nat
          /\ Increasing(queue)
        BY Bounds DEF IInv, TypeOK, InOrder
    <2>2. /\ Tail(queue) \in Seq(Lines \cup {Eof}) /\ Increasing(Tail(queue))
          /\ Elements(queue) = {x} \cup Elements(Tail(queue))
          /\ x \in Lines \cup {Eof} /\ Below({x}, Elements(Tail(queue)))
        BY <1>1, <2>1, TakeFirst
    <2> QED BY <1>1, <2>2
<1> HIDE DEF x
<1>3. /\ forwarded' \in Seq(Lines) /\ Increasing(forwarded')
      /\ Elements(forwarded') = Elements(forwarded) \cup {x}
    <2>1. /\ Increasing(forwarded) /\ Below(Elements(forwarded), {x})
          /\ forwarded \in Seq(Lines)
        BY <1>2 DEF IInv, InOrder, TypeOK, Below
    <2>2. x \in Lines /\ Lines \subseteq Nat
        BY <1>2, Bounds
    <2>3. /\ Append(forwarded, x) \in Seq(Lines) /\ Increasing(Append(forwarded, x))
          /\ Elements(Append(forwarded, x)) = Elements(forwarded) \cup {x}
        BY <2>1, <2>2, PutAtEnd
    <2> QED BY <1>1, <2>3
<1>4. x \in WayIn \cap Lines /\ WayIn' \subseteq WayIn
    BY <1>1, <1>2 DEF WayIn
<1>5. x \notin WayIn'
    <2>1. Below({x}, Elements(queue') \cup Held(hand) \cup Elements(stdin))
        BY <1>2 DEF IInv, InOrder, Below
    <2>2. x # 0 /\ x \in Nat
        BY <1>2, Bounds
    <2> QED BY <1>1, <2>1, <2>2 DEF WayIn, Below, Held
<1>6. TypeOK'
    BY <1>1, <1>2, <1>3 DEF IInv, TypeOK
<1>7. InOrder'
    BY <1>1, <1>2, <1>3 DEF IInv, InOrder, Held, Below
<1>8. EofIsLast'
    BY <1>1, <1>2, <1>3 DEF IInv, EofIsLast
<1>9. OneWayIn'
    BY <1>1, <1>4, <1>5, Bounds DEF IInv, OneWayIn
<1>10. OneAnswer'
    BY <1>1, <1>4 DEF IInv, OneAnswer, OneWayIn, Held
<1>11. NoneLost'
    BY <1>1 DEF NoneLost
<1> QED BY <1>6, <1>7, <1>8, <1>9, <1>10, <1>11 DEF IInv

LEMMA ServerAnswersKeeps ==
    ASSUME IInv, NEW l \in Lines, ServerAnswers(l)
    PROVE  IInv'
<1>1. /\ UNCHANGED <<kind, stdin, closed, reader, hand, queue, phase, sending, pending,
                     forwarded, answers>>
      /\ phase = "fallback" /\ l \in working /\ working' = working \ {l}
      /\ out' = Told({l}, "result") /\ Requests' = Requests /\ WayIn' = WayIn
      /\ sending = 0
    BY DEF ServerAnswers, Requests, WayIn, IInv, InOrder
<1>2. l \in Requests /\ out[l] \in {<<>>, <<"timeout">>} /\ l \notin Elements(answers)
      /\ l \notin WayIn
    BY <1>1 DEF IInv, TypeOK, OneAnswer, OneWayIn
<1>3. /\ \A k \in Lines \ {l} : out'[k] = out[k]
      /\ out'[l] # <<>> /\ out' \in [Lines -> Tellings]
    BY <1>1, <1>2, ToldOfSome
<1>4. TypeOK'
    BY <1>1, <1>3 DEF IInv, TypeOK
<1>5. InOrder'
    BY <1>1 DEF IInv, InOrder
<1>6. EofIsLast'
    BY <1>1 DEF IInv, EofIsLast
<1>7. OneWayIn'
    BY <1>1, <1>2, <1>3 DEF IInv, OneWayIn
<1>8. OneAnswer'
    <2>1. working' \cup Elements(answers) \subseteq Lines \ {l}
        <3>1. Requests \subseteq Lines
            BY Bounds DEF IInv, TypeOK, Requests, Lines
        <3> QED BY <1>1, <1>2, <3>1 DEF IInv, TypeOK
    <2>2. pending = {} /\ Held(sending) = {}
        BY <1>1 DEF IInv, OneAnswer, Held
    <2> QED BY <1>1, <1>2, <1>3, <2>1, <2>2 DEF IInv, OneAnswer
<1>9. NoneLost'
    BY <1>1 DEF NoneLost
<1> QED BY <1>4, <1>5, <1>6, <1>7, <1>8, <1>9 DEF IInv
-----------------------------------------------------------------------------
\* The invariant holds of every state of the bridge.
THEOREM Inductive == Spec => []IInv
<1>1. IInv /\ [Next]_vars => IInv'
    <2> SUFFICES ASSUME IInv, [Next]_vars PROVE IInv'
        OBVIOUS
    <2>1. CASE Client
        BY <2>1, IdleKeeps, WriteKeeps DEF Client
    <2>2. CASE Reader
        BY <2>2, ReadLineKeeps, ReadEofKeeps, PutLineKeeps DEF Reader
    <2>3. CASE Session
        BY <2>3, ForwardKeeps, LeaveKeeps, SendKeeps, RelayKeeps DEF Session
    <2>4. CASE Outside
        BY <2>4, ConnectionLostKeeps, LeaveKeeps, SidecarAnswersKeeps DEF Outside
    <2>5. CASE Watchdog
        BY <2>5, TimeOutKeeps DEF Watchdog
    <2>6. CASE Fallback
        BY <2>6, DrainKeeps, LeaveKeeps, ServerAnswersKeeps DEF Fallback
    <2> QED BY <2>1, <2>2, <2>3, <2>4, <2>5, <2>6, IdleKeeps DEF Next
<1> QED BY <1>1, InitEstablishes, PTL DEF Spec

\* No request of the client is lost by a connection that breaks, none is answered
\* twice unless the watchdog had given it up, and lines reach the server once, in
\* the order written (BridgeClient.run and its tasks), for any number of lines,
\* size of the queue and number of reconnections.
THEOREM RequestsKept == Spec => []RequestsAreKept
<1>1. IInv => RequestsAreKept
    <2> SUFFICES ASSUME IInv PROVE RequestsAreKept
        OBVIOUS
    <2>1. RequestsAreAccountedFor
        BY DEF IInv, NoneLost, WayIn, RequestsAreAccountedFor
    <2>2. \A l \in Lines : Len(out[l]) <= 2 /\ (Len(out[l]) = 2 => out[l] = <<"timeout", "result">>)
        <3>1. /\ Len(<<>>) = 0 /\ Len(<<"error">>) = 1 /\ Len(<<"timeout">>) = 1
              /\ Len(<<"result">>) = 1 /\ Len(<<"timeout", "result">>) = 2
            OBVIOUS
        <3>2. \A w \in Tellings : Len(w) <= 2 /\ (Len(w) = 2 => w = <<"timeout", "result">>)
            BY <3>1 DEF Tellings
        <3> QED BY <3>2 DEF IInv, TypeOK
    <2>3. \A l \in Lines : out[l] # <<>> => l \in Requests
        BY DEF IInv, OneAnswer
    <2>4. \A i, j \in DOMAIN forwarded : i < j => forwarded[i] < forwarded[j]
        <3>1. DOMAIN forwarded = 1 .. Len(forwarded)
            BY DEF IInv, TypeOK
        <3> QED BY <3>1 DEF IInv, InOrder, Increasing
    <2> QED BY <2>1, <2>2, <2>3, <2>4 DEF RequestsAreKept, AnswersComeOnce
<1> QED BY <1>1, Inductive, PTL
-----------------------------------------------------------------------------
(***************************************************************************)
(* The lazily built state, for any number of callers, of versions of the   *)
(* workspace and of builds at a time.  The lock of a builder names the one *)
(* caller that builds, whose thread is its own; a thread that is over has  *)
(* that caller to wait for it, so that an invalidation nobody overlaps     *)
(* finds no thread with an old list.                                       *)
(***************************************************************************)
CallerPoints == {"idle", "lock", "build", "wait", "done"}
ThreadPoints == {"unused", "list", "store", "read", "bridge", "over"}
Results == {"none", "built", "failed", "import"}

CallerRecord == [at : CallerPoints, wants : Builder!Builders, build : Nat]
ThreadRecord == [at : ThreadPoints, listed : Nat, result : Results]

BuilderTypeOK ==
    /\ disk \in Nat /\ promised = disk
    /\ value \in [Builder!Builders -> Nat] /\ building \in [Builder!Builders -> BOOLEAN]
    /\ lock \in [Builder!Builders -> Callers \cup {Builder!Nobody}]
    /\ caller \in [Callers -> CallerRecord]
    /\ thread \in [Builder!Builds -> ThreadRecord]
    /\ files \in Nat

BuildOf(c) == <<caller[c].wants, caller[c].build>>

\* A caller that builds is inside the lock, with a thread of its own.
OneBuilds ==
    \A c \in Callers : caller[c].at = "build" =>
        /\ caller[c].build \in 1 .. MaxBuilds
        /\ lock[caller[c].wants] = c
        /\ thread[BuildOf(c)].at # "unused"

\* What is over is kept for a caller that waits for it.
OverIsAwaited ==
    \A t \in Builder!Builds : thread[t].at = "over" =>
        \E c \in Callers : caller[c].at = "build" /\ BuildOf(c) = t

\* No thread has listed the files of an older workspace.
ListsAreFresh ==
    ~overlapped =>
        /\ files \in {0, disk} /\ names \in {0, disk}
        /\ \A b \in Builder!Builders : value[b] \in {0, disk}
        /\ \A t \in Builder!Builds : thread[t].at \in {"store", "read", "bridge", "over"} =>
                                 thread[t].listed = disk

BuilderInv == BuilderTypeOK /\ OneBuilds /\ OverIsAwaited /\ ListsAreFresh /\ Builder!FlagIsHeld
-----------------------------------------------------------------------------
LEMMA BuilderInit == Builder!Init => BuilderInv
BY DEF Builder!Init, BuilderInv, BuilderTypeOK, OneBuilds, OverIsAwaited, ListsAreFresh,
       Builder!FlagIsHeld, Builder!Unasked, Builder!Unused, Builder!Builders,
       CallerPoints, ThreadPoints, Results, CallerRecord, ThreadRecord

\* A caller that does not build moves to where it does not, or stays.
LEMMA OtherCallersKeep ==
    ASSUME BuilderInv, NEW c \in Callers, caller[c].at # "build", caller'[c].at # "build",
           \A d \in Callers \ {c} : caller'[d] = caller[d],
           caller' \in [Callers -> CallerRecord],
           UNCHANGED <<disk, promised, files, names, value, building, lock, thread, overlapped>>
    PROVE  BuilderInv'
<1>1. \A d \in Callers : caller[d].at = "build" <=> caller'[d].at = "build"
    OBVIOUS
<1>2. \A d \in Callers : caller[d].at = "build" => caller'[d] = caller[d] /\ BuildOf(d)' = BuildOf(d)
    BY DEF BuildOf
<1>3. BuilderTypeOK'
    BY DEF BuilderInv, BuilderTypeOK
<1>4. OneBuilds' /\ OverIsAwaited'
    BY <1>1, <1>2 DEF BuilderInv, OneBuilds, OverIsAwaited
<1>5. ListsAreFresh' /\ Builder!FlagIsHeld'
    BY DEF BuilderInv, ListsAreFresh, Builder!FlagIsHeld
<1> QED BY <1>3, <1>4, <1>5 DEF BuilderInv

LEMMA AskingKeeps ==
    ASSUME BuilderInv, NEW c \in Callers,
           \/ \E b \in Builder!Builders : Builder!Ask(c, b) \/ Builder!AskOrWait(c, b)
           \/ Builder!WaitOver(c) \/ Builder!AskAgain(c)
    PROVE  BuilderInv'
<1> DEFINE Moved == /\ caller[c].at # "build" /\ caller'[c].at # "build"
                    /\ \A d \in Callers \ {c} : caller'[d] = caller[d]
                    /\ caller' \in [Callers -> CallerRecord]
<1> USE DEF BuilderInv, BuilderTypeOK, CallerPoints, CallerRecord
<1>1. ASSUME NEW b \in Builder!Builders, Builder!Ask(c, b) PROVE Moved
    <2> DEFINE asked == [caller[c] EXCEPT !.wants = b]
    <2>1. \A p \in CallerPoints : /\ [asked EXCEPT !.at = p] \in CallerRecord
                               /\ [asked EXCEPT !.at = p].at = p
        OBVIOUS
    <2>2. \E p \in {"done", "lock"} : caller' = [caller EXCEPT ![c] = [asked EXCEPT !.at = p]]
        BY <1>1 DEF Builder!Ask, Builder!Moves
    <2>3. PICK p \in {"done", "lock"} : caller' = [caller EXCEPT ![c] = [asked EXCEPT !.at = p]]
        BY <2>2
    <2> DEFINE r == [asked EXCEPT !.at = p]
    <2>4. r \in CallerRecord /\ r.at = p
        BY <2>1
    <2>5. caller[c].at = "idle"
        BY <1>1 DEF Builder!Ask
    <2> HIDE DEF r
    <2> QED BY <2>3, <2>4, <2>5 DEF r
<1>2. ASSUME NEW b \in Builder!Builders, Builder!AskOrWait(c, b) PROVE Moved
    BY <1>2 DEF Builder!AskOrWait, Builder!Moves
<1>3. ASSUME Builder!WaitOver(c) PROVE Moved
    BY <1>3 DEF Builder!WaitOver, Builder!Done, Builder!Moves
<1>4. ASSUME Builder!AskAgain(c) PROVE Moved
    <2>1. Builder!Unasked \in CallerRecord /\ Builder!Unasked.at # "build"
        BY DEF Builder!Unasked, Builder!Builders
    <2>2. "graph" \in Builder!Builders
        BY DEF Builder!Builders
    <2>3. [caller[c] EXCEPT !.at = "lock", !.wants = "graph"]
              \in CallerRecord
        BY <2>2
    <2>4. [caller[c] EXCEPT !.wants = "graph"]
              \in CallerRecord
        BY <2>2
    <2>5. caller[c].at = "done"
        BY <1>4 DEF Builder!AskAgain
    <2>6. CASE caller' = [caller EXCEPT ![c] = Builder!Unasked]
        BY <2>1, <2>5, <2>6
    <2>7. CASE caller' = [caller EXCEPT ![c] = [caller[c] EXCEPT !.wants = "graph"]]
        BY <2>4, <2>5, <2>7
    <2>8. CASE caller' = [caller EXCEPT ![c] = [caller[c] EXCEPT !.at = "lock", !.wants = "graph"]]
        BY <2>3, <2>5, <2>8
    <2> QED BY <1>4, <2>6, <2>7, <2>8 DEF Builder!AskAgain, Builder!Moves
<1>5. UNCHANGED <<disk, promised, files, names, value, building, lock, thread, overlapped>>
    BY DEF Builder!Ask, Builder!AskOrWait, Builder!WaitOver, Builder!AskAgain
<1> QED BY <1>1, <1>2, <1>3, <1>4, <1>5, OtherCallersKeep

\* The lock admits one caller, which starts a thread that was unused.
LEMMA AcquireKeeps ==
    ASSUME Builder!Nobody \notin Callers, BuilderInv, NEW c \in Callers, Builder!Acquire(c)
    PROVE  BuilderInv'
<1> DEFINE b == caller[c].wants
<1> USE DEF BuilderInv, BuilderTypeOK
<1>1. /\ caller[c].at = "lock" /\ lock[b] = Builder!Nobody /\ b \in Builder!Builders
      /\ UNCHANGED <<disk, promised, files, names, value, overlapped>>
    BY DEF Builder!Acquire, CallerRecord
<1>2. CASE Builder!Moves(c, Builder!Done(c)) /\ UNCHANGED <<building, lock, thread>>
    <2>1. /\ caller' \in [Callers -> CallerRecord] /\ caller'[c].at # "build"
          /\ \A d \in Callers \ {c} : caller'[d] = caller[d]
        BY <1>2 DEF Builder!Moves, Builder!Done, CallerRecord, CallerPoints
    <2> QED BY <1>1, <1>2, <2>1, OtherCallersKeep
<1>3. CASE \E n \in 1 .. MaxBuilds :
               /\ thread[<<b, n>>].at = "unused"
               /\ thread' = [thread EXCEPT ![<<b, n>>].at = "list"]
               /\ building' = [building EXCEPT ![b] = TRUE]
               /\ lock' = [lock EXCEPT ![b] = c]
               /\ Builder!Moves(c, [caller[c] EXCEPT !.at = "build", !.build = n])
    <2>1. PICK n \in 1 .. MaxBuilds :
               /\ thread[<<b, n>>].at = "unused"
               /\ thread' = [thread EXCEPT ![<<b, n>>].at = "list"]
               /\ building' = [building EXCEPT ![b] = TRUE]
               /\ lock' = [lock EXCEPT ![b] = c]
               /\ Builder!Moves(c, [caller[c] EXCEPT !.at = "build", !.build = n])
        BY <1>3
    <2>2. <<b, n>> \in Builder!Builds /\ n \in Nat
        BY <1>1 DEF Builder!Builds
    <2>3. /\ caller' \in [Callers -> CallerRecord]
          /\ caller'[c].at = "build" /\ caller'[c].wants = b /\ caller'[c].build = n
          /\ \A d \in Callers \ {c} : caller'[d] = caller[d]
        BY <2>1, <2>2 DEF Builder!Moves, CallerRecord, CallerPoints
    <2>4. /\ thread' \in [Builder!Builds -> ThreadRecord] /\ thread'[<<b, n>>].at = "list"
          /\ \A t \in Builder!Builds \ {<<b, n>>} : thread'[t] = thread[t]
        BY <2>1, <2>2 DEF ThreadRecord, ThreadPoints
    <2>5. BuilderTypeOK'
        BY <1>1, <2>1, <2>3, <2>4
    <2>6. \A d \in Callers : caller[d].at = "build" =>
              d # c /\ caller'[d] = caller[d] /\ caller[d].wants # b
        BY <1>1, <2>3 DEF OneBuilds
    <2>7. OneBuilds'
        <3>1. ASSUME NEW d \in Callers, caller'[d].at = "build", d # c
              PROVE  /\ caller'[d].build \in 1 .. MaxBuilds
                     /\ lock'[caller'[d].wants] = d
                     /\ thread'[BuildOf(d)'].at # "unused"
            <4>1. /\ caller'[d] = caller[d] /\ caller[d].wants # b /\ caller[d].wants \in Builder!Builders
                BY <2>3, <2>6, <3>1 DEF CallerRecord
            <4>2. /\ caller[d].build \in 1 .. MaxBuilds /\ lock[caller[d].wants] = d
                  /\ thread[BuildOf(d)].at # "unused"
                BY <3>1, <4>1 DEF OneBuilds
            <4>3. BuildOf(d) \in Builder!Builds \ {<<b, n>>} /\ BuildOf(d)' = BuildOf(d)
                BY <4>1, <4>2 DEF BuildOf, Builder!Builds
            <4> QED BY <2>1, <2>4, <4>1, <4>2, <4>3
        <3>2. /\ lock'[b] = c /\ BuildOf(c)' = <<b, n>>
            BY <1>1, <2>1, <2>3 DEF BuildOf
        <3> QED BY <2>3, <2>4, <3>1, <3>2 DEF OneBuilds
    <2>8. OverIsAwaited'
        <3>1. \A d \in Callers : caller[d].at = "build" => BuildOf(d)' = BuildOf(d)
            BY <2>6 DEF BuildOf
        <3> QED BY <2>4, <2>6, <3>1 DEF OverIsAwaited
    <2>9. ListsAreFresh'
        BY <1>1, <2>4 DEF ListsAreFresh
    <2>10. Builder!FlagIsHeld'
        BY <1>1, <2>1 DEF Builder!FlagIsHeld
    <2> QED BY <2>5, <2>7, <2>8, <2>9, <2>10
<1> QED BY <1>2, <1>3 DEF Builder!Acquire

\* A caller that leaves the lock takes the flag with it.  Its thread is over
\* and freed, or goes on without anybody to wait for it.
LEMMA LeavingKeeps ==
    ASSUME Builder!Nobody \notin Callers, BuilderInv, NEW c \in Callers,
           Builder!Returned(c) \/ Builder!TimeOut(c)
    PROVE  BuilderInv'
<1> DEFINE b == caller[c].wants
<1> USE DEF BuilderInv, BuilderTypeOK
<1>1. /\ caller[c].at = "build" /\ b \in Builder!Builders /\ caller[c].build \in 1 .. MaxBuilds
      /\ BuildOf(c) \in Builder!Builds
      /\ UNCHANGED <<disk, promised, files, names, overlapped>>
      /\ building' = [building EXCEPT ![b] = FALSE] /\ lock' = [lock EXCEPT ![b] = Builder!Nobody]
      /\ caller' = [caller EXCEPT ![c] = Builder!Done(c)]
    BY DEF Builder!Returned, Builder!TimeOut, Builder!Leave, Builder!Moves, CallerRecord, OneBuilds, BuildOf, Builder!Builds
<1>2. /\ caller' \in [Callers -> CallerRecord] /\ caller'[c].at = "done"
      /\ \A d \in Callers \ {c} : caller'[d] = caller[d]
    BY <1>1 DEF Builder!Done, CallerRecord, CallerPoints
<1>3. /\ thread' = thread /\ thread[BuildOf(c)].at # "over" /\ value' = value
      \/ /\ thread' = [thread EXCEPT ![BuildOf(c)] = Builder!Unused]
         /\ thread[BuildOf(c)].at = "over"
         /\ value' = value \/ value' = [value EXCEPT ![b] = thread[BuildOf(c)].listed]
    BY DEF Builder!Returned, Builder!TimeOut, BuildOf
<1>4. /\ thread' \in [Builder!Builds -> ThreadRecord]
      /\ thread'[BuildOf(c)].at # "over"
      /\ \A t \in Builder!Builds \ {BuildOf(c)} : thread'[t] = thread[t]
      /\ \A t \in Builder!Builds : thread'[t] = thread[t] \/ thread'[t].at = "unused"
    BY <1>1, <1>3 DEF Builder!Unused, ThreadRecord, ThreadPoints, Results
<1>5. ASSUME NEW d \in Callers, caller[d].at = "build", d # c
      PROVE  /\ BuildOf(d)' = BuildOf(d) /\ BuildOf(d) # BuildOf(c) /\ caller[d].wants # b
             /\ BuildOf(d) \in Builder!Builds
    <2>1. lock[caller[d].wants] = d /\ lock[b] = c /\ caller[d].build \in 1 .. MaxBuilds
        BY <1>1, <1>5 DEF OneBuilds
    <2> QED BY <1>2, <1>5, <2>1 DEF BuildOf, Builder!Builds, CallerRecord
<1>6. thread[BuildOf(c)].listed \in Nat
    BY <1>1 DEF ThreadRecord
<1>7. BuilderTypeOK'
    <2>1. value' \in [Builder!Builders -> Nat]
        BY <1>1, <1>3, <1>6
    <2> QED BY <1>1, <1>2, <1>4, <2>1
<1>8. OneBuilds'
    <2> SUFFICES ASSUME NEW d \in Callers, caller'[d].at = "build"
                 PROVE  /\ caller'[d].build \in 1 .. MaxBuilds
                        /\ lock'[caller'[d].wants] = d
                        /\ thread'[BuildOf(d)'].at # "unused"
        BY DEF OneBuilds
    <2>1. d # c /\ caller'[d] = caller[d] /\ caller[d].at = "build"
        BY <1>2
    <2>2. /\ caller[d].build \in 1 .. MaxBuilds /\ lock[caller[d].wants] = d
          /\ thread[BuildOf(d)].at # "unused" /\ caller[d].wants \in Builder!Builders
        BY <2>1 DEF OneBuilds, CallerRecord
    <2> QED BY <1>1, <1>4, <1>5, <2>1, <2>2
<1>9. OverIsAwaited'
    <2> SUFFICES ASSUME NEW t \in Builder!Builds, thread'[t].at = "over"
                 PROVE  \E d \in Callers : caller'[d].at = "build" /\ BuildOf(d)' = t
        BY DEF OverIsAwaited
    <2>1. thread[t].at = "over" /\ t # BuildOf(c)
        BY <1>4
    <2>2. PICK d \in Callers : caller[d].at = "build" /\ BuildOf(d) = t
        BY <2>1 DEF OverIsAwaited
    <2> QED BY <1>2, <1>5, <2>1, <2>2
<1>10. ListsAreFresh'
    <2>1. ~overlapped => \A a \in Builder!Builders : value'[a] \in {0, disk}
        BY <1>1, <1>3 DEF ListsAreFresh
    <2> QED BY <1>1, <1>4, <2>1 DEF ListsAreFresh
<1>11. Builder!FlagIsHeld'
    BY <1>1 DEF Builder!FlagIsHeld
<1> QED BY <1>7, <1>8, <1>9, <1>10, <1>11

\* What a step of a thread must leave: its caller, if there is one, and lists of
\* this workspace.
LEMMA ThreadsKeep ==
    ASSUME BuilderInv, NEW t \in Builder!Builds, NEW r \in ThreadRecord, Builder!Runs(t, r),
           UNCHANGED <<disk, promised, value, building, lock, caller, overlapped>>,
           files' \in Nat, ~overlapped => files' \in {0, disk} /\ names' \in {0, disk},
           r.at = "unused" => \A c \in Callers : caller[c].at = "build" => BuildOf(c) # t,
           r.at = "over" => \E c \in Callers : caller[c].at = "build" /\ BuildOf(c) = t,
           ~overlapped /\ r.at \in {"store", "read", "bridge", "over"} => r.listed = disk
    PROVE  BuilderInv'
<1> USE DEF BuilderInv, BuilderTypeOK
<1>1. /\ thread' \in [Builder!Builds -> ThreadRecord] /\ thread'[t] = r
      /\ \A u \in Builder!Builds \ {t} : thread'[u] = thread[u]
    BY DEF Builder!Runs
<1>2. \A c \in Callers : BuildOf(c)' = BuildOf(c)
    BY DEF BuildOf
<1>3. \A c \in Callers : caller[c].at = "build" => BuildOf(c) \in Builder!Builds
    BY DEF OneBuilds, BuildOf, Builder!Builds, CallerRecord
<1>4. BuilderTypeOK'
    BY <1>1
<1>5. OneBuilds'
    BY <1>1, <1>2, <1>3 DEF OneBuilds
<1>6. OverIsAwaited'
    BY <1>1, <1>2 DEF OverIsAwaited
<1>7. ListsAreFresh' /\ Builder!FlagIsHeld'
    BY <1>1 DEF ListsAreFresh, Builder!FlagIsHeld
<1> QED BY <1>4, <1>5, <1>6, <1>7

\* What is left of a thread that is over.
LEMMA OverLeaves ==
    ASSUME BuilderInv, NEW t \in Builder!Builds, NEW w \in Results
    PROVE  /\ Builder!Over(t, w) \in ThreadRecord
           /\ Builder!Over(t, w).at \in {"unused", "over"}
           /\ Builder!Over(t, w).at = "unused" =>
                  \A c \in Callers : caller[c].at = "build" => BuildOf(c) # t
           /\ Builder!Over(t, w).at = "over" =>
                  /\ \E c \in Callers : caller[c].at = "build" /\ BuildOf(c) = t
                  /\ Builder!Over(t, w).listed = thread[t].listed
<1>1. CASE \E c \in Callers : caller[c].at = "build" /\ BuildOf(c) = t
    <2>1. Builder!Over(t, w) = [thread[t] EXCEPT !.at = "over", !.result = w]
        BY <1>1 DEF Builder!Over, BuildOf
    <2>2. /\ Builder!Over(t, w) \in ThreadRecord /\ Builder!Over(t, w).at = "over"
          /\ Builder!Over(t, w).listed = thread[t].listed
        <3>1. thread[t] \in ThreadRecord
            BY DEF BuilderInv, BuilderTypeOK
        <3> QED BY <2>1, <3>1 DEF ThreadRecord, ThreadPoints
    <2> QED BY <1>1, <2>2
<1>2. CASE ~ \E c \in Callers : caller[c].at = "build" /\ BuildOf(c) = t
    <2>1. Builder!Over(t, w) = Builder!Unused
        BY <1>2 DEF Builder!Over, BuildOf
    <2> QED BY <1>2, <2>1 DEF Builder!Unused, ThreadRecord, ThreadPoints, Results
<1> QED BY <1>1, <1>2

LEMMA ThreadStepKeeps ==
    ASSUME BuilderInv, NEW t \in Builder!Builds, Builder!ThreadStep(t)
    PROVE  BuilderInv'
<1> USE DEF BuilderInv, BuilderTypeOK
<1>1. /\ UNCHANGED <<disk, promised, value, building, lock, caller, overlapped>>
      /\ thread[t] \in ThreadRecord
    BY DEF Builder!ThreadStep, Builder!ListFiles, Builder!StoreList, Builder!ReadFiles, Builder!Bridge
<1>2. CASE Builder!ListFiles(t)
    <2> DEFINE r(p, v) == [thread[t] EXCEPT !.at = p, !.listed = v]
    <2>1. \A p \in {"read", "store"}, v \in Nat :
              r(p, v) \in ThreadRecord /\ r(p, v).at = p /\ r(p, v).listed = v
        BY <1>1 DEF ThreadRecord, ThreadPoints
    <2>2. UNCHANGED <<files, names>>
        BY <1>2 DEF Builder!ListFiles
    <2> HIDE DEF r
    <2>3. CASE files # 0 /\ Builder!Runs(t, r("read", files))
        <3>1. /\ r("read", files) \in ThreadRecord /\ r("read", files).at = "read"
              /\ r("read", files).listed = files
            BY <2>1
        <3> QED BY <1>1, <2>2, <2>3, <3>1, ThreadsKeep DEF ListsAreFresh
    <2>4. CASE Builder!Runs(t, r("store", disk))
        <3>1. /\ r("store", disk) \in ThreadRecord /\ r("store", disk).at = "store"
              /\ r("store", disk).listed = disk
            BY <2>1
        <3> QED BY <1>1, <2>2, <2>4, <3>1, ThreadsKeep DEF ListsAreFresh
    <2> QED BY <1>2, <2>3, <2>4 DEF Builder!ListFiles, r
<1>3. CASE Builder!StoreList(t)
    <2> DEFINE r == [thread[t] EXCEPT !.at = "read"]
    <2>1. r \in ThreadRecord /\ r.at = "read" /\ r.listed = thread[t].listed
        BY <1>1 DEF ThreadRecord, ThreadPoints
    <2>2. /\ thread[t].at = "store" /\ files' = thread[t].listed /\ names' = names /\ Builder!Runs(t, r)
          /\ thread[t].listed \in Nat
        BY <1>1, <1>3 DEF Builder!StoreList, ThreadRecord
    <2> HIDE DEF r
    <2> QED BY <1>1, <2>1, <2>2, ThreadsKeep DEF ListsAreFresh
<1>4. CASE Builder!ReadFiles(t)
    <2>1. PICK w \in Results :
              /\ names' = IF names = 0 /\ files # 0 THEN files ELSE names
              /\ \/ Builder!Runs(t, [thread[t] EXCEPT !.at = "bridge", !.result = w])
                 \/ Builder!Runs(t, Builder!Over(t, w))
        BY <1>4 DEF Builder!ReadFiles, Results
    <2>2. /\ thread[t].at = "read" /\ files' = files
          /\ ~overlapped => names' \in {0, disk} /\ thread[t].listed = disk
        BY <1>4, <2>1 DEF Builder!ReadFiles, ListsAreFresh
    <2>3. CASE Builder!Runs(t, Builder!Over(t, w))
        BY <1>1, <2>2, <2>3, OverLeaves, ThreadsKeep DEF ListsAreFresh
    <2>4. CASE Builder!Runs(t, [thread[t] EXCEPT !.at = "bridge", !.result = w])
        <3> DEFINE r == [thread[t] EXCEPT !.at = "bridge", !.result = w]
        <3>1. r \in ThreadRecord /\ r.at = "bridge" /\ r.listed = thread[t].listed
            BY <1>1 DEF ThreadRecord, ThreadPoints
        <3> HIDE DEF r
        <3>2. Builder!Runs(t, r)
            BY <2>4 DEF r
        <3> QED BY <1>1, <2>2, <3>1, <3>2, ThreadsKeep DEF ListsAreFresh
    <2> QED BY <2>1, <2>3, <2>4
<1>5. CASE Builder!Bridge(t)
    <2>1. /\ thread[t].at = "bridge" /\ UNCHANGED <<files, names>> /\ "built" \in Results
          /\ Builder!Runs(t, Builder!Over(t, "built"))
        BY <1>5 DEF Builder!Bridge, Results
    <2> QED BY <1>1, <2>1, OverLeaves, ThreadsKeep DEF ListsAreFresh
<1> QED BY <1>2, <1>3, <1>4, <1>5 DEF Builder!ThreadStep

\* An invalidation that finds nothing under way leaves no list of an older
\* workspace; the lock and its caller stay as they are.
LEMMA OthersKeep ==
    ASSUME BuilderInv,
           \/ Builder!InvalidateCaches \/ Builder!LookUpName
           \/ (\E b \in Builder!Builders : Builder!CoolDown(b))
           \/ UNCHANGED Builder!vars
    PROVE  BuilderInv'
<1> USE DEF BuilderInv, BuilderTypeOK
<1>1. CASE Builder!InvalidateCaches
    <2>1. /\ disk' = disk + 1 /\ promised' = disk + 1 /\ files' = 0 /\ names' = 0
          /\ value' = [b \in Builder!Builders |-> 0] /\ building' = [b \in Builder!Builders |-> FALSE]
          /\ UNCHANGED <<lock, caller, thread>>
          /\ overlapped' = (overlapped \/ Builder!UnderWay \/ Builder!Late)
        BY <1>1 DEF Builder!InvalidateCaches
    <2>2. \A c \in Callers : BuildOf(c)' = BuildOf(c)
        BY <2>1 DEF BuildOf
    <2>3. ASSUME ~overlapped', NEW t \in Builder!Builds PROVE thread[t].at = "unused"
        <3>1. thread[t].at \in {"unused", "over"}
            BY <2>1, <2>3 DEF Builder!UnderWay
        <3>2. thread[t].at # "over"
            BY <2>1, <2>3 DEF Builder!Late, OverIsAwaited
        <3> QED BY <3>1, <3>2
    <2>4. ListsAreFresh'
        BY <2>1, <2>3 DEF ListsAreFresh
    <2>5. BuilderTypeOK' /\ OneBuilds' /\ OverIsAwaited' /\ Builder!FlagIsHeld'
        BY <2>1, <2>2 DEF OneBuilds, OverIsAwaited, Builder!FlagIsHeld
    <2> QED BY <2>4, <2>5
<1>2. CASE Builder!LookUpName \/ (\E b \in Builder!Builders : Builder!CoolDown(b)) \/ UNCHANGED Builder!vars
    <2>1. /\ UNCHANGED <<disk, promised, files, value, building, lock, caller, thread, overlapped>>
          /\ names' \in {files, names}
        BY <1>2 DEF Builder!LookUpName, Builder!CoolDown, Builder!vars
    <2>2. \A c \in Callers : BuildOf(c)' = BuildOf(c)
        BY <2>1 DEF BuildOf
    <2> QED BY <2>1, <2>2 DEF OneBuilds, OverIsAwaited, Builder!FlagIsHeld, ListsAreFresh
<1> QED BY <1>1, <1>2
-----------------------------------------------------------------------------
\* The invariant holds of every state of the builders.
THEOREM BuilderInductive ==
    ASSUME Builder!Nobody \notin Callers
    PROVE  Builder!Spec => []BuilderInv
<1>1. BuilderInv /\ [Builder!Next]_(Builder!vars) => BuilderInv'
    BY AskingKeeps, AcquireKeeps, LeavingKeeps, ThreadStepKeeps, OthersKeep
       DEF Builder!Next, Builder!CallerStep
<1> QED BY <1>1, BuilderInit, PTL DEF Builder!Spec

\* Every cache and every value that a builder of the MCP server hands out was read
\* after the last invalidation, unless a build overlapped one, and the flag that a
\* build is under way is set only while a caller is inside the lock
\* (LazyAsyncBuilder.get and McpServerState.invalidate_caches), for any number of
\* callers, versions and builds.  The name that stands for nobody is no caller's.
THEOREM BuildersRight ==
    ASSUME Builder!Nobody \notin Callers
    PROVE  Builder!Spec => []BuildersAreRight
<1>1. BuilderInv => BuildersAreRight
    <2> SUFFICES ASSUME BuilderInv PROVE BuildersAreRight
        OBVIOUS
    <2>1. promised .. disk = {disk}
        BY DEF BuilderInv, BuilderTypeOK
    <2> QED BY <2>1 DEF BuilderInv, ListsAreFresh, BuildersAreRight, Builder!BuildersAreRight,
                        Builder!CachesAreFresh
<1> QED BY <1>1, BuilderInductive, PTL
=============================================================================
