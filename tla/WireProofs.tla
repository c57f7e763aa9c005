----------------------------- MODULE WireProofs -----------------------------
(***************************************************************************)
(* Proofs about Wire: its types, for clients of any kind; and for a pooled *)
(* client with short requests, any number of calls and a connection that   *)
(* may break, that calls and replies stay together.                        *)
(***************************************************************************)
EXTENDS Wire, SequenceTheorems, TLAPS

\* What is in the sequences when N calls have been made.
CallsOf(N) == [by : Callers, kind : Kinds, result : Results,
               heard : SUBSET (1..N), runs : Nat, torn : BOOLEAN]
PiecesOf(N) == [of : 1..N, index : Nat, last : BOOLEAN]
LinesOf(N) == [of : 1..N, marker : BOOLEAN]

\* TypeOK, and the types of what it leaves out.
Types ==
    /\ calls \in Seq(CallsOf(Len(calls)))
    /\ upstream \in Seq(PiecesOf(Len(calls)))
    /\ response \in Seq(LinesOf(Len(calls)))
    /\ downstream \in Seq(LinesOf(Len(calls)))
    /\ session \in {"reading", "writing", "gone"}
    /\ session = "writing" <=> response # <<>>
    /\ up \in BOOLEAN /\ (up <=> session # "gone")

\* The client of a pool, and requests that fit the session's buffer.
Pooled == ~Shared /\ MaxPieces = 1

\* The lines of a reply to the last call, or what is left of it.
Answers(lines) ==
    lines # <<>> =>
        /\ calls[Len(calls)].runs = 1
        /\ calls[Len(calls)].kind # "list" => Len(lines) = 1
        /\ \A i \in 1..Len(lines) :
              /\ lines[i].of = Len(calls)
              /\ lines[i].marker => Len(lines) = 1

\* What has become of the calls.
Fates ==
    \A n \in 1..Len(calls) :
        /\ Pending(n) => n = Len(calls)
        /\ calls[n].runs <= 1 /\ ~calls[n].torn
        /\ calls[n].heard \subseteq {n}
        /\ calls[n].result = "answered" => calls[n].runs = 1

\* The request or the reply of the last call is in one place at most, and
\* gone when the call has ended.
OnePlace ==
    /\ Idle => upstream = <<>> /\ response = <<>> /\ downstream = <<>>
    /\ up \/ upstream = <<>>
    /\ response # <<>> => downstream = <<>>
    /\ upstream # <<>> =>
          /\ response = <<>> /\ downstream = <<>>
          /\ Len(upstream) = 1
          /\ upstream[1] = Piece(Len(calls), 1, 1)
          /\ calls[Len(calls)].runs = 0

Together == Fates /\ OnePlace /\ Answers(response) /\ Answers(downstream)

Inv == Types /\ (Pooled => Together)

(***************************************************************************)
(* Sequences                                                               *)
(***************************************************************************)

LEMMA ElementsType ==
    ASSUME NEW S, NEW T, NEW s \in Seq(S), \A i \in 1..Len(s) : s[i] \in T
    PROVE  s \in Seq(T)
OBVIOUS

\* With more calls the sequences keep their types.
LEMMA TypesGrow ==
    ASSUME NEW N \in Nat
    PROVE  /\ \A s \in Seq(PiecesOf(N)) : s \in Seq(PiecesOf(N + 1))
           /\ \A s \in Seq(LinesOf(N)) : s \in Seq(LinesOf(N + 1))
           /\ \A s \in Seq(CallsOf(N)) : s \in Seq(CallsOf(N + 1))
<1>1. ASSUME NEW s \in Seq(PiecesOf(N)), NEW i \in 1..Len(s)
      PROVE  s[i] \in PiecesOf(N + 1)
    <2>1. s[i] \in PiecesOf(N)
        OBVIOUS
    <2> QED
        BY <2>1 DEF PiecesOf
<1>2. ASSUME NEW s \in Seq(LinesOf(N)), NEW i \in 1..Len(s)
      PROVE  s[i] \in LinesOf(N + 1)
    <2>1. s[i] \in LinesOf(N)
        OBVIOUS
    <2> QED
        BY <2>1 DEF LinesOf
<1>3. ASSUME NEW s \in Seq(CallsOf(N)), NEW i \in 1..Len(s)
      PROVE  s[i] \in CallsOf(N + 1)
    <2>1. s[i] \in CallsOf(N)
        OBVIOUS
    <2>2. SUBSET (1..N) \subseteq SUBSET (1..(N + 1))
        OBVIOUS
    <2> QED
        BY <2>1, <2>2 DEF CallsOf
<1> QED
    BY <1>1, <1>2, <1>3, ElementsType

\* A call is changed in its place.
LEMMA CallChanges ==
    ASSUME NEW N \in Nat, calls \in Seq(CallsOf(N)), NEW n \in 1..Len(calls),
           NEW c \in CallsOf(N), calls' = [calls EXCEPT ![n] = c]
    PROVE  /\ calls' \in Seq(CallsOf(N)) /\ Len(calls') = Len(calls)
           /\ calls'[n] = c
           /\ \A m \in (1..Len(calls)) \ {n} : calls'[m] = calls[m]
OBVIOUS

\* The first m elements of a sequence and the others.
LEMMA CutType ==
    ASSUME NEW S, NEW s \in Seq(S), NEW m \in 0..Len(s)
    PROVE  /\ SubSeq(s, 1, m) \in Seq(S) /\ Len(SubSeq(s, 1, m)) = m
           /\ \A i \in 1..m : SubSeq(s, 1, m)[i] = s[i]
           /\ SubSeq(s, m + 1, Len(s)) \in Seq(S)
           /\ Len(SubSeq(s, m + 1, Len(s))) = Len(s) - m
<1>1. m \in Nat /\ Len(s) \in Nat /\ \A i \in 1..Len(s) : s[i] \in S
    OBVIOUS
<1>2. \A i \in 1..m : s[i] \in S
    BY <1>1
<1>3. \A i \in (m + 1)..Len(s) : s[i] \in S
    BY <1>1
<1> QED
    BY <1>1, <1>2, <1>3, SubSeqProperties

-----------------------------------------------------------------------------
LEMMA InitTypes ==
    ASSUME WireAssumption, Init
    PROVE  Types
BY DEF Init, Types

\* What the session reads becomes a reply, of one line or more.
LEMMA HandleFacts ==
    ASSUME WireAssumption, Types, NEW m \in 1..Len(upstream)
    PROVE  LET read == SubSeq(upstream, 1, m)
               n == Head(read).of IN
           /\ Len(read) = m /\ Head(read) = upstream[1] /\ Last(read) = upstream[m]
           /\ n \in 1..Len(calls)
           /\ SubSeq(upstream, m + 1, Len(upstream)) \in Seq(PiecesOf(Len(calls)))
           /\ \A r \in Replies(read) :
                 /\ r \in Seq(LinesOf(Len(calls))) /\ r # <<>>
                 /\ calls[n].kind # "list" => Len(r) = 1
                 /\ \A i \in 1..Len(r) : r[i].of = n /\ (r[i].marker => Len(r) = 1)
<1> DEFINE read == SubSeq(upstream, 1, m)
           n == Head(read).of
<1>1. /\ read \in Seq(PiecesOf(Len(calls))) /\ Len(read) = m
      /\ \A i \in 1..m : read[i] = upstream[i]
      /\ SubSeq(upstream, m + 1, Len(upstream)) \in Seq(PiecesOf(Len(calls)))
    BY CutType DEF Types
<1>2. Head(read) = upstream[1] /\ Last(read) = upstream[m]
    BY <1>1 DEF Last
<1>3. n \in 1..Len(calls)
    <2>1. upstream[1] \in PiecesOf(Len(calls)) /\ n = upstream[1].of
        BY <1>2 DEF Types
    <2> HIDE DEF read, n
    <2> QED
        BY <2>1 DEF PiecesOf
<1> HIDE DEF read, n
<1>4. \A b \in BOOLEAN : Line(n, b) \in LinesOf(Len(calls)) /\ Line(n, b).of = n
                         /\ (Line(n, b).marker <=> b)
    BY <1>3 DEF Line, LinesOf
<1>5. ASSUME NEW r \in Replies(read)
      PROVE  /\ r \in Seq(LinesOf(Len(calls))) /\ r # <<>>
             /\ calls[n].kind # "list" => Len(r) = 1
             /\ \A i \in 1..Len(r) : r[i].of = n /\ (r[i].marker => Len(r) = 1)
    <2>1. ASSUME NEW b \in BOOLEAN, r = <<Line(n, b)>>
          PROVE  /\ r \in Seq(LinesOf(Len(calls))) /\ Len(r) = 1
                 /\ \A i \in 1..Len(r) : r[i].of = n
        <3> DEFINE x == Line(n, b)
        <3>1. x \in LinesOf(Len(calls)) /\ x.of = n
            BY <1>4
        <3> HIDE DEF x
        <3>2. r = <<x>>
            BY <2>1 DEF x
        <3> QED
            BY <3>1, <3>2
    <2>2. CASE /\ calls[n].kind = "list"
               /\ \E k \in 1..MaxMembers : r = [i \in 1..k |-> Line(n, FALSE)]
        <3>1. PICK k \in 1..MaxMembers : r = [i \in 1..k |-> Line(n, FALSE)]
            BY <2>2
        <3>2. k \in Nat /\ k >= 1
            BY <3>1 DEF WireAssumption
        <3> DEFINE x == Line(n, FALSE)
        <3>3. x \in LinesOf(Len(calls)) /\ x.of = n /\ ~x.marker
            BY <1>4
        <3>4. r = [i \in 1..k |-> x]
            BY <3>1
        <3> HIDE DEF x
        <3>5. r \in Seq(LinesOf(Len(calls))) /\ Len(r) = k /\ \A i \in 1..k : r[i] = x
            BY <3>2, <3>3, <3>4
        <3>6. r # <<>> /\ \A i \in 1..Len(r) : r[i].of = n /\ ~r[i].marker
            BY <3>2, <3>3, <3>5
        <3> QED
            BY <2>2, <3>5, <3>6
    <2>3. \/ r = <<Line(n, TRUE)>> \/ r = <<Line(n, FALSE)>>
          \/ /\ calls[n].kind = "list"
             /\ \E k \in 1..MaxMembers : r = [i \in 1..k |-> Line(n, FALSE)]
        BY <1>5 DEF Replies, n
    <2>4. CASE r = <<Line(n, TRUE)>> \/ r = <<Line(n, FALSE)>>
        <3>1. r \in Seq(LinesOf(Len(calls))) /\ Len(r) = 1 /\ \A i \in 1..Len(r) : r[i].of = n
            BY <2>1, <2>4
        <3>2. r # <<>>
            BY <3>1, EmptySeq
        <3>3. \A i \in 1..Len(r) : r[i].marker => Len(r) = 1
            BY <3>1, Zenon
        <3> QED
            BY <3>1, <3>2, <3>3
    <2> QED
        BY <2>2, <2>3, <2>4
<1> QED
    BY <1>1, <1>2, <1>3, <1>5 DEF read, n

LEMMA RunType ==
    ASSUME NEW N \in Nat, NEW c \in CallsOf(N)
    PROVE  /\ [c EXCEPT !.runs = @ + 1] \in CallsOf(N)
           /\ [c EXCEPT !.torn = TRUE] \in CallsOf(N)
<1> DEFINE C(B) == [by : Callers, kind : Kinds, result : Results,
                    heard : SUBSET (1..N), runs : Nat, torn : B]
<1>1. ASSUME NEW B, c \in C(B)
      PROVE  [c EXCEPT !.runs = @ + 1] \in C(B)
    BY <1>1
<1>2. ASSUME NEW B, NEW b \in B, c \in C(B)
      PROVE  [c EXCEPT !.torn = b] \in C(B)
    BY <1>2
<1>3. CallsOf(N) = C(BOOLEAN)
    BY DEF CallsOf
<1> HIDE DEF C
<1> QED
    BY <1>1, <1>2, <1>3

\* A request is run once more, or torn, or was no command.
LEMMA ExecutedFacts ==
    ASSUME Types, NEW read, Head(read).of \in 1..Len(calls), calls' = Executed(read)
    PROVE  calls' \in Seq(CallsOf(Len(calls))) /\ Len(calls') = Len(calls)
<1> DEFINE n == Head(read).of
<1>1. calls[n] \in CallsOf(Len(calls)) /\ Len(calls) \in Nat
    BY DEF Types
<1> HIDE DEF n
<1>2. /\ [calls[n] EXCEPT !.runs = @ + 1] \in CallsOf(Len(calls))
      /\ [calls[n] EXCEPT !.torn = TRUE] \in CallsOf(Len(calls))
    BY <1>1, RunType
<1>3. \/ calls' = calls
      \/ calls' = [calls EXCEPT ![n] = [calls[n] EXCEPT !.runs = @ + 1]]
      \/ calls' = [calls EXCEPT ![n] = [calls[n] EXCEPT !.torn = TRUE]]
    BY DEF Executed, n
<1>4. n \in 1..Len(calls)
    BY DEF n
<1> QED
    BY <1>1, <1>2, <1>3, <1>4, CallChanges DEF Types

LEMMA HandleTypes ==
    ASSUME WireAssumption, Types, Handle
    PROVE  Types'
<1>1. PICK m \in 1..Len(upstream) :
          LET read == SubSeq(upstream, 1, m) IN
          /\ upstream' = SubSeq(upstream, m + 1, Len(upstream))
          /\ calls' = Executed(read)
          /\ response' \in Replies(read)
    BY DEF Handle
<1>2. calls' \in Seq(CallsOf(Len(calls))) /\ Len(calls') = Len(calls)
    BY <1>1, HandleFacts, ExecutedFacts
<1>3. /\ upstream' \in Seq(PiecesOf(Len(calls)))
      /\ response' \in Seq(LinesOf(Len(calls))) /\ response' # <<>>
    BY <1>1, HandleFacts
<1> QED
    BY <1>2, <1>3 DEF Handle, Types

LEMMA WrittenTypes ==
    ASSUME WireAssumption, Types, Written
    PROVE  Types'
<1>1. downstream \o response \in Seq(LinesOf(Len(calls)))
    BY ConcatProperties DEF Types
<1> QED
    BY <1>1 DEF Written, Types

\* A call that is made, with its request if there is a connection.
LEMMA CallFacts ==
    ASSUME WireAssumption, Types, NEW c \in Callers, NEW k \in Kinds, Call(c, k)
    PROVE  /\ calls' \in Seq(CallsOf(Len(calls) + 1)) /\ Len(calls') = Len(calls) + 1
           /\ calls'[Len(calls) + 1] = Made(c, k)
           /\ \A n \in 1..Len(calls) : calls'[n] = calls[n]
<1>1. Made(c, k) \in CallsOf(Len(calls) + 1)
    BY DEF Made, CallsOf, Results
<1>2. calls \in Seq(CallsOf(Len(calls) + 1))
    BY TypesGrow DEF Types
<1> QED
    BY <1>1, <1>2, AppendProperties DEF Call

LEMMA CallTypes ==
    ASSUME WireAssumption, Types, NEW c \in Callers, NEW k \in Kinds, Call(c, k)
    PROVE  Types'
<1> DEFINE N == Len(calls) + 1
<1>0. Len(calls) \in Nat
    BY DEF Types
<1>1. N \in Nat /\ N >= 1 /\ Len(calls') = N
    <2>1. Len(calls') = N
        BY CallFacts
    <2> QED
        BY <1>0, <2>1
<1> HIDE DEF N
<1>2. PICK p \in 1..MaxPieces :
          upstream' = IF up THEN upstream \o [i \in 1..p |-> Piece(N, i, p)] ELSE upstream
    BY <1>1 DEF Call
<1>3. p \in Nat
    BY <1>2 DEF WireAssumption
<1>4. \A i \in 1..p : Piece(N, i, p) \in PiecesOf(N)
    BY <1>1, <1>3 DEF Piece, PiecesOf
<1>5. [i \in 1..p |-> Piece(N, i, p)] \in Seq(PiecesOf(N))
    BY <1>3, <1>4
<1>6. /\ upstream \in Seq(PiecesOf(N))
      /\ response \in Seq(LinesOf(N)) /\ downstream \in Seq(LinesOf(N))
    BY <1>0, TypesGrow DEF Types, N
<1>7. upstream' \in Seq(PiecesOf(N))
    BY <1>2, <1>5, <1>6, ConcatProperties
<1>8. calls' \in Seq(CallsOf(N))
    BY CallFacts DEF N
<1> QED
    BY <1>1, <1>6, <1>7, <1>8 DEF Call, Types

\* A call takes a line, and has ended or not.
LEMMA ReadLineFacts ==
    ASSUME Types, NEW n \in DOMAIN calls, ReadLine(n)
    PROVE  \E r \in AfterLine(n, Head(downstream)) :
              /\ calls' \in Seq(CallsOf(Len(calls))) /\ Len(calls') = Len(calls)
              /\ calls'[n] = [calls[n] EXCEPT !.result = r,
                                             !.heard = @ \cup {Head(downstream).of}]
              /\ \A m \in (1..Len(calls)) \ {n} : calls'[m] = calls[m]
<1>1. n \in 1..Len(calls) /\ Len(calls) \in Nat /\ calls[n] \in CallsOf(Len(calls))
    BY DEF Types
<1>2. Head(downstream) \in LinesOf(Len(calls))
    BY HeadTailProperties DEF Types, ReadLine
<1>3. PICK r \in AfterLine(n, Head(downstream)) :
          calls' = [calls EXCEPT ![n].result = r, ![n].heard = @ \cup {Head(downstream).of}]
    BY DEF ReadLine
<1> DEFINE c == [calls[n] EXCEPT !.result = r, !.heard = @ \cup {Head(downstream).of}]
<1>4. r \in Results
    BY <1>3 DEF AfterLine, Results
<1>5. c \in CallsOf(Len(calls))
    BY <1>1, <1>2, <1>4 DEF CallsOf, LinesOf
<1>6. calls' = [calls EXCEPT ![n] = c]
    BY <1>3
<1> HIDE DEF c
<1>7. /\ calls' \in Seq(CallsOf(Len(calls))) /\ Len(calls') = Len(calls)
      /\ calls'[n] = c
      /\ \A m \in (1..Len(calls)) \ {n} : calls'[m] = calls[m]
    BY <1>1, <1>5, <1>6, CallChanges DEF Types
<1> QED
    BY <1>3, <1>7 DEF c

LEMMA ReadEndFacts ==
    ASSUME Types, NEW n \in DOMAIN calls, ReadEnd(n)
    PROVE  \E r \in {"threw", "nothing"} :
              /\ calls' \in Seq(CallsOf(Len(calls))) /\ Len(calls') = Len(calls)
              /\ calls'[n] = [calls[n] EXCEPT !.result = r]
              /\ \A m \in (1..Len(calls)) \ {n} : calls'[m] = calls[m]
<1>1. n \in 1..Len(calls) /\ Len(calls) \in Nat /\ calls[n] \in CallsOf(Len(calls))
    BY DEF Types
<1>2. PICK r \in {"threw", "nothing"} : calls' = [calls EXCEPT ![n].result = r]
    BY DEF ReadEnd, AfterEnd
<1> DEFINE c == [calls[n] EXCEPT !.result = r]
<1>3. c \in CallsOf(Len(calls))
    BY <1>1, <1>2 DEF CallsOf, Results
<1>4. calls' = [calls EXCEPT ![n] = c]
    BY <1>2
<1> HIDE DEF c
<1>5. /\ calls' \in Seq(CallsOf(Len(calls))) /\ Len(calls') = Len(calls)
      /\ calls'[n] = c
      /\ \A m \in (1..Len(calls)) \ {n} : calls'[m] = calls[m]
    BY <1>1, <1>3, <1>4, CallChanges DEF Types
<1> QED
    BY <1>2, <1>5 DEF c

LEMMA ReadTypes ==
    ASSUME Types, NEW n \in DOMAIN calls, ReadLine(n) \/ ReadEnd(n)
    PROVE  Types'
<1>1. CASE ReadLine(n)
    <2>1. Tail(downstream) \in Seq(LinesOf(Len(calls)))
        BY <1>1, HeadTailProperties DEF Types, ReadLine
    <2>2. calls' \in Seq(CallsOf(Len(calls))) /\ Len(calls') = Len(calls)
        BY <1>1, ReadLineFacts
    <2> QED
        BY <1>1, <2>1, <2>2 DEF Types, ReadLine
<1>2. CASE ReadEnd(n)
    <2>1. calls' \in Seq(CallsOf(Len(calls))) /\ Len(calls') = Len(calls)
        BY <1>2, ReadEndFacts
    <2> QED
        BY <1>2, <2>1 DEF Types, ReadEnd
<1> QED
    BY <1>1, <1>2

LEMMA DropTypes ==
    ASSUME WireAssumption, Types, Drop
    PROVE  Types'
<1>1. downstream' \in Seq(LinesOf(Len(calls)))
    BY CutType DEF Types, Drop
<1>2. <<>> \in Seq(LinesOf(Len(calls))) /\ <<>> \in Seq(PiecesOf(Len(calls)))
    OBVIOUS
<1>3. calls' = calls /\ upstream' = <<>> /\ response' = <<>> /\ session' = "gone" /\ up' = FALSE
    BY DEF Drop
<1> QED
    BY <1>1, <1>2, <1>3 DEF Types

(***************************************************************************)
(* The pooled client                                                       *)
(***************************************************************************)

\* A call that has not ended is the last one.
LEMMA PendingIsLast ==
    ASSUME Types, Fates, NEW n \in DOMAIN calls, Pending(n)
    PROVE  n = Len(calls) /\ n \in 1..Len(calls) /\ ~Idle
BY DEF Types, Fates, Idle

\* The fate of all calls is that of the last one.
LEMMA LastFate ==
    ASSUME Types, Fates, Len(calls') = Len(calls),
           \A m \in (1..Len(calls)) \ {Len(calls)} : calls'[m] = calls[m],
           LET c == calls'[Len(calls)] IN
               Len(calls) > 0 =>
                   /\ c.runs <= 1 /\ ~c.torn /\ c.heard \subseteq {Len(calls)}
                   /\ c.result = "answered" => c.runs = 1
    PROVE  Fates'
<1>1. Len(calls) \in Nat
    BY DEF Types
<1> SUFFICES ASSUME NEW n \in 1..Len(calls)
             PROVE  /\ calls'[n].result = "pending" => n = Len(calls)
                    /\ calls'[n].runs <= 1 /\ ~calls'[n].torn
                    /\ calls'[n].heard \subseteq {n}
                    /\ calls'[n].result = "answered" => calls'[n].runs = 1
    BY DEF Fates, Pending
<1>2. CASE n = Len(calls)
    BY <1>1, <1>2
<1>3. CASE n # Len(calls)
    BY <1>3 DEF Fates, Pending
<1> QED
    BY <1>2, <1>3

\* What is upstream is the request of the last call, whole, and it is run.
LEMMA HandleRuns ==
    ASSUME WireAssumption, Types, Together, Handle
    PROVE  LET N == Len(calls) IN
           /\ N \in 1..N /\ N \in Nat /\ Pending(N)
           /\ upstream' = <<>> /\ downstream = <<>>
           /\ Len(calls') = N
           /\ \A i \in (1..N) \ {N} : calls'[i] = calls[i]
           /\ calls[N].runs = 0 /\ calls'[N].runs = 1
           /\ calls'[N].kind = calls[N].kind
           /\ calls'[N].result = calls[N].result /\ calls'[N].torn = calls[N].torn
           /\ calls'[N].heard = calls[N].heard
           /\ response' # <<>>
           /\ calls[N].kind # "list" => Len(response') = 1
           /\ \A i \in 1..Len(response') :
                 response'[i].of = N /\ (response'[i].marker => Len(response') = 1)
<1> DEFINE N == Len(calls)
<1>1. PICK m \in 1..Len(upstream) :
          LET read == SubSeq(upstream, 1, m) IN
          /\ upstream' = SubSeq(upstream, m + 1, Len(upstream))
          /\ calls' = Executed(read)
          /\ response' \in Replies(read)
    BY DEF Handle
<1> DEFINE read == SubSeq(upstream, 1, m)
<1>2. /\ Len(upstream) = 1 /\ upstream[1] = Piece(N, 1, 1)
      /\ upstream # <<>> /\ downstream = <<>> /\ calls[N].runs = 0
    <2>1. upstream # <<>>
        BY <1>1 DEF Types
    <2> QED
        BY <2>1 DEF Together, OnePlace
<1>3. m = 1 /\ Head(read) = Piece(N, 1, 1) /\ Last(read) = Piece(N, 1, 1)
    BY <1>1, <1>2, HandleFacts
<1>4. /\ Head(read).of = N /\ Head(read).index = 1 /\ Last(read).last /\ Last(read).of = N
    <2>1. Piece(N, 1, 1).of = N /\ Piece(N, 1, 1).index = 1
        BY DEF Piece
    <2>2. Piece(N, 1, 1).last
        BY Zenon DEF Piece
    <2> HIDE DEF read
    <2> QED
        BY <1>3, <2>1, <2>2
<1>5. N \in 1..Len(calls) /\ calls[N] \in CallsOf(N) /\ N \in Nat
    BY <1>1, <1>4, HandleFacts DEF Types
<1>6. calls' = [calls EXCEPT ![N] = [calls[N] EXCEPT !.runs = @ + 1]]
    BY <1>1, <1>4 DEF Executed, Whole
<1>7. /\ Len(calls') = N
      /\ calls'[N] = [calls[N] EXCEPT !.runs = @ + 1]
      /\ \A i \in (1..N) \ {N} : calls'[i] = calls[i]
    <2> DEFINE c == [calls[N] EXCEPT !.runs = @ + 1]
    <2>1. c \in CallsOf(N) /\ calls \in Seq(CallsOf(N))
        BY <1>5, RunType DEF Types
    <2>2. calls' = [calls EXCEPT ![N] = c] /\ N \in 1..Len(calls) /\ N \in Nat
        BY <1>5, <1>6
    <2> HIDE DEF c
    <2>3. /\ Len(calls') = Len(calls) /\ calls'[N] = c
          /\ \A i \in (1..Len(calls)) \ {N} : calls'[i] = calls[i]
        BY <2>1, <2>2, CallChanges
    <2> QED
        BY <2>3 DEF c
<1>8. /\ calls'[N].runs = 1 /\ calls'[N].kind = calls[N].kind
      /\ calls'[N].result = calls[N].result /\ calls'[N].torn = calls[N].torn
      /\ calls'[N].heard = calls[N].heard
    BY <1>2, <1>5, <1>7 DEF CallsOf
<1>9. upstream' = <<>>
    BY <1>1, <1>2, <1>3
<1>10. /\ response' # <<>>
       /\ calls[N].kind # "list" => Len(response') = 1
       /\ \A i \in 1..Len(response') :
             response'[i].of = N /\ (response'[i].marker => Len(response') = 1)
    BY <1>1, <1>4, HandleFacts
<1>11. Pending(N)
    <2>1. PICK n \in DOMAIN calls : Pending(n)
        BY <1>2 DEF Together, OnePlace, Idle
    <2> QED
        BY <2>1, PendingIsLast DEF Together
<1> HIDE DEF read
<1> QED
    BY <1>2, <1>5, <1>7, <1>8, <1>9, <1>10, <1>11

LEMMA HandleTogether ==
    ASSUME WireAssumption, Types, Types', Together, Handle
    PROVE  Together'
<1> DEFINE N == Len(calls)
<1>1. /\ N \in 1..N /\ N \in Nat /\ Pending(N)
      /\ upstream' = <<>> /\ downstream = <<>>
      /\ Len(calls') = N
      /\ \A i \in (1..N) \ {N} : calls'[i] = calls[i]
      /\ calls'[N].runs = 1 /\ calls'[N].kind = calls[N].kind
      /\ calls'[N].result = calls[N].result /\ calls'[N].torn = calls[N].torn
      /\ calls'[N].heard = calls[N].heard
      /\ response' # <<>>
      /\ calls[N].kind # "list" => Len(response') = 1
      /\ \A i \in 1..Len(response') :
            response'[i].of = N /\ (response'[i].marker => Len(response') = 1)
    BY HandleRuns
<1>2. Fates'
    BY <1>1, LastFate DEF Together, Fates
<1>3. Answers(response)'
    BY <1>1 DEF Answers
<1>4. ~Idle'
    <2>1. calls'[N].result = "pending" /\ N \in DOMAIN calls'
        BY <1>1 DEF Pending, Types
    <2> QED
        BY <2>1 DEF Idle, Pending
<1>5. downstream' = <<>> /\ up' = up
    BY <1>1 DEF Handle
<1> QED
    BY <1>1, <1>2, <1>3, <1>4, <1>5 DEF Together, OnePlace, Answers

LEMMA WrittenTogether ==
    ASSUME WireAssumption, Types, Together, Written
    PROVE  Together'
<1>1. response # <<>> /\ downstream = <<>> /\ upstream = <<>> /\ ~Idle
    BY DEF Types, Together, OnePlace, Written
<1>2. downstream' = response
    BY <1>1, ConcatEmptySeq DEF Types, Written
<1>3. calls' = calls /\ upstream' = <<>> /\ response' = <<>> /\ up' = up
    BY <1>1 DEF Written
<1>4. Fates' /\ ~Idle'
    BY <1>1, <1>3 DEF Together, Fates, Idle, Pending
<1>5. Answers(downstream)'
    BY <1>2, <1>3 DEF Together, Answers
<1> QED
    BY <1>3, <1>4, <1>5 DEF Together, OnePlace, Answers

\* A call is only made when the one before has ended: nothing is on its way.
LEMMA CallTogether ==
    ASSUME WireAssumption, Types, Pooled, Together,
           NEW c \in Callers, NEW k \in Kinds, Call(c, k)
    PROVE  Together'
<1> DEFINE N == Len(calls) + 1
<1>1. Idle /\ upstream = <<>> /\ response = <<>> /\ downstream = <<>> /\ N \in Nat
    BY DEF Call, Pooled, Together, OnePlace, Types
<1>2. /\ Len(calls') = N /\ calls'[N] = Made(c, k)
      /\ \A n \in 1..Len(calls) : calls'[n] = calls[n]
    BY CallFacts
<1>3. Fates'
    <2> SUFFICES ASSUME NEW n \in 1..N
                 PROVE  /\ calls'[n].result = "pending" => n = N
                        /\ calls'[n].runs <= 1 /\ ~calls'[n].torn
                        /\ calls'[n].heard \subseteq {n}
                        /\ calls'[n].result = "answered" => calls'[n].runs = 1
        BY <1>2 DEF Fates, Pending
    <2>1. CASE n = N
        BY <1>2, <2>1 DEF Made
    <2>2. CASE n # N
        <3>1. n \in 1..Len(calls) /\ calls'[n] = calls[n]
            BY <1>1, <1>2, <2>2
        <3>2. ~Pending(n)
            BY <1>1, <3>1 DEF Idle, Types
        <3> QED
            BY <3>1, <3>2 DEF Together, Fates, Pending
    <2> QED
        BY <2>1, <2>2
<1>4. response' = <<>> /\ downstream' = <<>> /\ up' = up
    BY <1>1 DEF Call
<1>5. ~Idle'
    <2>1. calls'[N].result = "pending" /\ N \in DOMAIN calls'
        BY <1>1, <1>2, CallFacts DEF Made
    <2> QED
        BY <2>1 DEF Idle, Pending
<1>6. \/ upstream' = <<>>
      \/ /\ up /\ Len(upstream') = 1 /\ upstream'[1] = Piece(N, 1, 1)
         /\ calls'[N].runs = 0
    <2>1. CASE ~up
        BY <1>1, <2>1 DEF Call
    <2>2. CASE up
        <3>1. PICK p \in 1..MaxPieces :
                  upstream' = upstream \o [i \in 1..p |-> Piece(N, i, p)]
            BY <1>2, <2>2 DEF Call
        <3>2. p = 1
            BY <3>1 DEF Pooled
        <3> DEFINE request == [i \in 1..1 |-> Piece(N, i, 1)]
        <3>3. /\ request \in Seq({Piece(N, 1, 1)}) /\ Len(request) = 1
              /\ request[1] = Piece(N, 1, 1)
            OBVIOUS
        <3>4. upstream' = request
            BY <1>1, <3>1, <3>2, <3>3, ConcatEmptySeq
        <3>5. calls'[N].runs = 0
            BY <1>2 DEF Made
        <3> QED
            BY <2>2, <3>3, <3>4, <3>5
    <2> QED
        BY <2>1, <2>2
<1> QED
    BY <1>2, <1>3, <1>4, <1>5, <1>6 DEF Together, OnePlace, Answers

\* The line that is read is the reply, and if the call ends with it the last.
LEMMA ReadLineTakes ==
    ASSUME WireAssumption, Types, Together, NEW n \in DOMAIN calls, ReadLine(n)
    PROVE  LET N == Len(calls) IN
           /\ n = N /\ N \in 1..N /\ N \in Nat
           /\ calls[N].runs = 1
           /\ upstream = <<>> /\ response = <<>>
           /\ Len(calls') = N
           /\ \A m \in (1..N) \ {N} : calls'[m] = calls[m]
           /\ calls'[N].result \in {"pending", "answered", "refused"}
           /\ calls'[N].heard = calls[N].heard \cup {N}
           /\ calls'[N].runs = 1 /\ calls'[N].torn = calls[N].torn
           /\ calls'[N].kind = calls[N].kind
           /\ calls'[N].result # "pending" => Len(downstream) = 1
<1> DEFINE line == Head(downstream)
           N == Len(calls)
<1>1. n = N /\ N \in 1..N /\ N \in Nat /\ calls[N] \in CallsOf(N)
    BY PendingIsLast DEF Together, ReadLine, Types
<1>2. /\ downstream # <<>> /\ downstream \in Seq(LinesOf(N)) /\ Len(downstream) \in Nat
      /\ Len(downstream) >= 1 /\ line = downstream[1]
    BY DEF ReadLine, Types
<1>3. upstream = <<>> /\ response = <<>>
    BY <1>2 DEF Together, OnePlace
<1>4. /\ calls[N].runs = 1 /\ (calls[N].kind # "list" => Len(downstream) = 1)
      /\ \A i \in 1..Len(downstream) :
            downstream[i].of = N /\ (downstream[i].marker => Len(downstream) = 1)
    BY <1>2 DEF Together, Answers
<1>5. line.of = N /\ (line.marker => Len(downstream) = 1)
    BY <1>2, <1>4
<1>6. PICK r \in AfterLine(N, line) :
          /\ Len(calls') = N
          /\ calls'[N] = [calls[N] EXCEPT !.result = r, !.heard = @ \cup {line.of}]
          /\ \A m \in (1..N) \ {N} : calls'[m] = calls[m]
    BY <1>1, ReadLineFacts
<1>7. /\ calls'[N].result = r /\ calls'[N].heard = calls[N].heard \cup {N}
      /\ calls'[N].runs = 1 /\ calls'[N].torn = calls[N].torn
      /\ calls'[N].kind = calls[N].kind
    BY <1>1, <1>4, <1>5, <1>6 DEF CallsOf
<1>8. r \in {"pending", "answered", "refused"}
    BY <1>5, <1>6 DEF AfterLine
<1>9. r # "pending" => Len(downstream) = 1
    BY <1>4, <1>5, <1>6 DEF AfterLine
<1> HIDE DEF line
<1> QED
    BY <1>1, <1>3, <1>4, <1>6, <1>7, <1>8, <1>9

LEMMA ReadLineTogether ==
    ASSUME WireAssumption, Types, Types', Together, NEW n \in DOMAIN calls, ReadLine(n)
    PROVE  Together'
<1> DEFINE N == Len(calls)
<1>1. /\ N \in 1..N /\ N \in Nat
      /\ upstream = <<>> /\ response = <<>>
      /\ Len(calls') = N
      /\ \A m \in (1..N) \ {N} : calls'[m] = calls[m]
      /\ calls'[N].heard = calls[N].heard \cup {N}
      /\ calls'[N].runs = 1 /\ calls'[N].torn = calls[N].torn
      /\ calls'[N].kind = calls[N].kind
      /\ calls'[N].result # "pending" => Len(downstream) = 1
    BY ReadLineTakes
<1>2. /\ downstream # <<>> /\ downstream \in Seq(LinesOf(N)) /\ Len(downstream) \in Nat
    BY DEF ReadLine, Types
<1>3. /\ calls[N].kind # "list" => Len(downstream) = 1
      /\ \A i \in 1..Len(downstream) :
            downstream[i].of = N /\ (downstream[i].marker => Len(downstream) = 1)
    BY <1>2 DEF Together, Answers
<1>4. Fates'
    <2>1. calls[N].heard \subseteq {N} /\ ~calls[N].torn
        BY <1>1 DEF Together, Fates
    <2>2. calls'[N].heard \subseteq {N}
        BY <1>1, <2>1
    <2> QED
        BY <1>1, <2>1, <2>2, LastFate DEF Together
<1>5. /\ downstream' \in Seq(LinesOf(N)) /\ Len(downstream') = Len(downstream) - 1
      /\ \A i \in 1..Len(downstream') : downstream'[i] = downstream[i + 1]
    BY <1>2, HeadTailProperties DEF ReadLine
<1>6. Idle' => downstream' = <<>>
    <2>1. N \in DOMAIN calls'
        BY <1>1 DEF Types
    <2>2. Idle' => Len(downstream) = 1
        BY <1>1, <2>1 DEF Idle, Pending
    <2>3. Len(downstream) = 1 => Len(downstream') = 0
        BY <1>5
    <2> QED
        BY <1>5, <2>2, <2>3, EmptySeq
<1>7. Answers(downstream)'
    <2> SUFFICES ASSUME downstream' # <<>>
                 PROVE  /\ calls'[N].runs = 1
                        /\ calls'[N].kind # "list" => Len(downstream') = 1
                        /\ \A i \in 1..Len(downstream') :
                              /\ downstream'[i].of = N
                              /\ downstream'[i].marker => Len(downstream') = 1
        BY <1>1 DEF Answers
    <2>1. Len(downstream) > 1
        BY <1>2, <1>5
    <2>2. calls[N].kind = "list"
        BY <1>3, <2>1
    <2>3. \A i \in 1..Len(downstream') :
              downstream'[i].of = N /\ ~downstream'[i].marker
        BY <1>2, <1>3, <1>5, <2>1
    <2> QED
        BY <1>1, <2>2, <2>3
<1>8. upstream' = <<>> /\ response' = <<>> /\ up' = up
    BY <1>1 DEF ReadLine
<1> QED
    BY <1>4, <1>6, <1>7, <1>8 DEF Together, OnePlace, Answers

LEMMA ReadEndTogether ==
    ASSUME WireAssumption, Types, Types', Together, NEW n \in DOMAIN calls, ReadEnd(n)
    PROVE  Together'
<1> DEFINE N == Len(calls)
<1>1. n = N /\ N \in 1..N /\ N \in Nat /\ calls[N] \in CallsOf(N)
    BY PendingIsLast DEF Together, ReadEnd, Types
<1>2. /\ upstream = <<>> /\ response = <<>> /\ downstream = <<>>
    BY DEF ReadEnd, Together, OnePlace, Types
<1>3. PICK r \in {"threw", "nothing"} :
          /\ Len(calls') = N
          /\ calls'[N] = [calls[N] EXCEPT !.result = r]
          /\ \A m \in (1..N) \ {N} : calls'[m] = calls[m]
    BY <1>1, ReadEndFacts
<1>4. /\ calls'[N].result = r /\ calls'[N].heard = calls[N].heard
      /\ calls'[N].runs = calls[N].runs /\ calls'[N].torn = calls[N].torn
    BY <1>1, <1>3 DEF CallsOf
<1>5. Fates'
    BY <1>1, <1>3, <1>4, LastFate DEF Together, Fates
<1>6. upstream' = <<>> /\ response' = <<>> /\ downstream' = <<>>
    BY <1>2 DEF ReadEnd
<1> QED
    BY <1>5, <1>6 DEF Together, OnePlace, Answers

\* What arrives of a reply is its beginning.
LEMMA DropTogether ==
    ASSUME WireAssumption, Types, Together, Drop
    PROVE  Together'
<1>1. PICK m \in 0..Len(downstream) : downstream' = SubSeq(downstream, 1, m)
    BY DEF Drop
<1>2. /\ m \in Nat /\ Len(downstream) \in Nat /\ m <= Len(downstream)
      /\ Len(downstream') = m
      /\ \A i \in 1..m : downstream'[i] = downstream[i]
    BY <1>1, CutType DEF Types
<1>3. calls' = calls /\ upstream' = <<>> /\ response' = <<>>
    BY DEF Drop
<1>4. downstream = <<>> => downstream' = <<>>
    BY <1>1
<1>5. Answers(downstream)'
    <2> SUFFICES ASSUME downstream' # <<>>
                 PROVE  /\ calls[Len(calls)].runs = 1
                        /\ calls[Len(calls)].kind # "list" => m = 1
                        /\ \A i \in 1..m :
                              /\ downstream[i].of = Len(calls)
                              /\ downstream[i].marker => m = 1
        BY <1>2, <1>3 DEF Answers
    <2>1. m >= 1
        BY <1>1, <1>2
    <2>2. downstream # <<>>
        BY <1>4
    <2> QED
        BY <1>2, <2>1, <2>2 DEF Together, Answers
<1>6. Fates' /\ (Idle' => Idle)
    BY <1>3 DEF Together, Fates, Idle, Pending
<1> QED
    BY <1>3, <1>4, <1>5, <1>6 DEF Together, OnePlace, Answers

(***************************************************************************)
(* The theorems                                                            *)
(***************************************************************************)

LEMMA InitInv ==
    ASSUME WireAssumption, Init
    PROVE  Inv
<1>1. Together
    BY DEF Init, Together, Fates, OnePlace, Answers
<1> QED
    BY <1>1, InitTypes DEF Inv

LEMMA NextInv ==
    ASSUME WireAssumption, Inv, Next
    PROVE  Inv'
<1>1. CASE Handle
    BY <1>1, HandleTypes, HandleTogether DEF Inv, Pooled
<1>2. CASE Written
    BY <1>2, WrittenTypes, WrittenTogether DEF Inv, Pooled
<1>3. ASSUME NEW c \in Callers, NEW k \in Kinds, Call(c, k)
      PROVE  Inv'
    BY <1>3, CallTypes, CallTogether DEF Inv, Pooled
<1>4. ASSUME NEW n \in DOMAIN calls, ReadLine(n) \/ ReadEnd(n)
      PROVE  Inv'
    BY <1>4, ReadTypes, ReadLineTogether, ReadEndTogether DEF Inv, Pooled
<1>5. CASE Drop
    BY <1>5, DropTypes, DropTogether DEF Inv, Pooled
<1> QED
    BY <1>1, <1>2, <1>3, <1>4, <1>5 DEF Next

\* Inv is an invariant.
THEOREM Invariant == WireAssumption => (Spec => []Inv)
<1> SUFFICES ASSUME WireAssumption PROVE Spec => []Inv
    OBVIOUS
<1>1. Inv /\ UNCHANGED vars => Inv'
    BY DEF Inv, Types, Together, Fates, OnePlace, Answers, Idle, Pending, vars
<1>2. Inv /\ [Next]_vars => Inv'
    BY <1>1, NextInv
<1> QED
    BY <1>2, InitInv, PTL DEF Spec

\* Every variable has its type, for clients that are shared or pooled, and
\* requests of any length.
THEOREM TypeCorrect == Spec => []TypeOK
<1>1. ASSUME Inv PROVE TypeOK
    <2>1. Types
        BY <1>1 DEF Inv
    <2>2. \A n \in DOMAIN calls : calls[n] \in CallsOf(Len(calls))
        BY <2>1 DEF Types
    <2>0. /\ DOMAIN calls = 1..Len(calls)
          /\ DOMAIN upstream = 1..Len(upstream) /\ DOMAIN downstream = 1..Len(downstream)
        BY <2>1 DEF Types
    <2>3. ASSUME NEW i \in DOMAIN upstream
          PROVE  upstream[i].of \in DOMAIN calls
        <3>1. upstream[i] \in PiecesOf(Len(calls))
            BY <2>1, <2>0, ElementOfSeq DEF Types
        <3> QED
            BY <2>0, <3>1 DEF PiecesOf
    <2>4. ASSUME NEW i \in DOMAIN downstream
          PROVE  downstream[i].of \in DOMAIN calls
        <3>1. downstream[i] \in LinesOf(Len(calls))
            BY <2>1, <2>0, ElementOfSeq DEF Types
        <3> QED
            BY <2>0, <3>1 DEF LinesOf
    <2> QED
        BY <2>1, <2>2, <2>3, <2>4 DEF Types, TypeOK, CallsOf
<1> QED
    BY <1>1, Invariant, WireAssumption, PTL

\* Over a pooled connection a call takes no line but of its own reply, though
\* requests and replies carry no numbers (RedicraftClient, Session).
THEOREM RepliesStay == Pooled => (Spec => []OwnReply)
<1> SUFFICES ASSUME Pooled PROVE Spec => []OwnReply
    OBVIOUS
<1>1. Inv => OwnReply
    BY DEF Inv, Types, Together, Fates, OwnReply
<1> QED
    BY <1>1, Invariant, WireAssumption, PTL

\* When a pooled connection goes back nothing is on its way in it.
THEOREM StaysInStep == Pooled => (Spec => []InStep)
<1> SUFFICES ASSUME Pooled PROVE Spec => []InStep
    OBVIOUS
<1>1. Inv => InStep
    BY DEF Inv, Types, Together, OnePlace, InStep
<1> QED
    BY <1>1, Invariant, WireAssumption, PTL

(***************************************************************************)
(* A pooled call is a remote call                                          *)
(***************************************************************************)

\* What `fate' stands for in the refinement.
Remotely == [n \in DOMAIN calls |-> Fate(n)]

\* The fate of a call to which nothing wrong has happened.
Fair(c) ==
    [ran |-> IF c.runs = 1 THEN "once" ELSE "never",
     end |-> IF c.result \in {"nothing", "threw"} THEN "unanswered" ELSE c.result]

\* No command was run wrongly and no caller was misled.
NobodyMisled ==
    /\ Len(calls) \in Nat
    /\ Len(Remotely) = Len(calls) /\ DOMAIN Remotely = 1..Len(calls)
    /\ \A n \in 1..Len(calls) : Remotely[n] = Fair(calls[n])

LEMMA NoneMisled == Types /\ Together => NobodyMisled
<1> SUFFICES ASSUME Types, Together PROVE NobodyMisled
    OBVIOUS
<1>1. Len(calls) \in Nat /\ DOMAIN calls = 1..Len(calls)
    BY DEF Types
<1>2. Len(Remotely) = Len(calls) /\ DOMAIN Remotely = 1..Len(calls)
    BY <1>1 DEF Remotely
<1>3. ASSUME NEW n \in 1..Len(calls) PROVE Remotely[n] = Fair(calls[n])
    <2>1. calls[n].runs <= 1 /\ ~calls[n].torn /\ calls[n].heard \subseteq {n}
        BY DEF Together, Fates
    <2>2. calls[n] \in CallsOf(Len(calls))
        BY DEF Types
    <2>3. calls[n].runs \in Nat
        BY <2>2 DEF CallsOf
    <2>4. Fate(n) = Fair(calls[n])
        BY <2>1, <2>3 DEF Fate, Fair
    <2> QED
        BY <1>1, <2>4 DEF Remotely
<1> QED
    BY <1>1, <1>2, <1>3 DEF NobodyMisled

\* The same one step later.
LEMMA NoneMisledNext == Types' /\ Together' => NobodyMisled'
BY NoneMisled, PTL

\* A remote call is under way while a call is pending.
LEMMA UnderWayIs ==
    ASSUME Types, Together
    PROVE  Remote!UnderWay <=> ~Idle
<1> DEFINE N == Len(calls)
<1>1. /\ N \in Nat /\ Len(Remotely) = N /\ DOMAIN Remotely = 1..N
      /\ \A n \in 1..N : Remotely[n] = Fair(calls[n])
    BY NoneMisled DEF NobodyMisled
<1>2. Remote!UnderWay <=> Remotely # <<>> /\ Remotely[Len(Remotely)].end = "pending"
    BY DEF Remote!UnderWay, Remotely
<1>3. Remotely # <<>> <=> N \in 1..N
    BY <1>1
<1>4. N \in 1..N => (Remotely[N].end = "pending" <=> Pending(N))
    BY <1>1 DEF Fair, Pending
<1>5. ~Idle <=> N \in 1..N /\ Pending(N)
    BY <1>1, PendingIsLast DEF Idle, Types, Together
<1> QED
    BY <1>1, <1>2, <1>3, <1>4, <1>5

\* What happens to the last call happens to the last remote call.
LEMMA LastChanges ==
    ASSUME Types, Together, Types', Together', Len(calls') = Len(calls),
           \A m \in (1..Len(calls)) \ {Len(calls)} : calls'[m] = calls[m]
    PROVE  Remotely' = [Remotely EXCEPT ![Len(calls)] = Fair(calls'[Len(calls)])]
<1> DEFINE N == Len(calls)
           r == [Remotely EXCEPT ![N] = Fair(calls'[N])]
<1>1. /\ N \in Nat /\ DOMAIN Remotely = 1..N /\ DOMAIN Remotely' = 1..N
      /\ \A n \in 1..N : Remotely[n] = Fair(calls[n]) /\ Remotely'[n] = Fair(calls'[n])
    BY NoneMisled, NoneMisledNext DEF NobodyMisled
<1>2. DOMAIN r = 1..N /\ \A n \in 1..N : r[n] = Remotely'[n]
    BY <1>1
<1>3. /\ Remotely' = [n \in DOMAIN Remotely' |-> Remotely'[n]]
      /\ r = [n \in DOMAIN r |-> r[n]]
    BY DEF Remotely
<1> HIDE DEF r
<1>4. Remotely' = r
    BY <1>1, <1>2, <1>3
<1> QED
    BY <1>4 DEF r

\* The server runs the request: a remote call is run.
LEMMA HandleRefines ==
    ASSUME WireAssumption, Types, Together, Types', Together', Handle
    PROVE  Remote!Run
<1> DEFINE N == Len(calls)
<1>1. /\ N \in 1..N /\ Pending(N) /\ Len(calls') = N
      /\ \A i \in (1..N) \ {N} : calls'[i] = calls[i]
      /\ calls[N].runs = 0 /\ calls'[N].runs = 1 /\ calls'[N].result = calls[N].result
    BY HandleRuns
<1>2. Remote!UnderWay
    <2>1. ~Idle
        BY <1>1, PendingIsLast DEF Types, Together
    <2> QED
        BY <2>1, UnderWayIs
<1>3. up /\ up' = up
    BY DEF Handle, Types
<1>4. Len(Remotely) = N /\ Remotely[N] = [ran |-> "never", end |-> "pending"]
    BY <1>1, NoneMisled DEF NobodyMisled, Fair, Pending
<1>5. Remotely' = [Remotely EXCEPT ![N] = [ran |-> "once", end |-> "pending"]]
    <2>1. Fair(calls'[N]) = [ran |-> "once", end |-> "pending"]
        BY <1>1 DEF Fair, Pending
    <2> QED
        BY <1>1, <2>1, LastChanges
<1>6. Remotely' = [Remotely EXCEPT ![Len(Remotely)].ran = "once"]
    <2>1. [Remotely[N] EXCEPT !.ran = "once"] = [ran |-> "once", end |-> "pending"]
        BY <1>4
    <2> QED
        BY <1>4, <1>5, <2>1
<1> QED
    BY <1>2, <1>3, <1>4, <1>6 DEF Remote!Run, Remotely

\* A call is made when there is none: a remote call begins.
LEMMA CallRefines ==
    ASSUME WireAssumption, Pooled, Types, Together, Types', Together',
           NEW c \in Callers, NEW k \in Kinds, Call(c, k)
    PROVE  Remote!Ask
<1> DEFINE N == Len(calls)
           new == [ran |-> "never", end |-> "pending"]
<1>1. Idle /\ up' = up
    BY DEF Call, Pooled
<1>2. /\ Len(calls') = N + 1 /\ calls'[N + 1] = Made(c, k)
      /\ \A n \in 1..N : calls'[n] = calls[n]
    BY CallFacts
<1>3. ~Remote!UnderWay
    BY <1>1, UnderWayIs
<1>4. /\ N \in Nat /\ Len(Remotely) = N
      /\ DOMAIN Remotely = 1..N /\ DOMAIN Remotely' = 1..(N + 1)
      /\ \A n \in 1..N : Remotely'[n] = Remotely[n]
      /\ Remotely'[N + 1] = Fair(calls'[N + 1])
    BY <1>2, NoneMisled, NoneMisledNext DEF NobodyMisled
<1>5. Fair(calls'[N + 1]) = new
    BY <1>2 DEF Made, Fair
<1>6. Remotely' = Append(Remotely, new)
    <2> DEFINE a == Append(Remotely, new)
    <2>1. DOMAIN a = 1..(N + 1) /\ \A n \in 1..(N + 1) : a[n] = Remotely'[n]
        BY <1>4, <1>5
    <2>2. a = [n \in DOMAIN a |-> a[n]]
        BY <1>4
    <2>3. Remotely' = [n \in DOMAIN Remotely' |-> Remotely'[n]]
        BY DEF Remotely
    <2> HIDE DEF a
    <2>4. Remotely' = a
        BY <1>4, <2>1, <2>2, <2>3
    <2> QED
        BY <2>4 DEF a
<1> QED
    BY <1>1, <1>3, <1>6 DEF Remote!Ask, Remotely

\* The last line of the reply is taken: a remote call is answered or refused.
\* The lines before it change nothing that the caller could tell.
LEMMA ReadLineRefines ==
    ASSUME WireAssumption, Types, Together, Types', Together',
           NEW n \in DOMAIN calls, ReadLine(n)
    PROVE  Remote!Answer \/ Remote!Refuse \/ UNCHANGED Remote!vars
<1> DEFINE N == Len(calls)
<1>1. /\ n = N /\ N \in 1..N /\ calls[N].runs = 1 /\ Len(calls') = N
      /\ \A m \in (1..N) \ {N} : calls'[m] = calls[m]
      /\ calls'[N].result \in {"pending", "answered", "refused"} /\ calls'[N].runs = 1
    BY ReadLineTakes
<1>2. Pending(N) /\ up' = up
    BY <1>1 DEF ReadLine
<1>3. Remote!UnderWay
    <2>1. ~Idle
        BY <1>1, <1>2, PendingIsLast DEF Types, Together
    <2> QED
        BY <2>1, UnderWayIs
<1>4. /\ Len(Remotely) = N /\ DOMAIN Remotely = 1..N
      /\ Remotely[N] = [ran |-> "once", end |-> "pending"]
    BY <1>1, <1>2, NoneMisled DEF NobodyMisled, Fair, Pending
<1>5. Remotely' = [Remotely EXCEPT ![N] = [ran |-> "once", end |-> calls'[N].result]]
    <2>1. Fair(calls'[N]) = [ran |-> "once", end |-> calls'[N].result]
        BY <1>1 DEF Fair
    <2> QED
        BY <1>1, <2>1, LastChanges
<1>6. CASE calls'[N].result = "pending"
    <2>1. Remotely' = [Remotely EXCEPT ![N] = Remotely[N]]
        BY <1>4, <1>5, <1>6
    <2>2. Remotely = [m \in DOMAIN Remotely |-> Remotely[m]]
        BY DEF Remotely
    <2>3. Remotely' = Remotely
        BY <1>1, <1>4, <2>1, <2>2
    <2> QED
        BY <1>2, <2>3 DEF Remote!vars, Remotely
<1>7. ASSUME NEW e \in {"answered", "refused"}, calls'[N].result = e
      PROVE  Remote!Reply(e)
    <2>1. [Remotely[N] EXCEPT !.end = e] = [ran |-> "once", end |-> e]
        BY <1>4
    <2>2. Remotely' = [Remotely EXCEPT ![Len(Remotely)].end = e]
        BY <1>4, <1>5, <1>7, <2>1
    <2>3. Remotely[Len(Remotely)].ran = "once"
        BY <1>4
    <2> QED
        BY <1>2, <1>3, <2>2, <2>3 DEF Remote!Reply, Remotely
<1> QED
    BY <1>1, <1>6, <1>7 DEF Remote!Answer, Remote!Refuse

\* The stream has ended: a remote call stays unanswered.
LEMMA ReadEndRefines ==
    ASSUME WireAssumption, Types, Together, Types', Together',
           NEW n \in DOMAIN calls, ReadEnd(n)
    PROVE  Remote!GiveUp
<1> DEFINE N == Len(calls)
<1>1. n = N /\ N \in 1..N /\ N \in Nat /\ calls[N] \in CallsOf(N) /\ Pending(N)
    BY PendingIsLast DEF Together, ReadEnd, Types
<1>2. ~up /\ up' = up
    BY DEF ReadEnd
<1>3. PICK r \in {"threw", "nothing"} :
          /\ Len(calls') = N
          /\ calls'[N] = [calls[N] EXCEPT !.result = r]
          /\ \A m \in (1..N) \ {N} : calls'[m] = calls[m]
    BY <1>1, ReadEndFacts
<1>4. calls'[N].result = r /\ calls'[N].runs = calls[N].runs
    BY <1>1, <1>3 DEF CallsOf
<1>5. Remote!UnderWay
    <2>1. ~Idle
        BY <1>1, PendingIsLast DEF Types, Together
    <2> QED
        BY <2>1, UnderWayIs
<1>6. Len(Remotely) = N /\ Remotely[N] = Fair(calls[N])
    BY <1>1, NoneMisled DEF NobodyMisled
<1>7. Fair(calls'[N]) = [Remotely[N] EXCEPT !.end = "unanswered"]
    BY <1>3, <1>4, <1>6 DEF Fair
<1>8. Remotely' = [Remotely EXCEPT ![N] = Fair(calls'[N])]
    BY <1>3, LastChanges
<1>9. Remotely' = [Remotely EXCEPT ![Len(Remotely)].end = "unanswered"]
    BY <1>6, <1>7, <1>8
<1> QED
    BY <1>2, <1>5, <1>9 DEF Remote!GiveUp, Remotely

\* Over a pooled connection every call is a remote call: its command is run
\* at most once and as it was sent, it is answered or refused by its own reply,
\* and left without any reply only when the connection has broken.
THEOREM CallsAreRemote == Pooled => (Spec => ImplementsRemoteCall)
<1> SUFFICES ASSUME Pooled PROVE Spec => Remote!Spec
    BY DEF ImplementsRemoteCall
<1>1. Init => Remote!Init
    BY DEF Init, Remote!Init
<1>2. Inv /\ Inv' /\ [Next]_vars => [Remote!Next]_(Remote!vars)
    <2> SUFFICES ASSUME Inv, Inv', [Next]_vars
                 PROVE  Remote!Next \/ UNCHANGED Remote!vars
        OBVIOUS
    <2>0. Types /\ Together /\ Types' /\ Together'
        BY DEF Inv, Pooled
    <2>1. CASE UNCHANGED <<calls, up>>
        BY <2>1 DEF Remote!vars, Fate
    <2>2. CASE Handle
        BY <2>0, <2>2, HandleRefines, WireAssumption DEF Remote!Next
    <2>3. ASSUME NEW c \in Callers, NEW k \in Kinds, Call(c, k)
          PROVE  Remote!Next
        BY <2>0, <2>3, CallRefines, WireAssumption DEF Remote!Next
    <2>4. ASSUME NEW n \in DOMAIN calls, ReadLine(n)
          PROVE  Remote!Next \/ UNCHANGED Remote!vars
        BY <2>0, <2>4, ReadLineRefines, WireAssumption DEF Remote!Next
    <2>5. ASSUME NEW n \in DOMAIN calls, ReadEnd(n)
          PROVE  Remote!Next
        BY <2>0, <2>5, ReadEndRefines, WireAssumption DEF Remote!Next
    <2>6. CASE Drop
        BY <2>6 DEF Drop, Remote!Break, Remote!Next, Fate
    <2>7. Written => UNCHANGED <<calls, up>>
        BY DEF Written
    <2>8. UNCHANGED vars => UNCHANGED <<calls, up>>
        BY DEF vars
    <2> QED
        BY <2>1, <2>2, <2>3, <2>4, <2>5, <2>6, <2>7, <2>8 DEF Next
<1> QED
    BY <1>1, <1>2, Invariant, WireAssumption, PTL DEF Spec, Remote!Spec

=============================================================================
