-------------------------------- MODULE Wire --------------------------------
(***************************************************************************)
(* One TCP connection: a RedicraftClient at one end, the Session it has on *)
(* the server at the other.                                                *)
(*                                                                         *)
(* The client prints a line and reads lines back; no lock keeps the two    *)
(* together, so threads that share a client may take each other's lines.   *)
(* The session takes whatever one read gives it, at most 1024 bytes, drops *)
(* the line ends from it and runs it as ONE command; it reads again when   *)
(* the reply is written.  Nothing on either side counts or names requests. *)
(*                                                                         *)
(* A request is known here by its number in `calls', and travels in one or *)
(* more pieces that fit the session's buffer.  Commands are told apart by  *)
(* what the client does with the reply:                                    *)
(*   "write"   set, hset: any line will do, end of stream is an exception  *)
(*   "number"  incr, decr, incrBy, lpush, sadd, srem, scard, ttl: the line *)
(*             must be a number: an error reply of the session, or another *)
(*             call's reply, is an exception over a sound connection, and  *)
(*             so is the end of the stream                                 *)
(*   "read"    get, hget, rpop, sismember, expire, ping: any line will do, *)
(*             end of stream is taken for "not there"                      *)
(*   "list"    hgetAll, smembers: reads lines until the stream ends or the *)
(*             marker of an empty collection arrives                       *)
(***************************************************************************)
EXTENDS Integers, Sequences, SequencesExt

CONSTANTS
    Callers,     \* threads that use the client
    Kinds,       \* the kinds of call they make
    MaxCalls,    \* bound on the number of calls
    MaxPieces,   \* the pieces a request may come in: 1 when all are short
    MaxMembers,  \* bound on the members of a collection
    Shared,      \* FALSE: one thread at a time, as with a pooled client
    MayDrop      \* TRUE: the connection may break

ASSUME WireAssumption ==
    /\ Kinds \subseteq {"write", "number", "read", "list"}
    /\ MaxCalls \in Nat /\ MaxPieces \in Nat \ {0} /\ MaxMembers \in Nat
    /\ Shared \in BOOLEAN /\ MayDrop \in BOOLEAN

VARIABLES
    calls,       \* every call made, in order (see Made)
    upstream,    \* pieces of requests sent and not yet read by the session
    session,     \* what the session waits for: "reading", "writing", "gone"
    response,    \* response_, as lines
    downstream,  \* lines sent and not yet read by the client
    up           \* is the connection there?

vars == <<calls, upstream, session, response, downstream, up>>

\* A call: who made it, how it ended, which requests the lines it took were
\* replies to, how often its request was run as sent, and if it was ever run
\* as something else.
Made(c, k) == [by |-> c, kind |-> k, result |-> "pending",
               heard |-> {}, runs |-> 0, torn |-> FALSE]

Piece(n, i, last) == [of |-> n, index |-> i, last |-> i = last]
Line(n, marker) == [of |-> n, marker |-> marker]

Pending(n) == calls[n].result = "pending"
Busy(c) == \E n \in DOMAIN calls : calls[n].by = c /\ Pending(n)
Idle == \A n \in DOMAIN calls : ~Pending(n)

Init ==
    /\ calls = <<>>
    /\ upstream = <<>>
    /\ session = "reading"
    /\ response = <<>>
    /\ downstream = <<>>
    /\ up = TRUE

(***************************************************************************)
(* The session                                                             *)
(***************************************************************************)

\* The bytes of one read are exactly one request.
Whole(read) ==
    /\ Head(read).index = 1
    /\ Last(read).last
    /\ Last(read).of = Head(read).of

\* What comes of running them as one command.  Its verb is the first word:
\* of a request cut off or run together with the next, the command runs with
\* other arguments; the rest of a request is not a command.  (A piece carries
\* some of the text: a cut that parts only the line end from it is left out.)
Executed(read) ==
    LET n == Head(read).of IN
    IF Head(read).index # 1 THEN calls
    ELSE IF Whole(read) THEN [calls EXCEPT ![n].runs = @ + 1]
    ELSE [calls EXCEPT ![n].torn = TRUE]

\* Mutant: each reply is followed by one more line.
Replies_ExtraLine(read) == {<<Line(Head(read).of, FALSE), Line(Head(read).of, TRUE)>>}

\* The reply: one line, but a line for each member of a collection that has
\* any.  No line marks the end of those.
Replies(read) ==
    LET n == Head(read).of IN
    IF Head(read).index = 1 /\ calls[n].kind = "list"
    THEN {<<Line(n, TRUE)>>} \cup
         {[i \in 1..m |-> Line(n, FALSE)] : m \in 1..MaxMembers}
    ELSE {<<Line(n, FALSE)>>}

\* The read handler: one read, its command run, the write of the reply begun.
Handle ==
    /\ session = "reading"
    /\ \E m \in 1..Len(upstream) :
          LET read == SubSeq(upstream, 1, m) IN
          /\ upstream' = SubSeq(upstream, m + 1, Len(upstream))
          /\ calls' = Executed(read)
          /\ response' \in Replies(read)
    /\ session' = "writing"
    /\ UNCHANGED <<downstream, up>>

\* Mutants: response_ is kept, and sent again; no further read is begun.
Written_Keeps ==
    /\ session = "writing"
    /\ downstream' = downstream \o response
    /\ session' = "reading"
    /\ UNCHANGED <<calls, upstream, response, up>>
Written_NoRead ==
    /\ session = "writing"
    /\ downstream' = downstream \o response
    /\ response' = <<>>
    /\ session' = "gone"
    /\ UNCHANGED <<calls, upstream, up>>

\* The write handler: the reply is on its way, the next read is begun.
Written ==
    /\ session = "writing"
    /\ downstream' = downstream \o response
    /\ response' = <<>>
    /\ session' = "reading"
    /\ UNCHANGED <<calls, upstream, up>>

(***************************************************************************)
(* The client                                                              *)
(***************************************************************************)

\* A call prints its request.  A broken PrintWriter does not say so.
Call(c, k) ==
    /\ ~Busy(c)
    /\ Shared \/ Idle
    /\ Len(calls) < MaxCalls
    /\ calls' = Append(calls, Made(c, k))
    /\ \E p \in 1..MaxPieces :
          upstream' = IF up THEN upstream \o [i \in 1..p |-> Piece(Len(calls'), i, p)]
                            ELSE upstream
    /\ UNCHANGED <<session, response, downstream, up>>

\* Mutant: smembers takes one line like the other calls.
AfterLine_OneLine(n, line) == {"answered"}

\* How a call ends, or goes on, with one more line.  Where a number is wanted
\* any line may be none: a reply of one's own may say "ERROR: ...".
AfterLine(n, line) ==
    IF calls[n].kind = "list" THEN {IF line.marker THEN "answered" ELSE "pending"}
    ELSE IF calls[n].kind = "number" THEN {"answered", "refused"}
    ELSE {"answered"}

\* Mutant: the null of the end of the stream is not looked at.
AfterEnd_Ignored(n) == {"answered"}

\* How it ends at the end of the stream (no line), or when reading fails.
AfterEnd(n) ==
    IF calls[n].kind \in {"write", "number"} THEN {"threw"} ELSE {"nothing", "threw"}

ReadLine(n) ==
    /\ Pending(n)
    /\ downstream # <<>>
    /\ \E r \in AfterLine(n, Head(downstream)) :
          calls' = [calls EXCEPT ![n].result = r, ![n].heard = @ \cup {Head(downstream).of}]
    /\ downstream' = Tail(downstream)
    /\ UNCHANGED <<upstream, session, response, up>>

ReadEnd(n) ==
    /\ Pending(n)
    /\ downstream = <<>>
    /\ ~up
    /\ \E r \in AfterEnd(n) : calls' = [calls EXCEPT ![n].result = r]
    /\ UNCHANGED <<upstream, session, response, downstream, up>>

(***************************************************************************)
(* The network                                                             *)
(***************************************************************************)

\* The connection breaks: the session's read or write fails and it ends; what
\* it had not read is lost, and of the replies sent only a part may arrive.
Drop ==
    /\ MayDrop
    /\ up
    /\ up' = FALSE
    /\ session' = "gone"
    /\ upstream' = <<>>
    /\ response' = <<>>
    /\ \E m \in 0..Len(downstream) : downstream' = SubSeq(downstream, 1, m)
    /\ UNCHANGED calls

Next ==
    \/ Handle \/ Written
    \/ \E c \in Callers, k \in Kinds : Call(c, k)
    \/ \E n \in DOMAIN calls : ReadLine(n) \/ ReadEnd(n)
    \/ Drop

Spec == Init /\ [][Next]_vars

\* The server's threads run the handlers that are ready, and a thread that is
\* reading gets the line that is there (unless another one gets it first).
Fairness ==
    /\ WF_vars(Handle) /\ WF_vars(Written)
    /\ \A n \in 1..MaxCalls : WF_vars(n \in DOMAIN calls /\ (ReadLine(n) \/ ReadEnd(n)))

FairSpec == Spec /\ Fairness

(***************************************************************************)
(* Properties                                                              *)
(***************************************************************************)

Results == {"pending", "answered", "refused", "nothing", "threw"}

\* Every variable has its type.
TypeOK ==
    /\ \A n \in DOMAIN calls :
          calls[n] \in [by : Callers, kind : Kinds, result : Results,
                        heard : SUBSET (1..Len(calls)), runs : Nat, torn : BOOLEAN]
    /\ \A i \in DOMAIN upstream : upstream[i].of \in DOMAIN calls
    /\ \A i \in DOMAIN downstream : downstream[i].of \in DOMAIN calls
    /\ session \in {"reading", "writing", "gone"}
    /\ session = "writing" <=> response # <<>>
    /\ up \in BOOLEAN /\ (up <=> session # "gone")

\* The protocol carries no request numbers, so it is for the client and the
\* session together to see that a call gets the reply to its own request.
OwnReply == \A n \in DOMAIN calls : calls[n].heard \subseteq {n}

\* A connection that is used by nobody has nothing on its way in either
\* direction: it can go back to the pool, and the next call starts afresh.
InStep ==
    up /\ Idle => /\ upstream = <<>> /\ downstream = <<>>
                  /\ session = "reading"

\* What a call comes to for its caller: was its command run, once and as it
\* was sent, and was the answer, if there was one, its own?
Fate(n) ==
    [ran |-> IF calls[n].torn \/ calls[n].runs > 1 THEN "wrongly"
             ELSE IF calls[n].runs = 1 THEN "once" ELSE "never",
     end |-> IF ~(calls[n].heard \subseteq {n}) THEN "misled"
             ELSE IF calls[n].result \in {"nothing", "threw"} THEN "unanswered"
             ELSE calls[n].result]

Remote == INSTANCE RemoteCall WITH fate <- [n \in DOMAIN calls |-> Fate(n)], sound <- up

\* A call over a pooled connection is a remote call: its command is run once
\* at most and as it was sent, before its own reply answers or refuses it, and
\* nothing but a broken connection leaves it without a reply (RedicraftClient,
\* Session).
ImplementsRemoteCall == Remote!Spec

\* A call whose reply is a single line returns, or throws.
SingleLineReturns ==
    \A n \in 1..MaxCalls :
        n \in DOMAIN calls /\ calls[n].kind # "list"
            ~> n \in DOMAIN calls /\ ~Pending(n)

\* smembers and hgetAll return too, as their tests have it.
ListsReturn ==
    \A n \in 1..MaxCalls :
        n \in DOMAIN calls /\ calls[n].kind = "list"
            ~> n \in DOMAIN calls /\ ~Pending(n)

=============================================================================
