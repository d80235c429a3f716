----------------------------- MODULE HttpClient -----------------------------
(***************************************************************************)
(* HTTP transactions over host sockets (libs/network/cellHttp.c).  One     *)
(* guest thread works on a transaction, any thread may abort it or close   *)
(* its connection.  A name is looked up by a worker thread the call may    *)
(* give up on; who frees what they share is settled by one compare-and-    *)
(* swap.  The body arrives in pieces, the first of them with the headers,  *)
(* and is framed by a length, by chunks or by the end of the connection.   *)
(* Headers and URIs stand for what the library decides from them.          *)
(***************************************************************************)
EXTENDS Integers, Sequences

CONSTANTS
    Trans, Clients,   \* slots
    Bodies,           \* what servers send: sequences of chunk sizes
    Sizes,            \* buffer sizes the guest receives into
    MaxRedirects,     \* redirections one call follows
    MaxSocks,         \* bound: open sockets, and lookups in progress
    Persist           \* the guest receives on after an error

VARIABLES
    lib,        \* the library is initialised
    clients,    \* clients in use, with their settings
    trans,      \* transaction slots
    socks,      \* host sockets and what their servers still send
    resolvers   \* what a call and its lookup worker share

httpVars == <<lib, clients, trans, socks, resolvers>>

None    == "none"
Unknown == -1    \* no Content-Length

Min2(a, b) == IF a < b THEN a ELSE b

\* A byte of the body, or a line of the framing.
Token(k, n) == [k |-> k, n |-> n]
Bytes(a, b) == [i \in 1 .. b - a + 1 |-> Token("byte", a + i - 1)]

Total(sizes) == LET sum[i \in 0..Len(sizes)] == IF i = 0 THEN 0 ELSE sum[i - 1] + sizes[i]
                IN  sum[Len(sizes)]

\* A body on the wire.
Chunked(sizes) ==
    LET to[i \in 0..Len(sizes)] == Total(SubSeq(sizes, 1, i))
        w[i \in 0..Len(sizes)] ==
            IF i = 0 THEN <<>>
            ELSE w[i - 1] \o <<Token("size", sizes[i])>> \o Bytes(to[i - 1] + 1, to[i])
                          \o <<Token("nl", 0)>>
    IN  w[Len(sizes)] \o <<Token("size", 0), Token("field", 0), Token("end", 0)>>

Wire(form, sizes) == IF form = "chunked" THEN Chunked(sizes) ELSE Bytes(1, Total(sizes))

NoResponse ==
    [parsed |-> FALSE, status |-> None, form |-> None, length |-> Unknown, received |-> 0,
     eof |-> FALSE, phase |-> "size", remaining |-> 0, over |-> <<>>,
     body |-> 0, told |-> <<>>, ended |-> FALSE, failed |-> FALSE, fault |-> FALSE]

\* body to fault are history: the size of the body, the bytes the guest was told of, the end
\* it was told of, an error it was told of, and what had happened to the connection.
NewTrans(c, user) ==
    [used |-> TRUE, client |-> c, user |-> user, pc |-> "idle", aborted |-> FALSE,
     sent |-> FALSE, auth |-> FALSE, redirects |-> 0, tries |-> 0, sock |-> 0, fresh |-> 0,
     res |-> 0, want |-> 0, buf |-> <<>>, r |-> NoResponse]

NoTrans == [NewTrans(None, FALSE) EXCEPT !.used = FALSE]

NoSocket   == [open |-> FALSE, left |-> <<>>, closes |-> FALSE, status |-> None,
               form |-> None, body |-> 0]
NoResolver == [worker |-> "off", state |-> 0, list |-> "no", frees |-> 0]

Init ==
    /\ lib = FALSE
    /\ clients = [c \in Clients |-> [used |-> FALSE, redirect |-> TRUE, auth |-> TRUE]]
    /\ trans = [t \in Trans |-> NoTrans]
    /\ socks = [s \in 1..MaxSocks |-> NoSocket]
    /\ resolvers = [i \in 1..MaxSocks |-> NoResolver]

Quiet == \A t \in Trans : trans[t].pc = "idle"

At(t, pcs) == trans[t].used /\ trans[t].pc \in pcs
Does(t, new) == trans' = [trans EXCEPT ![t] = new]

Closed(S) == [s \in 1..MaxSocks |-> IF s \in S THEN NoSocket ELSE socks[s]]

-----------------------------------------------------------------------------
(* the library, clients and transactions; nobody tears down what another uses *)

HttpInit ==
    /\ ~lib /\ lib' = TRUE
    /\ clients' = [c \in Clients |-> [clients[c] EXCEPT !.used = FALSE]]
    /\ trans' = [t \in Trans |-> NoTrans]
    /\ UNCHANGED <<socks, resolvers>>

\* The transactions that T tells lose their sockets and what they received.
Drop(T) ==
    /\ trans' = [t \in Trans |-> IF t \in T THEN NoTrans ELSE trans[t]]
    /\ socks' = Closed({trans[t].sock : t \in T})

HttpEnd ==
    /\ lib /\ Quiet /\ lib' = FALSE
    /\ Drop({t \in Trans : trans[t].used})
    /\ clients' = [c \in Clients |-> [clients[c] EXCEPT !.used = FALSE]]
    /\ UNCHANGED resolvers

CreateClient(c) ==
    /\ lib /\ ~clients[c].used
    /\ clients' = [clients EXCEPT ![c] = [used |-> TRUE, redirect |-> TRUE, auth |-> TRUE]]
    /\ UNCHANGED <<lib, trans, socks, resolvers>>

\* The setters of a client; the one that is set is used by the next decision.
Configure(c) ==
    /\ lib /\ clients[c].used
    /\ \E redirect, auth \in BOOLEAN :
          clients' = [clients EXCEPT ![c].redirect = redirect, ![c].auth = auth]
    /\ UNCHANGED <<lib, trans, socks, resolvers>>

\* mutant: the transactions of a client outlive it
NoneOf(c) == {}
Of(c)     == {t \in Trans : trans[t].used /\ trans[t].client = c}

DestroyClient(c) ==
    /\ lib /\ clients[c].used /\ Quiet
    /\ Drop(Of(c))
    /\ clients' = [clients EXCEPT ![c].used = FALSE]
    /\ UNCHANGED <<lib, resolvers>>

CreateTransaction(t) ==
    /\ lib /\ ~trans[t].used
    /\ \E c \in Clients, user \in BOOLEAN :
          /\ clients[c].used
          /\ Does(t, NewTrans(c, user))
    /\ UNCHANGED <<lib, clients, socks, resolvers>>

DestroyTransaction(t) ==
    /\ lib /\ At(t, {"idle"})
    /\ Drop({t})
    /\ UNCHANGED <<lib, clients, resolvers>>

\* CloseConnection and AbortConnection, by any thread.
Disconnect(t) ==
    /\ trans[t].used
    /\ \E aborts \in BOOLEAN :
          Does(t, [trans[t] EXCEPT !.sock = 0, !.aborted = @ \/ aborts,
                       !.r.fault = @ \/ trans[t].sock # 0])
    /\ socks' = Closed({trans[t].sock})
    /\ UNCHANGED <<lib, clients, resolvers>>

-----------------------------------------------------------------------------
(* cellHttpSendRequest: look up, connect, send, read the headers, perhaps again *)

\* mutant: a second request keeps the connection of the first
KeptOpen(t) == {}
Previous(t) == {trans[t].sock}

\* mutant: what came with the headers of the response before is kept
KeptOver(t) == [NoResponse EXCEPT !.over = trans[t].r.over]
Reset(t)    == NoResponse

Awaited(i) == \E t \in Trans : trans[t].res = i
Unused(i)  == resolvers[i].worker \in {"off", "ended"} /\ ~Awaited(i)

\* http_perform_request closes, resets and starts a worker that looks the name up.
Perform(t, new) ==
    \E i \in 1..MaxSocks :
       /\ Unused(i) /\ \A j \in 1 .. i - 1 : ~Unused(j)
       /\ Does(t, [new EXCEPT !.pc = "lookup", !.res = i, !.sock = 0, !.r = Reset(t),
                       !.tries = @ + 1])
       /\ socks' = Closed(Previous(t))
       /\ resolvers' = [resolvers EXCEPT ![i] = [NoResolver EXCEPT !.worker = "looks"]]
       /\ UNCHANGED <<lib, clients>>

Send(t) ==
    /\ lib /\ At(t, {"idle"}) /\ ~trans[t].aborted
    /\ Perform(t, [trans[t] EXCEPT !.redirects = 0, !.tries = 0])

\* The worker has an answer, and a list to free if it is a good one.
LookedUp(i) ==
    /\ resolvers[i].worker = "looks"
    /\ \E list \in {"no", "held"} :
          resolvers' = [resolvers EXCEPT ![i].worker = "cas", ![i].list = list]
    /\ UNCHANGED <<lib, clients, trans, socks>>

Freed(x) == [x EXCEPT !.frees = @ + 1, !.list = IF @ = "held" THEN "freed" ELSE @]

\* It publishes it; it frees what the call has given up on.
WorkerEnds(i) ==
    /\ resolvers[i].worker = "cas"
    /\ resolvers' = [resolvers EXCEPT ![i] =
          [(IF @.state = 2 THEN Freed(@) ELSE [@ EXCEPT !.state = 1]) EXCEPT !.worker = "ended"]]
    /\ UNCHANGED <<lib, clients, trans, socks>>

\* The call takes the answer: the list is freed after the connect.
Take(t) ==
    LET i == trans[t].res IN
    /\ resolvers' = [resolvers EXCEPT ![i] = Freed(@)]
    /\ Does(t, [trans[t] EXCEPT !.res = 0,
                    !.pc = IF resolvers[i].list = "held" THEN "connect" ELSE "idle"])

Found(t) ==
    /\ At(t, {"lookup"}) /\ resolvers[trans[t].res].state = 1
    /\ Take(t)
    /\ UNCHANGED <<lib, clients, socks>>

TimesOut(t) ==
    /\ At(t, {"lookup"})
    /\ Does(t, [trans[t] EXCEPT !.pc = "givesUp"])
    /\ UNCHANGED <<lib, clients, socks, resolvers>>

\* mutant: it is abandoned whatever the worker has done in the meantime
Regardless(i) == TRUE
Abandons(i)   == resolvers[i].state = 0

GivesUp(t) ==
    LET i == trans[t].res IN
    /\ At(t, {"givesUp"})
    /\ IF Abandons(i)
       THEN /\ resolvers' = [resolvers EXCEPT ![i].state = 2]
            /\ Does(t, [trans[t] EXCEPT !.res = 0, !.pc = "idle"])
       ELSE Take(t)
    /\ UNCHANGED <<lib, clients, socks>>

\* The server is chosen: what it answers, how much of it, and whether it closes then.
Connect(t) ==
    /\ At(t, {"connect"})
    /\ \/ \* no socket, refused or timed out
          /\ Does(t, [trans[t] EXCEPT !.pc = "idle"])
          /\ UNCHANGED socks
       \/ \E s \in 1..MaxSocks, sizes \in Bodies, form \in {"chunked", "length", "close"},
             status \in {"ok", "moved", "401"}, closes \in BOOLEAN :
          /\ ~socks[s].open /\ \A u \in 1 .. s - 1 : socks[u].open
          /\ \E upTo \in 0 .. Len(Wire(form, sizes)) :
                /\ closes \/ upTo = Len(Wire(form, sizes))
                /\ status = "ok" \/ (upTo = Len(Wire(form, sizes)) /\ form = "length")
                /\ socks' = [socks EXCEPT ![s] =
                      [open |-> TRUE, left |-> SubSeq(Wire(form, sizes), 1, upTo),
                       closes |-> closes, status |-> status, form |-> form,
                       body |-> Total(sizes)]]
          /\ Does(t, [trans[t] EXCEPT !.pc = "send", !.fresh = s])
    /\ UNCHANGED <<lib, clients, resolvers>>

\* The socket is the transaction's only when everything was sent.
SendBytes(t) ==
    /\ At(t, {"send"})
    /\ \/ /\ Does(t, [trans[t] EXCEPT !.pc = "idle", !.fresh = 0])
          /\ socks' = Closed({trans[t].fresh})
       \/ /\ Does(t, [trans[t] EXCEPT !.pc = "headers", !.sock = trans[t].fresh, !.fresh = 0,
                          !.sent = TRUE])
          /\ UNCHANGED socks
    /\ UNCHANGED <<lib, clients, resolvers>>

\* http_read_response_headers: an error, the end, headers that are too long or make no sense.
HeadersFail(t) ==
    /\ At(t, {"headers"})
    /\ Does(t, [trans[t] EXCEPT !.pc = "idle", !.sock = 0])
    /\ socks' = Closed({trans[t].sock})
    /\ UNCHANGED <<lib, clients, resolvers>>

\* mutant: the part of the body that came with the headers is dropped
Dropped(left, k)  == <<>>
Leftover(left, k) == SubSeq(left, 1, k)

Headers(t) ==
    LET s == trans[t].sock IN
    /\ At(t, {"headers"}) /\ s # 0
    /\ \E k \in 0 .. Len(socks[s].left) :
          /\ socks' = [socks EXCEPT ![s].left = SubSeq(@, k + 1, Len(@))]
          /\ Does(t, [trans[t] EXCEPT !.pc = "judge",
                 !.r = [@ EXCEPT !.parsed = TRUE, !.status = socks[s].status,
                           !.form = socks[s].form, !.body = socks[s].body,
                           !.length = IF socks[s].form = "length" THEN socks[s].body ELSE @,
                           !.over = IF k = 0 THEN @ ELSE Leftover(socks[s].left, k)]])
    /\ UNCHANGED <<lib, clients, resolvers>>

\* mutant: the limit lets one more pass
OneMore(n)    == n > MaxRedirects
TooMany(n)    == n >= MaxRedirects

\* A redirection and the credentials of the URI are tried within the call.
Judge(t) ==
    LET c == clients[trans[t].client]
        follows == c.redirect /\ trans[t].r.status = "moved"
        proves  == c.auth /\ trans[t].r.status = "401" /\ trans[t].user /\ ~trans[t].auth
    IN
    /\ At(t, {"judge"})
    /\ \/ follows /\ ~TooMany(trans[t].redirects)
          /\ Perform(t, [trans[t] EXCEPT !.redirects = @ + 1])
       \/ proves /\ Perform(t, [trans[t] EXCEPT !.auth = TRUE])
       \/ \* the response, one that points where the library cannot go, or an error
          /\ ~proves
          /\ Does(t, [trans[t] EXCEPT !.pc = "idle"])
          /\ UNCHANGED <<lib, clients, socks, resolvers>>

-----------------------------------------------------------------------------
(* cellHttpRecvResponse *)

Response(t) == trans[t].r

Recv(t) ==
    /\ lib /\ At(t, {"idle"}) /\ ~trans[t].aborted /\ trans[t].sent /\ Response(t).parsed
    /\ ~Response(t).failed \/ Persist
    /\ \E n \in Sizes : Does(t, [trans[t] EXCEPT !.pc = "recv", !.want = n, !.buf = <<>>])
    /\ UNCHANGED <<lib, clients, socks, resolvers>>

\* http_body_read_raw: first what came with the headers, then the socket.
Source(t) == IF Response(t).over # <<>> THEN Response(t).over
             ELSE IF trans[t].sock = 0 THEN <<>> ELSE socks[trans[t].sock].left

RawCounts(t, want) ==
    IF Response(t).over # <<>> THEN {Min2(Len(Source(t)), want)} ELSE 1 .. Min2(Len(Source(t)), want)

Ends(t) == Source(t) = <<>> /\ (trans[t].sock # 0 => socks[trans[t].sock].closes)

\* n tokens are read, and the transaction becomes new.
Reads(t, n, new) ==
    LET rest == SubSeq(Source(t), n + 1, Len(Source(t))) IN
    IF Response(t).over # <<>>
    THEN Does(t, [new EXCEPT !.r.over = rest]) /\ UNCHANGED socks
    ELSE Does(t, new) /\ (IF n = 0 THEN UNCHANGED socks
                          ELSE socks' = [socks EXCEPT ![trans[t].sock].left = rest])

Got(t) == [i \in DOMAIN trans[t].buf |-> trans[t].buf[i].n]

\* The call returns what it has, or an error.
Returned(t) ==
    [trans[t] EXCEPT !.pc = "idle", !.want = 0, !.buf = <<>>, !.r.told = @ \o Got(t),
        !.r.ended = @ \/ trans[t].buf = <<>>]
Failed(t) == [trans[t] EXCEPT !.pc = "idle", !.want = 0, !.buf = <<>>, !.r.failed = TRUE]
Hurt(x)   == [x EXCEPT !.r.fault = TRUE]

Room(t) == trans[t].want - Len(trans[t].buf)

IdentityWant(t) ==
    LET r == Response(t) IN
    IF r.length = Unknown THEN Room(t) ELSE Min2(Room(t), r.length - r.received)

RecvIdentity(t) ==
    LET want == IdentityWant(t) IN
    /\ At(t, {"recv"}) /\ Response(t).form # "chunked"
    /\ \/ /\ want = 0 \/ Response(t).eof
          /\ Reads(t, 0, Returned(t))
       \/ /\ want > 0 /\ ~Response(t).eof
          /\ \/ \E n \in RawCounts(t, want) :
                   Reads(t, n, [trans[t] EXCEPT !.buf = @ \o SubSeq(Source(t), 1, n),
                                    !.r.received = @ + n])
             \/ /\ Ends(t)
                /\ Reads(t, 0, [Returned(t) EXCEPT !.r.eof = TRUE,
                                   !.r.length = IF @ = Unknown THEN Response(t).received ELSE @])
             \/ \* an error or a timeout
                /\ Response(t).over = <<>> /\ trans[t].sock # 0
                /\ Reads(t, 0, Hurt(IF trans[t].buf # <<>> THEN Returned(t) ELSE Failed(t)))
    /\ UNCHANGED <<lib, clients, resolvers>>

\* mutant: the line after a chunk is left for the next size
NextSize(phase) == "size"
Rest(phase)     == "nl"

\* One line of the framing in phase size, nl or trailer.
Line(t) ==
    LET r == Response(t) tok == Head(Source(t)) IN
    CASE r.phase = "size" /\ tok.k = "size" ->
              [trans[t] EXCEPT !.r.phase = IF tok.n = 0 THEN "trailer" ELSE "data",
                               !.r.remaining = tok.n]
      [] r.phase = "size" /\ tok.k # "size" -> Failed(t)
      [] r.phase = "nl" -> [trans[t] EXCEPT !.r.phase = "size"]
      [] r.phase = "trailer" /\ tok.k = "field" -> trans[t]
      [] OTHER -> [Returned(t) EXCEPT !.r.phase = "done", !.r.eof = TRUE]

RecvChunked(t) ==
    LET r == Response(t) want == Min2(Room(t), r.remaining) IN
    /\ At(t, {"recv"}) /\ r.form = "chunked"
    /\ IF Room(t) = 0 \/ r.phase = "done" THEN Reads(t, 0, Returned(t))
       ELSE \/ /\ r.phase = "data"
               /\ \E n \in RawCounts(t, want) :
                     Reads(t, n, [trans[t] EXCEPT !.buf = @ \o SubSeq(Source(t), 1, n),
                                      !.r.received = @ + n, !.r.remaining = @ - n,
                                      !.r.phase = IF r.remaining = n THEN Rest(@) ELSE @])
            \/ /\ r.phase # "data" /\ Source(t) # <<>>
               /\ Reads(t, 1, Line(t))
            \/ /\ Ends(t)
               /\ IF r.phase = "trailer"
                  THEN Reads(t, 0, Hurt([Returned(t) EXCEPT !.r.phase = "done", !.r.eof = TRUE]))
                  ELSE Reads(t, 0, Hurt(Failed(t)))
            \/ /\ r.over = <<>> /\ trans[t].sock # 0
               /\ Reads(t, 0, Hurt(Failed(t)))
    /\ UNCHANGED <<lib, clients, resolvers>>

-----------------------------------------------------------------------------

Next ==
    \/ HttpInit \/ HttpEnd
    \/ \E c \in Clients : CreateClient(c) \/ Configure(c) \/ DestroyClient(c)
    \/ \E t \in Trans :
          \/ CreateTransaction(t) \/ DestroyTransaction(t) \/ Disconnect(t)
          \/ Send(t) \/ Found(t) \/ TimesOut(t) \/ GivesUp(t) \/ Connect(t) \/ SendBytes(t)
          \/ HeadersFail(t) \/ Headers(t) \/ Judge(t)
          \/ Recv(t) \/ RecvIdentity(t) \/ RecvChunked(t)
    \/ \E i \in 1..MaxSocks : LookedUp(i) \/ WorkerEnds(i)

\* The variables have their types.
TypeOK ==
    /\ \A t \in Trans :
          /\ trans[t].sock \in 0..MaxSocks /\ trans[t].fresh \in 0..MaxSocks
          /\ trans[t].redirects \in 0..MaxRedirects
          /\ Response(t).phase \in {"size", "data", "nl", "trailer", "done"}
    /\ \A i \in 1..MaxSocks : resolvers[i].state \in 0..2

\* An open socket is held by one transaction of a client in use.
SocketsOwned ==
    \A s \in 1..MaxSocks :
       LET owners == {t \in Trans : s \in {trans[t].sock, trans[t].fresh}} IN
       /\ socks[s].open => owners # {}
       /\ \A t, u \in owners : t = u /\ trans[t].used /\ clients[trans[t].client].used

\* A lookup record and its list are freed once, when both sides are done with them.
LookupFreedOnce ==
    \A i \in 1..MaxSocks :
       LET x == resolvers[i] IN
       /\ x.frees <= 1
       /\ x.frees = 1 => x.worker = "ended" /\ ~Awaited(i) /\ x.list # "held"
       /\ x.worker = "ended" /\ ~Awaited(i) => x.frees = 1

\* What the guest is told of is the body from its beginning; it is told of an end when it
\* has all of it or the connection failed, and of an error when the connection failed.
BodyExact ==
    \A t \in Trans :
       LET r == Response(t) IN
       /\ r.told = [i \in 1 .. Len(r.told) |-> i] /\ Len(r.told) <= r.body
       /\ r.ended /\ Len(r.told) < r.body =>
             r.fault \/ (r.form # "chunked" /\ r.eof)
       /\ r.failed => r.fault

\* A call ends after the redirections the library follows and one try with credentials.
CallsBounded == \A t \in Trans : trans[t].tries <= MaxRedirects + 2

HttpSound == SocketsOwned /\ LookupFreedOnce /\ BodyExact /\ CallsBounded
=============================================================================
