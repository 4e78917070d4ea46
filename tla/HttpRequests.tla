---------------------------- MODULE HttpRequests ----------------------------
(***************************************************************************)
(* The way of a request through http_plugin.  A thread of the plugin's     *)
(* pool reads the request, counts its body among the bytes in flight and   *)
(* posts it to the application's main thread; there the handler runs and   *)
(* calls back, at once or later, with a response, which is counted as well *)
(* and posted back to the pool, where it is turned into JSON, counted once *)
(* more, and sent.  bytes_in_flight is an atomic counter that the threads  *)
(* check and change without a lock, in separate steps; once it is over     *)
(* max_bytes_in_flight the plugin answers "Busy".                          *)
(*                                                                         *)
(* Sizes are in mebibytes.  The connection itself is websocketpp's: here   *)
(* it carries one request after the other and counts the answers; that it  *)
(* is closed before it is answered is left out.                            *)
(***************************************************************************)
EXTENDS Naturals, Sequences, FiniteSets, FiniteSetsExt, TLAPS

CONSTANTS
  Connections,
  Threads,         \* http-threads: thread_pool_size
  LimitOption,     \* http-max-bytes-in-flight-mb
  Bodies,          \* the sizes a request body may have
  Responses,       \* the packed sizes of a response
  Jsons,           \* the sizes of its JSON text; 0 is what a failed conversion leaves
  Idle             \* the main thread runs something else

ASSUME HttpAssumption ==
  /\ Threads \in Nat \ {0} /\ LimitOption \in Nat
  /\ Bodies \cup Responses \cup Jsons \subseteq Nat
  /\ Idle \notin Connections

VARIABLES
  bytes_in_flight,
  request,    \* connection -> where its request is (handle_http_request)
  callback,   \* connection -> where its response is (the response callback)
  size,       \* connection -> the sizes of body, response and JSON
  answer,     \* connection -> the statuses it was answered with
  main        \* the connection the main thread works for

http_vars == <<bytes_in_flight, request, callback, size, answer, main>>

\* plugin_initialize multiplies the option by 1024 * 1024 in 32 bits, which
\* leaves the option modulo 2^12 in mebibytes.
max_bytes_in_flight == LimitOption % 4096

Ok == 200
NotFound == 404
Busy == 429             \* too_many_requests
InternalError == 500

verify_max_bytes_in_flight == ~(bytes_in_flight > max_bytes_in_flight)

\* The threads of the pool at work: on the receiving side between the check and
\* the post, on the sending side while a response is encoded.
PoolBusy == {c \in Connections : request[c] = "checked"} \cup {c \in Connections : callback[c] \in {"encoding", "encoded", "sent"}}
PoolThreadFree == Cardinality(PoolBusy) < Threads

Answer(c, status) == answer' = [answer EXCEPT ![c] = Append(@, status)]

RequestAt(c, where) == request' = [request EXCEPT ![c] = where]
CallbackAt(c, where) == callback' = [callback EXCEPT ![c] = where]

-----------------------------------------------------------------------------
(* handle_http_request, on a thread of the pool *)

Receive(c, body) ==
  /\ request[c] = "idle" /\ PoolThreadFree
  /\ IF ~verify_max_bytes_in_flight
     THEN RequestAt(c, "done") /\ Answer(c, Busy) /\ UNCHANGED size
     ELSE \/ RequestAt(c, "done") /\ Answer(c, NotFound) /\ UNCHANGED size
          \/ /\ RequestAt(c, "checked")
             /\ size' = [size EXCEPT ![c].body = body]
             /\ UNCHANGED answer
  /\ UNCHANGED <<bytes_in_flight, callback, main>>

Post(c) ==
  /\ request[c] = "checked"
  /\ bytes_in_flight' = bytes_in_flight + size[c].body
  /\ RequestAt(c, "posted")
  /\ UNCHANGED <<callback, size, answer, main>>

-----------------------------------------------------------------------------
(* The posted request, on the main thread *)

Refuse(c) ==
  /\ main = Idle /\ request[c] = "posted" /\ ~verify_max_bytes_in_flight
  /\ main' = c
  /\ Answer(c, Busy)
  /\ RequestAt(c, "returning")
  /\ UNCHANGED <<bytes_in_flight, callback, size>>

\* The handler keeps the callback for later, calls it at once, or throws before
\* it does either.  That is what the API plugins' handlers do: the CALL macros
\* catch what is thrown later and answer through the callback.
CallHandler(c) ==
  /\ main = Idle /\ request[c] = "posted" /\ verify_max_bytes_in_flight
  /\ main' = c
  /\ \/ RequestAt(c, "returning") /\ CallbackAt(c, "waiting") /\ UNCHANGED answer
     \/ RequestAt(c, "calling") /\ CallbackAt(c, "calling") /\ UNCHANGED answer
     \/ RequestAt(c, "returning") /\ Answer(c, InternalError) /\ UNCHANGED callback
  /\ UNCHANGED <<bytes_in_flight, size>>

Return_KeepsBody(c) ==
  /\ main = c /\ request[c] = "returning"
  /\ bytes_in_flight' = IF Busy \in {answer[c][i] : i \in DOMAIN answer[c]} THEN bytes_in_flight ELSE bytes_in_flight - size[c].body
  /\ main' = Idle
  /\ RequestAt(c, "done")
  /\ UNCHANGED <<callback, size, answer>>

Return(c) ==
  /\ main = c /\ request[c] = "returning"
  /\ bytes_in_flight' = bytes_in_flight - size[c].body
  /\ main' = Idle
  /\ RequestAt(c, "done")
  /\ UNCHANGED <<callback, size, answer>>

-----------------------------------------------------------------------------
(* The response callback, on the main thread: within the handler or later *)

CallLater(c) ==
  /\ main = Idle /\ callback[c] = "waiting"
  /\ main' = c
  /\ CallbackAt(c, "calling")
  /\ UNCHANGED <<bytes_in_flight, request, size, answer>>

CountResponse(c, response) ==
  /\ main = c /\ callback[c] = "calling"
  /\ size' = [size EXCEPT ![c].response = response]
  /\ bytes_in_flight' = bytes_in_flight + response
  /\ CallbackAt(c, "counted")
  /\ UNCHANGED <<request, answer, main>>

\* The callback returns to the handler, or to the main loop.
CallbackReturns(c) ==
  IF request[c] = "calling" THEN RequestAt(c, "returning") /\ UNCHANGED main
  ELSE main' = Idle /\ UNCHANGED request

DropResponse(c) ==
  /\ main = c /\ callback[c] = "counted" /\ ~verify_max_bytes_in_flight
  /\ Answer(c, Busy)
  /\ CallbackAt(c, "dropping")
  /\ UNCHANGED <<bytes_in_flight, request, size, main>>

UncountDropped_PostsToo(c) ==
  /\ main = c /\ callback[c] = "dropping"
  /\ CallbackAt(c, "posted")
  /\ CallbackReturns(c)
  /\ UNCHANGED <<bytes_in_flight, size, answer>>

UncountDropped(c) ==
  /\ main = c /\ callback[c] = "dropping"
  /\ bytes_in_flight' = bytes_in_flight - size[c].response
  /\ CallbackAt(c, "done")
  /\ CallbackReturns(c)
  /\ UNCHANGED <<size, answer>>

PostResponse(c) ==
  /\ main = c /\ callback[c] = "counted" /\ verify_max_bytes_in_flight
  /\ CallbackAt(c, "posted")
  /\ CallbackReturns(c)
  /\ UNCHANGED <<bytes_in_flight, size, answer>>

-----------------------------------------------------------------------------
(* The posted response, on a thread of the pool *)

Encode(c) ==
  /\ callback[c] = "posted" /\ PoolThreadFree
  /\ CallbackAt(c, "encoding")
  /\ UNCHANGED <<bytes_in_flight, request, size, answer, main>>

CountJson(c, json) ==
  /\ callback[c] = "encoding"
  /\ size' = [size EXCEPT ![c].json = json]
  /\ bytes_in_flight' = bytes_in_flight + json
  /\ CallbackAt(c, "encoded")
  /\ UNCHANGED <<request, answer, main>>

SendResponse(c) ==
  /\ callback[c] = "encoded"
  /\ Answer(c, IF size[c].json = 0 THEN InternalError ELSE Ok)
  /\ CallbackAt(c, "sent")
  /\ UNCHANGED <<bytes_in_flight, request, size, main>>

Uncount(c) ==
  /\ callback[c] = "sent"
  /\ bytes_in_flight' = bytes_in_flight - (size[c].json + size[c].response)
  /\ CallbackAt(c, "done")
  /\ UNCHANGED <<request, size, answer, main>>

-----------------------------------------------------------------------------
NoSize == [body |-> 0, response |-> 0, json |-> 0]

\* The connection brings another request when nobody works on this one any more.
Reuse(c) ==
  /\ request[c] = "done" /\ callback[c] \in {"none", "done"}
  /\ RequestAt(c, "idle") /\ CallbackAt(c, "none")
  /\ answer' = [answer EXCEPT ![c] = <<>>]
  /\ size' = [size EXCEPT ![c] = NoSize]
  /\ UNCHANGED <<bytes_in_flight, main>>

HttpInit ==
  /\ bytes_in_flight = 0
  /\ request = [c \in Connections |-> "idle"]
  /\ callback = [c \in Connections |-> "none"]
  /\ size = [c \in Connections |-> NoSize]
  /\ answer = [c \in Connections |-> <<>>]
  /\ main = Idle

MainLoop(c) ==
  \/ Refuse(c) \/ CallHandler(c) \/ Return(c)
  \/ (\E r \in Responses : CountResponse(c, r)) \/ DropResponse(c) \/ UncountDropped(c) \/ PostResponse(c)

PoolThread(c) ==
  \/ Post(c) \/ Encode(c) \/ (\E j \in Jsons : CountJson(c, j)) \/ SendResponse(c) \/ Uncount(c)

HttpNext ==
  \E c \in Connections : (\E b \in Bodies : Receive(c, b)) \/ MainLoop(c) \/ CallLater(c) \/ PoolThread(c) \/ Reuse(c)

HttpSpec == HttpInit /\ [][HttpNext]_http_vars

\* Each thread gets on with its work, and no posted work is passed over for ever.
\* A handler that kept the callback is trusted to call it.
HttpFairness ==
  \A c \in Connections : SF_http_vars(MainLoop(c) \/ CallLater(c)) /\ SF_http_vars(PoolThread(c))

HttpFairSpec == HttpSpec /\ HttpFairness
-----------------------------------------------------------------------------
(* What the plugin promises *)

\* What a request accounts for in bytes_in_flight.
Held(c) ==
  (IF request[c] \in {"posted", "calling", "returning"} THEN size[c].body ELSE 0)
  + (IF callback[c] \in {"counted", "dropping", "posted", "encoding", "encoded", "sent"} THEN size[c].response ELSE 0)
  + (IF callback[c] \in {"encoded", "sent"} THEN size[c].json ELSE 0)

\* Whichever way a request goes, served, refused at any of the three checks, or
\* failed, its share of bytes_in_flight comes and goes with it: a plugin with
\* nothing to do has nothing in flight, so it does not end up "Busy" for good.
BytesAccounted == bytes_in_flight = MapThenSumSet(Held, Connections)

\* A deferred response is sent once, in every order of the handler, a callback
\* it kept and the threads of the pool: a second send_http_response throws on
\* whatever thread it happens.  A handler that throws once it has called or kept
\* the callback would be answered again by handle_http_request's catch.
AnsweredOnce == \A c \in Connections : Len(answer[c]) <= 1

\* The limit is checked before the bytes of a body are counted, after those of a
\* response are, and not at all for its JSON.  Still the overshoot is bounded by
\* what the threads can do at a time, not by the number of requests.
LargestOf(sizes) == IF sizes = {} THEN 0 ELSE Max(sizes)
OvershootBounded ==
  bytes_in_flight <= max_bytes_in_flight + Threads * LargestOf(Bodies) + LargestOf(Responses) + Threads * LargestOf(Jsons)

\* The accounting of handle_http_request as a whole: exact, whichever way
\* requests go, and bounded by max_bytes_in_flight and what threads do at a time.
BytesSound == BytesAccounted /\ OvershootBounded

\* Every request that was taken on is answered, whatever the others do.
Unanswered(c) == request[c] # "idle" /\ answer[c] = <<>>
-----------------------------------------------------------------------------
(***************************************************************************)
(* AnsweredOnce, for any connections, sizes and limits.  HttpInv is the    *)
(* inductive invariant: where a request and its callback can be at the     *)
(* same time, and that nothing was answered while either may still answer. *)
(***************************************************************************)

Before == {"idle", "checked", "posted"}
InCallback == {"calling", "counted", "dropping"}
Open == {"waiting", "calling", "counted", "posted", "encoding", "encoded"}

\* The request and the callback of one connection, and what was answered.
HttpConn(c) ==
  /\ request[c] \in Before \cup {"calling", "returning", "done"}
  /\ callback[c] \in {"none"} \cup Open \cup {"dropping", "sent", "done"}
  /\ request[c] \in Before => callback[c] = "none"
  /\ request[c] = "calling" => callback[c] \in InCallback
  /\ callback[c] \in InCallback => request[c] \in {"calling", "done"}
  /\ request[c] \in {"calling", "returning"} \/ callback[c] \in InCallback => main = c
  /\ request[c] \in Before \/ callback[c] \in Open => answer[c] = <<>>
  /\ answer[c] = <<>> \/ \E s \in Nat : answer[c] = <<s>>

HttpInv ==
  /\ request = [c \in Connections |-> request[c]] /\ callback = [c \in Connections |-> callback[c]]
  /\ answer = [c \in Connections |-> answer[c]]
  /\ \A c \in Connections : HttpConn(c)

LEMMA HttpInitInv == HttpInit => HttpInv
BY DEF HttpInit, HttpInv, HttpConn, Before, InCallback, Open

\* Answering a request that was not answered yet.
LEMMA AnswerFirst ==
  ASSUME HttpInv, NEW c \in Connections, NEW s \in Nat, Answer(c, s), answer[c] = <<>>
  PROVE  /\ answer' = [d \in Connections |-> answer'[d]]
         /\ answer'[c] = <<s>>
         /\ \A d \in Connections \ {c} : answer'[d] = answer[d]
<1>1. Append(<<>>, s) = <<s>>
  OBVIOUS
<1>2. answer = [d \in Connections |-> answer[d]] /\ answer' = [answer EXCEPT ![c] = Append(@, s)]
  BY DEF Answer, HttpInv
<1>3. answer' = [answer EXCEPT ![c] = <<s>>]
  BY <1>1, <1>2
<1> QED BY <1>2, <1>3, Zenon

LEMMA HttpStepInv == HttpInv /\ [HttpNext]_http_vars => HttpInv'
<1> SUFFICES ASSUME HttpInv, [HttpNext]_http_vars PROVE HttpInv'
  OBVIOUS
<1>1. CASE UNCHANGED http_vars
  BY <1>1, Zenon DEF HttpInv, HttpConn, http_vars
<1>2. ASSUME NEW c \in Connections,
             (\E b \in Bodies : Receive(c, b)) \/ MainLoop(c) \/ CallLater(c) \/ PoolThread(c) \/ Reuse(c)
      PROVE  HttpInv'
  <2> USE DEF Before, InCallback, Open
  <2>1. HttpConn(c)
    BY DEF HttpInv
  <2>0. \A d \in Connections : HttpConn(d)
    BY DEF HttpInv
  <2>f. /\ request = [d \in Connections |-> request[d]] /\ callback = [d \in Connections |-> callback[d]]
        /\ answer = [d \in Connections |-> answer[d]] /\ Idle \notin Connections
    BY HttpAssumption DEF HttpInv
  <2>2. ASSUME NEW b \in Bodies, Receive(c, b) PROVE HttpInv'
    BY <2>0, <2>f, <2>2 DEF Receive, HttpInv, HttpConn, RequestAt, Answer, Busy, NotFound
  <2>3. CASE Post(c)
    BY <2>0, <2>f, <2>3 DEF Post, HttpInv, HttpConn, RequestAt
  <2>4. CASE Refuse(c)
    <3> DEFINE s == Busy
    <3>1. s \in Nat /\ Answer(c, s) /\ answer[c] = <<>>
      BY <2>1, <2>4 DEF Refuse, HttpConn, Busy
    <3> HIDE DEF s
    <3>2. /\ answer' = [d \in Connections |-> answer'[d]] /\ answer'[c] = <<s>>
          /\ \A d \in Connections \ {c} : answer'[d] = answer[d]
      BY <3>1, AnswerFirst
    <3> QED BY <2>0, <2>f, <2>4, <3>1, <3>2 DEF Refuse, RequestAt, HttpInv, HttpConn
  <2>5. CASE CallHandler(c)
    BY <2>0, <2>f, <2>5 DEF CallHandler, HttpInv, HttpConn, RequestAt, CallbackAt, Answer, InternalError
  <2>6. CASE Return(c)
    BY <2>0, <2>f, <2>6 DEF Return, HttpInv, HttpConn, RequestAt
  <2>7. CASE CallLater(c)
    BY <2>0, <2>f, <2>7 DEF CallLater, HttpInv, HttpConn, CallbackAt
  <2>8. ASSUME NEW r \in Responses, CountResponse(c, r) PROVE HttpInv'
    BY <2>0, <2>f, <2>8 DEF CountResponse, HttpInv, HttpConn, CallbackAt
  <2>9. CASE DropResponse(c)
    <3> DEFINE s == Busy
    <3>1. s \in Nat /\ Answer(c, s) /\ answer[c] = <<>>
      BY <2>1, <2>9 DEF DropResponse, HttpConn, Busy
    <3> HIDE DEF s
    <3>2. /\ answer' = [d \in Connections |-> answer'[d]] /\ answer'[c] = <<s>>
          /\ \A d \in Connections \ {c} : answer'[d] = answer[d]
      BY <3>1, AnswerFirst
    <3> QED BY <2>0, <2>f, <2>9, <3>1, <3>2 DEF DropResponse, CallbackAt, HttpInv, HttpConn
  <2>10. CASE UncountDropped(c)
    BY <2>0, <2>f, <2>10 DEF UncountDropped, HttpInv, HttpConn, CallbackAt, RequestAt, CallbackReturns
  <2>11. CASE PostResponse(c)
    BY <2>0, <2>f, <2>11 DEF PostResponse, HttpInv, HttpConn, CallbackAt, RequestAt, CallbackReturns
  <2>12. CASE Encode(c)
    BY <2>0, <2>f, <2>12 DEF Encode, HttpInv, HttpConn, CallbackAt
  <2>13. ASSUME NEW j \in Jsons, CountJson(c, j) PROVE HttpInv'
    BY <2>0, <2>f, <2>13 DEF CountJson, HttpInv, HttpConn, CallbackAt
  <2>14. CASE SendResponse(c)
    <3> DEFINE s == IF size[c].json = 0 THEN InternalError ELSE Ok
    <3>1. s \in Nat /\ Answer(c, s) /\ answer[c] = <<>>
      BY <2>1, <2>14 DEF SendResponse, HttpConn, Ok, InternalError
    <3> HIDE DEF s
    <3>2. /\ answer' = [d \in Connections |-> answer'[d]] /\ answer'[c] = <<s>>
          /\ \A d \in Connections \ {c} : answer'[d] = answer[d]
      BY <3>1, AnswerFirst
    <3> QED BY <2>0, <2>f, <2>14, <3>1, <3>2 DEF SendResponse, CallbackAt, HttpInv, HttpConn
  <2>15. CASE Uncount(c)
    BY <2>0, <2>f, <2>15 DEF Uncount, HttpInv, HttpConn, CallbackAt
  <2>16. CASE Reuse(c)
    BY <2>0, <2>f, <2>16, Zenon DEF Reuse, HttpInv, HttpConn, CallbackAt, RequestAt
  <2> QED BY <1>2, <2>2, <2>3, <2>4, <2>5, <2>6, <2>7, <2>8, <2>9, <2>10, <2>11, <2>12, <2>13, <2>14,
             <2>15, <2>16, Zenon DEF MainLoop, PoolThread
<1> QED BY <1>1, <1>2, Zenon DEF HttpNext

\* A request is answered at most once, for any connections, sizes and limits:
\* of the three checks in handle_http_request and make_http_response_handler, the
\* handler's exception and the encoded response only one gets to answer, if the
\* handler throws only before it calls or keeps the callback.
THEOREM AlwaysAnsweredOnce == HttpSpec => []AnsweredOnce
<1>1. HttpInv => AnsweredOnce
  <2> SUFFICES ASSUME HttpInv, NEW c \in Connections PROVE Len(answer[c]) <= 1
    BY DEF AnsweredOnce
  <2>1. CASE answer[c] = <<>>
    BY <2>1
  <2>2. ASSUME NEW s \in Nat, answer[c] = <<s>> PROVE Len(answer[c]) <= 1
    BY <2>2
  <2> QED BY <2>1, <2>2 DEF HttpInv, HttpConn
<1> QED BY <1>1, HttpInitInv, HttpStepInv, PTL DEF HttpSpec
=============================================================================
