----------------------------- MODULE RateLimits -----------------------------
(***************************************************************************)
(* RateLimiter (src/src/rate_limiter.cpp) as NetworkManager uses it, one   *)
(* for each client, and the limits of RpcManager::on_receive               *)
(* (src/src/rpc_manager.cpp), one for each kind of call over all clients.  *)
(*                                                                         *)
(* Time is counted in units in which every rate is a whole number; the     *)
(* rounding of float is not modelled.  rl_log is the history of what       *)
(* arrived and what the buckets said.                                      *)
(***************************************************************************)
EXTENDS Integers, Sequences, FiniteSets, FiniteSetsExt

CONSTANTS
  RlClients,      \* the clients
  RlMessages,     \* [rate, burst] of configure_messages
  RlBytes,        \* of configure_bytes
  RlRpcs,         \* of configure_rpcs
  RlOneRpc,       \* of set_rpc_rate_limit
  RlSizes,        \* sizes of messages
  RlMaxTime,      \* bound: time
  RlMaxEvents     \* bound: messages and calls that arrive

RlLimit == [rate : Nat, burst : Nat]

ASSUME RlAssumption ==
  /\ RlMessages \in RlLimit /\ RlBytes \in RlLimit
  /\ RlRpcs \in RlLimit /\ RlOneRpc \in RlLimit
  /\ RlSizes \subseteq Nat \ {0}
  /\ RlMaxTime \in Nat /\ RlMaxEvents \in Nat

VARIABLES
  rl_now,      \* now_seconds()
  rl_message,  \* msg_bucket_ of each client
  rl_byte,     \* byte_bucket_
  rl_rpc,      \* rpc_bucket_
  rl_one_rpc,  \* the bucket of the call in rpc_rate_buckets_
  rl_log       \* what arrived

rl_vars == <<rl_now, rl_message, rl_byte, rl_rpc, rl_one_rpc, rl_log>>

Bucket == [tokens : Nat, last_update : 0 .. RlMaxTime]

\* The answers of the buckets asked; run is whether the message went through.
RlEvent ==
  [type : {"message"}, client : RlClients, time : 0 .. RlMaxTime, size : RlSizes,
   msg_ok : BOOLEAN, byte_ok : BOOLEAN, run : BOOLEAN]
    \cup [type : {"rpc"}, client : RlClients, time : 0 .. RlMaxTime, rpc_ok : BOOLEAN,
          permitted : BOOLEAN, run : BOOLEAN]

RlTypeOK ==
  /\ rl_now \in 0 .. RlMaxTime
  /\ rl_message \in [RlClients -> Bucket] /\ rl_byte \in [RlClients -> Bucket]
  /\ rl_rpc \in [RlClients -> Bucket] /\ rl_one_rpc \in Bucket
  /\ \A c \in RlClients : rl_message[c].tokens <= RlMessages.burst
  /\ rl_log \in Seq(RlEvent)

-----------------------------------------------------------------------------

\* Bucket::configure: a full bucket.
configure(limit) == [tokens |-> limit.burst, last_update |-> 0]

RateLimitsInit ==
  /\ rl_now = 0
  /\ rl_message = [c \in RlClients |-> configure(RlMessages)]
  /\ rl_byte = [c \in RlClients |-> configure(RlBytes)]
  /\ rl_rpc = [c \in RlClients |-> configure(RlRpcs)]
  /\ rl_one_rpc = configure(RlOneRpc)
  /\ rl_log = << >>

\* A bucket is disabled only if both numbers are 0.
Disabled(limit) == limit.rate = 0 /\ limit.burst = 0

Refilled_Early(b, limit) == Min({limit.burst, b.tokens + limit.rate * rl_now})

Refilled(b, limit) ==
  Min({limit.burst, b.tokens + limit.rate * (rl_now - b.last_update)})

\* Bucket::consume: whether it succeeds, and the bucket after it.
Consumes(b, limit, amount) == Disabled(limit) \/ Refilled(b, limit) >= amount

consume_Debt(b, limit, amount) ==
  IF Disabled(limit) THEN b
  ELSE [tokens |-> Refilled(b, limit) - amount, last_update |-> rl_now]

consume_Refuse(b, limit, amount) ==
  IF Disabled(limit) THEN b
  ELSE [tokens |-> IF Refilled(b, limit) >= amount THEN Refilled(b, limit) - amount ELSE 0,
        last_update |-> rl_now]

consume(b, limit, amount) ==
  IF Disabled(limit) THEN b
  ELSE [tokens |-> IF Refilled(b, limit) >= amount
                   THEN Refilled(b, limit) - amount ELSE Refilled(b, limit),
        last_update |-> rl_now]

\* allow_message for data of a client: both buckets are asked in any case.
allow_message(c, size) ==
  LET msg_ok == Consumes(rl_message[c], RlMessages, 1)
      byte_ok == Consumes(rl_byte[c], RlBytes, size) IN
  /\ Len(rl_log) < RlMaxEvents
  /\ rl_message' = [rl_message EXCEPT ![c] = consume(@, RlMessages, 1)]
  /\ rl_byte' = [rl_byte EXCEPT ![c] = consume(@, RlBytes, size)]
  /\ rl_log' = Append(rl_log,
       [type |-> "message", client |-> c, time |-> rl_now, size |-> size,
        msg_ok |-> msg_ok, byte_ok |-> byte_ok, run |-> msg_ok /\ byte_ok])
  /\ UNCHANGED <<rl_now, rl_rpc, rl_one_rpc>>

\* The bucket of one kind of call: here a rate of 0 means that there is no limit.
OneRpcAllows ==
  RlOneRpc.rate = 0 \/ Refilled(rl_one_rpc, RlOneRpc) >= 1

one_rpc_consume ==
  IF RlOneRpc.rate = 0 THEN rl_one_rpc
  ELSE [tokens |-> IF OneRpcAllows THEN Refilled(rl_one_rpc, RlOneRpc) - 1
                   ELSE Refilled(rl_one_rpc, RlOneRpc),
        last_update |-> rl_now]

receive_rpc_Early(c, permitted) ==
  LET rpc_ok == Consumes(rl_rpc[c], RlRpcs, 1)
      asked == rpc_ok IN
  /\ Len(rl_log) < RlMaxEvents
  /\ rl_rpc' = [rl_rpc EXCEPT ![c] = consume(@, RlRpcs, 1)]
  /\ rl_one_rpc' = IF asked THEN one_rpc_consume ELSE rl_one_rpc
  /\ rl_log' = Append(rl_log,
       [type |-> "rpc", client |-> c, time |-> rl_now, rpc_ok |-> rpc_ok,
        permitted |-> permitted, run |-> rpc_ok /\ permitted /\ OneRpcAllows])
  /\ UNCHANGED <<rl_now, rl_message, rl_byte>>

\* A call of a client: allow_rpc of its limiter; then on_receive, which looks at
\* the size, the handler and its authority before it asks the bucket of the call.
receive_rpc(c, permitted) ==
  LET rpc_ok == Consumes(rl_rpc[c], RlRpcs, 1)
      asked == rpc_ok /\ permitted IN
  /\ Len(rl_log) < RlMaxEvents
  /\ rl_rpc' = [rl_rpc EXCEPT ![c] = consume(@, RlRpcs, 1)]
  /\ rl_one_rpc' = IF asked THEN one_rpc_consume ELSE rl_one_rpc
  /\ rl_log' = Append(rl_log,
       [type |-> "rpc", client |-> c, time |-> rl_now, rpc_ok |-> rpc_ok,
        permitted |-> permitted, run |-> asked /\ OneRpcAllows])
  /\ UNCHANGED <<rl_now, rl_message, rl_byte>>

rl_tick ==
  /\ rl_now < RlMaxTime
  /\ rl_now' = rl_now + 1
  /\ UNCHANGED <<rl_message, rl_byte, rl_rpc, rl_one_rpc, rl_log>>

RateLimitsNext ==
  \/ \E c \in RlClients :
       \/ \E s \in RlSizes : allow_message(c, s)
       \/ \E p \in BOOLEAN : receive_rpc(c, p)
  \/ rl_tick

RateLimitsSpec == RateLimitsInit /\ [][RateLimitsNext]_rl_vars

-----------------------------------------------------------------------------
(* Properties.                                                             *)

RlIndex(type, c, i, j) ==
  {k \in i .. j : rl_log[k].type = type /\ rl_log[k].client = c}

RlWindow(limit, i, j) == limit.burst + limit.rate * (rl_log[j].time - rl_log[i].time)

\* The bytes of the messages of a log at the given places.
RlBytesOf(log, indices) ==
  LET sum[k \in 0 .. Len(log)] ==
        IF k = 0 THEN 0 ELSE sum[k - 1] + (IF k \in indices THEN log[k].size ELSE 0)
  IN sum[Len(log)]

\* "`rate` is sustained msgs/sec; `burst` is the maximum number of messages that
\* can arrive in a single burst": in no window of time do more messages, bytes
\* or calls of a client go through than burst and rate allow, nor more calls of
\* one kind from all clients together.
RlWithinLimits ==
  \A i \in DOMAIN rl_log : \A j \in i .. Len(rl_log) :
    LET ran(S) == {k \in S : rl_log[k].run} IN
    /\ \A c \in RlClients :
         /\ Disabled(RlMessages) \/
              Cardinality(ran(RlIndex("message", c, i, j))) <= RlWindow(RlMessages, i, j)
         /\ Disabled(RlBytes) \/
              RlBytesOf(rl_log, ran(RlIndex("message", c, i, j))) <= RlWindow(RlBytes, i, j)
         /\ Disabled(RlRpcs) \/
              Cardinality(ran(RlIndex("rpc", c, i, j))) <= RlWindow(RlRpcs, i, j)
    /\ RlOneRpc.rate = 0 \/
         Cardinality(ran(UNION {RlIndex("rpc", c, i, j) : c \in RlClients}))
           <= RlWindow(RlOneRpc, i, j)

\* Nothing is refused without need: a message is refused only if a window of time
\* that ends with it would exceed a limit, counting what a bucket let pass, and a
\* permitted call only if such a window exists of its client's calls or of the
\* calls that ran.  A call that may not run costs the other clients nothing.
RlRefusedForALimit ==
  \A j \in DOMAIN rl_log :
    LET e == rl_log[j]
        over(limit, used(_)) == \E i \in 1 .. j : used(i) > RlWindow(limit, i, j) IN
    /\ e.type = "message" =>
         /\ e.msg_ok \/ over(RlMessages, LAMBDA i :
              1 + Cardinality({k \in RlIndex("message", e.client, i, j - 1) :
                                 rl_log[k].msg_ok}))
         /\ e.byte_ok \/ over(RlBytes, LAMBDA i :
              e.size + RlBytesOf(rl_log, {k \in RlIndex("message", e.client, i, j - 1) :
                                    rl_log[k].byte_ok}))
    /\ e.type = "rpc" /\ e.permitted /\ ~e.run =>
         \/ over(RlRpcs, LAMBDA i :
              1 + Cardinality({k \in RlIndex("rpc", e.client, i, j - 1) :
                                 rl_log[k].rpc_ok}))
         \/ over(RlOneRpc, LAMBDA i :
              1 + Cardinality({k \in UNION {RlIndex("rpc", c, i, j - 1) : c \in RlClients} :
                                 rl_log[k].run}))

\* The buckets are exact: what goes through is within the limits, and what does not
\* would not have been.
RateLimitsInv == RlTypeOK /\ RlWithinLimits /\ RlRefusedForALimit

\* "Returns true if allowed, false if any limit is exceeded" (allow_message): the
\* messages that went through and this one would exceed a limit.
RlExceedsALimit ==
  \A j \in DOMAIN rl_log :
    LET e == rl_log[j] IN
    e.type = "message" /\ ~e.run =>
      \E i \in 1 .. j :
        LET ran == {k \in RlIndex("message", e.client, i, j - 1) : rl_log[k].run} IN
        \/ 1 + Cardinality(ran) > RlWindow(RlMessages, i, j)
        \/ e.size + RlBytesOf(rl_log, ran) > RlWindow(RlBytes, i, j)

\* "0 = unlimited" (max_messages_per_sec of NetworkConfig).
RlZeroIsUnlimited ==
  RlMessages.rate = 0 =>
    \A j \in DOMAIN rl_log : rl_log[j].type = "message" => rl_log[j].msg_ok
=============================================================================
