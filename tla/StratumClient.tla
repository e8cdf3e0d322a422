---------------------------- MODULE StratumClient ----------------------------
(***************************************************************************)
(* One StratumClient: the connection state its threads share, connect(),    *)
(* disconnect() and close_connection() as any thread runs them, and the     *)
(* reader, keepalive and reconnect threads.  "M" is the thread of the       *)
(* client's owner, "R" the reader, "K" the keepalive loop, "C" the reconnect *)
(* loop.  pc[t] is the stack of the statements thread t has yet to run, so  *)
(* a call pushes a label and a return pops it; an empty stack is a thread   *)
(* that has ended.                                                          *)
(*                                                                          *)
(* A pool is what its server does: it is "dead" (no name, no listener or no *)
(* TLS), "cn" (accepts a CryptoNote login) or "v1" (rejects the login and    *)
(* accepts mining.subscribe).  MaxFaults times the network drops a           *)
(* connection, delivers a reply too late or twice, or a pool in MayDie goes  *)
(* away for good.                                                            *)
(***************************************************************************)
EXTENDS Integers, Sequences, FiniteSets

CONSTANTS MaxRetries,   \* set_reconnect_config(5, 1000)
          MayDie,       \* the kinds of pool that may go away for good
          MaxFaults     \* bound: faults the network shows in one behaviour

Threads == {"M", "R", "K", "C", "W"}

VARIABLES
  pc, joinable_,        \* the threads' stacks; the handles that hold a thread
  connected_, reconnect_enabled_, handshake_in_progress_,
  reconnect_loop_active_, reconnect_attempts_,
  protocol_, subscribe_done_, subscribe_ok_,
  sockfd_, link,        \* the descriptor is open; the connection behind it is up
  wire, read_buf_,      \* lines the socket holds; lines read and not handled
  down,                 \* the pools that have gone away
  stratum_mutex_,       \* its holder, or "none"
  host_,                \* the pool the client was built for
  faults, raced

flags == <<connected_, reconnect_enabled_, handshake_in_progress_>>
loopVars == <<reconnect_loop_active_, reconnect_attempts_>>
hsVars == <<protocol_, subscribe_done_, subscribe_ok_>>
netVars == <<sockfd_, link, wire, read_buf_, down>>
ownVars == <<stratum_mutex_, host_>>
clientVars == <<pc, joinable_, flags, loopVars, hsVars, netVars, ownVars, faults, raced>>

At(t, l) == pc[t] # <<>> /\ Head(pc[t]) = l
To(t, l) == [pc EXCEPT ![t] = <<l>> \o Tail(@)]
Call(t, l, k) == [pc EXCEPT ![t] = <<l, k>> \o Tail(@)]
Ret(t) == [pc EXCEPT ![t] = Tail(@)]
Ended(t) == pc[t] = <<>>

(***************************************************************************)
(* A fresh client object, as its constructor leaves it.                     *)
(***************************************************************************)
Fresh ==
  /\ joinable_ = {} /\ connected_ = FALSE /\ reconnect_enabled_ = TRUE
  /\ handshake_in_progress_ = FALSE /\ reconnect_loop_active_ = FALSE
  /\ reconnect_attempts_ = 0 /\ protocol_ = "AUTO"
  /\ subscribe_done_ = FALSE /\ subscribe_ok_ = FALSE
  /\ sockfd_ = FALSE /\ link = FALSE /\ wire = <<>> /\ read_buf_ = <<>>

(* The owner and the reconnect thread are both inside the client: C runs
   connect() while M runs disconnect() or close_connection().               *)
Connecting(p) == Len(p["C"]) > 1
Disconnecting(p) == \E i \in DOMAIN p["M"] : p["M"][i] = "disc_C"
Watch == raced' = (raced \/ (Connecting(pc') /\ Disconnecting(pc')))

(* join(): thread t waits until the threads hs that it finds joinable have
   ended, and takes their handles back.                                     *)
Join(t, at, hs, next) ==
  /\ At(t, at)
  /\ \A h \in hs \cap joinable_ : Ended(h)
  /\ joinable_' = joinable_ \ hs
  /\ pc' = To(t, next)
  /\ UNCHANGED <<flags, loopVars, hsVars, netVars, ownVars, faults>>

(* Mutant: the descriptor is closed before the reader has been joined.      *)
Shutdown_close(t) ==
  /\ At(t, "close")
  /\ connected_' = FALSE /\ link' = FALSE /\ sockfd_' = FALSE
  /\ pc' = To(t, "close_R")
  /\ UNCHANGED <<joinable_, reconnect_enabled_, handshake_in_progress_, loopVars, hsVars,
                 wire, read_buf_, down, ownVars, faults>>

Shutdown(t) ==
  /\ At(t, "close")
  /\ connected_' = FALSE /\ link' = FALSE
  /\ pc' = To(t, "close_R")
  /\ UNCHANGED <<joinable_, reconnect_enabled_, handshake_in_progress_, loopVars, hsVars,
                 sockfd_, wire, read_buf_, down, ownVars, faults>>

CloseFd(t) ==
  /\ At(t, "close_fd")
  /\ sockfd_' = FALSE /\ wire' = <<>>
  /\ pc' = Ret(t)
  /\ UNCHANGED <<joinable_, flags, loopVars, hsVars, link, read_buf_, down, ownVars, faults>>

(* close_connection(): shutdown() wakes the reader, the reader and keepalive
   threads are joined, and only then is the descriptor closed.              *)
close_connection(t) ==
  Shutdown(t) \/ Join(t, "close_R", {"R", "K"}, "close_fd") \/ CloseFd(t)

(* Where the catch block around a call of connect() continues.              *)
Catch == [connected |-> "failed", reconnected |-> "loop"]
Threw(t) == [pc EXCEPT ![t] = <<Catch[Head(Tail(@))]>> \o Tail(Tail(@))]

(* connect(), up to the point where it owns a socket.  The early return for
   a live connection skips the handshake guard.                             *)
ConnectEntry(t) ==
  /\ At(t, "connect")
  /\ IF connected_
       THEN pc' = Ret(t) /\ UNCHANGED <<reconnect_enabled_, handshake_in_progress_>>
       ELSE /\ pc' = To(t, "join")
            /\ reconnect_enabled_' = TRUE /\ handshake_in_progress_' = TRUE
  /\ UNCHANGED <<joinable_, connected_, loopVars, hsVars, netVars, ownVars, faults>>

Throw(t) ==
  /\ At(t, "throw")
  /\ handshake_in_progress_' = FALSE
  /\ pc' = Threw(t)
  /\ UNCHANGED <<joinable_, connected_, reconnect_enabled_, loopVars, hsVars, netVars,
                 ownVars, faults>>

Reachable == host_ # "dead" /\ host_ \notin down

OpenSocket(t) ==
  /\ At(t, "resolve")
  /\ \/ /\ Reachable
        /\ sockfd_' = TRUE /\ link' = TRUE /\ wire' = <<>> /\ connected_' = TRUE
        /\ pc' = To(t, "spawn")
        /\ UNCHANGED <<read_buf_, faults>>
     \/ /\ ~Reachable
        /\ UNCHANGED faults
        /\ pc' = To(t, "throw")
        /\ UNCHANGED <<sockfd_, link, wire, read_buf_, connected_>>
  /\ UNCHANGED <<joinable_, reconnect_enabled_, handshake_in_progress_, loopVars,
                 hsVars, down, ownVars>>

(* The promise is renewed and the reader started before the handshake is
   sent, so that a reader of this session exists when the reply comes.      *)
SpawnReader(t) ==
  /\ At(t, "spawn")
  /\ subscribe_done_' = FALSE
  /\ joinable_' = joinable_ \cup {"R"}
  /\ pc' = [To(t, "login") EXCEPT !["R"] = <<"check">>]
  /\ UNCHANGED <<flags, loopVars, protocol_, subscribe_ok_, netVars, ownVars, faults>>

(* build_login_msg()/build_subscribe_msg() renew handshake_req_id_, so no
   line read before matches it any more; then the message is sent, and the
   server answers it or not.                                                *)
Accepts == (host_ = "v1") = (protocol_ = "V1")

SendHandshake(t) ==
  /\ At(t, "login")
  /\ pc' = To(t, "wait")
  /\ read_buf_' = [i \in DOMAIN read_buf_ |-> [read_buf_[i] EXCEPT !.match = FALSE]]
  /\ wire' = IF link THEN <<[ok |-> Accepts, match |-> TRUE]>> ELSE wire
  /\ UNCHANGED <<joinable_, flags, loopVars, protocol_, subscribe_done_, subscribe_ok_,
                 sockfd_, link, down, ownVars, faults>>

(* The wait for the reply: a verdict, or ten seconds without one.  A pool
   that rejects the CryptoNote login is tried once more with Stratum V1.    *)
HandshakeDone(t) ==
  /\ At(t, "wait")
  /\ \/ /\ subscribe_done_ /\ subscribe_ok_
        /\ pc' = To(t, "keepalive")
        /\ protocol_' = IF protocol_ = "AUTO" THEN "CN" ELSE protocol_
        /\ UNCHANGED faults
     \/ /\ subscribe_done_ /\ ~subscribe_ok_
        /\ pc' = Call(t, "close", IF protocol_ = "AUTO" THEN "resolve" ELSE "throw")
        /\ protocol_' = IF protocol_ = "AUTO" THEN "V1" ELSE protocol_
        /\ UNCHANGED faults
     \/ /\ ~subscribe_done_
        /\ \/ ~link /\ faults' = faults
           \/ link /\ faults < MaxFaults /\ faults' = faults + 1
        /\ pc' = Call(t, "close", "throw")
        /\ UNCHANGED protocol_
  /\ UNCHANGED <<joinable_, flags, loopVars, subscribe_done_, subscribe_ok_,
                 netVars, ownVars>>

(* The handshake succeeded: CryptoNote sessions get a keepalive thread; the
   guard's destructor clears handshake_in_progress_ as connect() returns.   *)
StartKeepalive(t) ==
  /\ At(t, "keepalive")
  /\ IF protocol_ = "CN"
       THEN /\ joinable_' = joinable_ \cup {"K"}
            /\ pc' = [To(t, "guard") EXCEPT !["K"] = <<"keepalive_loop">>]
       ELSE pc' = To(t, "guard") /\ UNCHANGED joinable_
  /\ UNCHANGED <<flags, loopVars, hsVars, netVars, ownVars, faults>>

ConnectReturns(t) ==
  /\ At(t, "guard")
  /\ handshake_in_progress_' = FALSE
  /\ pc' = Ret(t)
  /\ UNCHANGED <<joinable_, connected_, reconnect_enabled_, loopVars, hsVars, netVars,
                 ownVars, faults>>

connect(t) ==
  \/ ConnectEntry(t) \/ Throw(t) \/ OpenSocket(t) \/ SpawnReader(t)
  \/ SendHandshake(t) \/ HandshakeDone(t) \/ StartKeepalive(t) \/ ConnectReturns(t)
  \/ Join(t, "join", {"R", "K", "C"} \ {t}, "resolve")

(* Mutant: disconnect() does not wait for the reconnect thread.             *)
JoinReconnect_not(t) ==
  /\ At(t, "disc_C") /\ pc' = Ret(t)
  /\ UNCHANGED <<joinable_, flags, loopVars, hsVars, netVars, ownVars, faults>>

JoinReconnect(t) ==
  /\ At(t, "disc_C")
  /\ "C" \in joinable_ => Ended("C")
  /\ joinable_' = joinable_ \ {"C"}
  /\ pc' = Ret(t)
  /\ UNCHANGED <<flags, loopVars, hsVars, netVars, ownVars, faults>>

(* disconnect(): forbid further attempts, wake the backoff, close, and join
   the reconnect thread last.                                               *)
disconnect(t) ==
  \/ /\ At(t, "disconnect")
     /\ reconnect_enabled_' = FALSE
     /\ pc' = Call(t, "close", "disc_C")
     /\ UNCHANGED <<joinable_, connected_, handshake_in_progress_, loopVars, hsVars,
                    netVars, ownVars, faults>>
  \/ JoinReconnect(t)

(* read_line(): a complete buffered line first, then whatever the socket
   holds, and failure once the connection is gone.                          *)
read_line ==
  /\ At("R", "recv")
  /\ read_buf_ = <<>>
  /\ \/ /\ wire # <<>>
        /\ read_buf_' = wire /\ wire' = <<>>
        /\ UNCHANGED pc
     \/ /\ wire = <<>> /\ ~link
        /\ pc' = To("R", "exit")
        /\ UNCHANGED <<read_buf_, wire>>
  /\ UNCHANGED <<joinable_, flags, loopVars, hsVars, sockfd_, link, down, ownVars, faults>>

(* handle_line(): a reply with the handshake's id settles the promise; a
   second one makes set_value() throw, which ends the reader's loop.        *)
handle_line ==
  /\ At("R", "recv")
  /\ read_buf_ # <<>>
  /\ LET m == Head(read_buf_)
     IN /\ subscribe_ok_' = IF m.match THEN m.ok ELSE subscribe_ok_
        /\ subscribe_done_' = (subscribe_done_ \/ m.match)
        /\ pc' = To("R", IF m.match /\ subscribe_done_ THEN "exit" ELSE "check")
  /\ read_buf_' = Tail(read_buf_)
  /\ UNCHANGED <<joinable_, flags, loopVars, protocol_, sockfd_, link, wire,
                 down, ownVars, faults>>

(* The reader's end: a lost connection is handed to the reconnect loop,
   unless connect() is still in its handshake or disconnect() forbade it;
   then the owner's error callback runs, which needs stratum_mutex_.        *)
reader_exit ==
  \/ /\ At("R", "check")
     /\ pc' = To("R", IF connected_ THEN "recv" ELSE "exit")
     /\ UNCHANGED <<joinable_, flags, loopVars, hsVars, netVars, ownVars, faults>>
  \/ /\ At("R", "exit")
     /\ connected_' = FALSE
     /\ pc' = To("R", "decide")
     /\ UNCHANGED <<joinable_, reconnect_enabled_, handshake_in_progress_, loopVars, hsVars,
                    netVars, ownVars, faults>>
  \/ /\ At("R", "decide")
     /\ pc' = To("R", IF reconnect_enabled_ /\ ~handshake_in_progress_
                        THEN "arm" ELSE "callback")
     /\ UNCHANGED <<joinable_, flags, loopVars, hsVars, netVars, ownVars, faults>>
  \/ /\ At("R", "arm")
     /\ "C" \in joinable_ => Ended("C")
     /\ reconnect_loop_active_' = TRUE
     /\ joinable_' = joinable_ \cup {"C"}
     /\ pc' = [pc EXCEPT !["R"] = <<>>, !["C"] = <<"loop">>]
     /\ UNCHANGED <<flags, reconnect_attempts_, hsVars, netVars, ownVars, faults>>
  \/ /\ At("R", "callback")
     /\ stratum_mutex_ = "none"
     /\ pc' = Ret("R")
     /\ UNCHANGED <<joinable_, flags, loopVars, hsVars, netVars, ownVars, faults>>

reader_thread_fn == read_line \/ handle_line \/ reader_exit

(* keepalive_loop() pings the pool until the connection is gone.            *)
keepalive_loop ==
  /\ At("K", "keepalive_loop") /\ ~connected_
  /\ pc' = Ret("K")
  /\ UNCHANGED <<joinable_, flags, loopVars, hsVars, netVars, ownVars, faults>>

Exhausted(attempts) == attempts > MaxRetries

(* reconnect_loop(): back off, give up when told to or after MaxRetries
   attempts (the callback again needs stratum_mutex_), else connect().      *)
reconnect_loop ==
  \/ /\ At("C", "loop")
     /\ IF reconnect_enabled_
          THEN /\ reconnect_attempts_' = reconnect_attempts_ + 1
               /\ pc' = IF Exhausted(reconnect_attempts_ + 1)
                          THEN To("C", "exhausted") ELSE Call("C", "connect", "reconnected")
          ELSE pc' = To("C", "done") /\ UNCHANGED reconnect_attempts_
     /\ UNCHANGED <<joinable_, flags, reconnect_loop_active_, hsVars, netVars, ownVars, faults>>
  \/ /\ At("C", "exhausted")
     /\ stratum_mutex_ = "none"
     /\ pc' = To("C", "done")
     /\ UNCHANGED <<joinable_, flags, loopVars, hsVars, netVars, ownVars, faults>>
  \/ /\ At("C", "reconnected")
     /\ reconnect_attempts_' = 0
     /\ pc' = To("C", "done")
     /\ UNCHANGED <<joinable_, flags, reconnect_loop_active_, hsVars, netVars, ownVars, faults>>
  \/ /\ At("C", "done")
     /\ reconnect_loop_active_' = FALSE
     /\ pc' = Ret("C")
     /\ UNCHANGED <<joinable_, flags, reconnect_attempts_, hsVars, netVars, ownVars, faults>>

(* The server's own steps: a dropped connection, the server's end, and a
   repeated reply.                                                          *)
Server ==
  /\ link /\ faults < MaxFaults /\ faults' = faults + 1
  /\ \/ link' = FALSE /\ UNCHANGED <<wire, down>>
     \/ host_ \in MayDie /\ link' = FALSE /\ down' = down \cup {host_} /\ UNCHANGED wire
     \/ wire # <<>> /\ wire' = Append(wire, wire[Len(wire)]) /\ UNCHANGED <<link, down>>
  /\ UNCHANGED <<pc, joinable_, flags, loopVars, hsVars, sockfd_, read_buf_, ownVars>>
=============================================================================
