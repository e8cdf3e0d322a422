-------------------------- MODULE PoolManager_proofs --------------------------
(***************************************************************************)
(* What holds of PoolManager, its StratumClient and the four threads inside  *)
(* it in every state up to the moment disconnect() meets a connect() of the   *)
(* reconnect thread (`raced`): every running thread is held by its handle,    *)
(* one thread at a time connects, the descriptor outlives its reader, and a   *)
(* client is destroyed when nothing of it runs.  The call stacks of the model *)
(* are sequences; the proofs work on their first three slots, which is as     *)
(* deep as a call goes.  An action lemma says, for one thread, where the step *)
(* takes its stack and what it does to the variables the invariant is about.  *)
(***************************************************************************)
EXTENDS PoolManager, TLAPS

(* The threads that run the client's code: main, reconnect, reader, keepalive. *)
Client == {"M", "C", "R", "K"}

(* The label thread t runs next, and the ones it returns to: "-" for none.    *)
Slot(s, i) == IF i \in 1 .. Len(s) THEN s[i] ELSE "-"
Stk(t, i) == Slot(pc[t], i)
m1 == Stk("M", 1)
m2 == Stk("M", 2)
m3 == Stk("M", 3)
c1 == Stk("C", 1)
c2 == Stk("C", 2)
c3 == Stk("C", 3)
r1 == Stk("R", 1)
r2 == Stk("R", 2)
k1 == Stk("K", 1)
k2 == Stk("K", 2)

(* Where a thread can be, grouped by the function it is in.                   *)
MainLabels == {"start", "replace", "destroy", "create", "main", "failed", "connected", "retries",
               "decide", "cooldown", "stop", "reset", "unlock", "exited"}
ConnectLabels == {"connect", "join", "resolve", "throw", "spawn", "login", "wait", "keepalive",
                  "guard"}
CloseLabels == {"close", "close_R", "close_fd"}
LoopLabels == {"loop", "exhausted", "reconnected", "done"}
ReaderLabels == {"check", "recv", "exit", "decide", "arm", "callback"}
AfterDisconnect == {"destroy", "reset", "unlock"}
Labels == MainLabels \union ConnectLabels \union CloseLabels \union LoopLabels \union ReaderLabels
          \union {"crashed", "disconnect", "disc_C", "keepalive_loop", "share", "send"}

(* The main thread is inside connect(); inside close_connection() for
   disconnect(), or past it.                                                  *)
MConnecting == m2 = "connected" \/ m3 = "connected"
MDisconnecting == m1 = "disc_C" \/ m2 = "disc_C"

(* The stacks the main thread and the reconnect thread can have.              *)
MainStack ==
  \/ m1 \in MainLabels /\ m2 = "-" /\ m3 = "-"
  \/ m1 \in ConnectLabels /\ m2 = "connected" /\ m3 = "-"
  \/ m1 \in CloseLabels /\ m2 \in {"resolve", "throw"} /\ m3 = "connected"
  \/ m1 \in {"disconnect", "disc_C"} /\ m2 \in AfterDisconnect /\ m3 = "-"
  \/ m1 \in CloseLabels /\ m2 = "disc_C" /\ m3 \in AfterDisconnect
ReconnectStack ==
  \/ c1 \in LoopLabels \union {"-"} /\ c2 = "-" /\ c3 = "-"
  \/ c1 \in ConnectLabels /\ c2 = "reconnected" /\ c3 = "-"
  \/ c1 \in CloseLabels /\ c2 \in {"resolve", "throw"} /\ c3 = "reconnected"
Typed ==
  /\ pc \in [Threads -> Seq(Labels)]
  /\ \A t \in Client : Len(pc[t]) <= 3
Stacks ==
  /\ Typed /\ MainStack /\ ReconnectStack
  /\ r1 \in ReaderLabels \union {"-"} /\ r2 = "-"
  /\ k1 \in {"keepalive_loop", "-"} /\ k2 = "-"

(* Every thread that runs is held by its handle.                              *)
Held ==
  /\ joinable_ \subseteq {"R", "K", "C"}
  /\ r1 # "-" => "R" \in joinable_
  /\ k1 # "-" => "K" \in joinable_
  /\ c1 # "-" => "C" \in joinable_

(* One thread at a time connects; while one does, the reader does not start a
   reconnect loop, because the handshake is in progress.                      *)
OneConnects ==
  /\ MConnecting => c1 = "-" /\ r1 # "arm"
  /\ c2 # "-" => r1 # "arm"
  /\ c1 \in {"loop", "exhausted", "connect", "join", "resolve", "spawn", "throw", "close_fd"}
       => r1 = "-"
  /\ (MConnecting /\ m1 # "connect") \/ (c2 # "-" /\ c1 # "connect") => handshake_in_progress_

(* disconnect() and a connect() on the reconnect thread do not meet.          *)
Apart == MDisconnecting => c2 = "-" /\ ~reconnect_enabled_

(* What has been joined, place by place.                                      *)
Joined ==
  /\ m1 \in {"start", "create", "destroy", "reset", "unlock", "exited", "connect", "join"}
       => joinable_ = {}
  /\ m1 = "replace" => stratum_ \/ joinable_ = {}
  /\ m1 \in {"close_fd", "disc_C"} => joinable_ \subseteq {"C"}
  /\ m1 \in {"resolve", "throw", "spawn"} => r1 = "-"
  /\ m1 \in {"main", "retries", "decide", "cooldown", "connected", "failed", "stop"} \/ MConnecting
       => stratum_

(* The descriptor is open as long as there is a reader.                       *)
Open ==
  /\ r1 # "-" => sockfd_
  /\ m1 = "spawn" \/ c1 = "spawn" => sockfd_

(* The main thread holds stratum_mutex_ inside tick() and, at the end, while it
   destroys the client; that client has no thread left.                       *)
Locked == stratum_mutex_ = "M"
Unlocking == m1 = "unlock" \/ m2 = "unlock" \/ m3 = "unlock"
Alone ==
  /\ Locked => m1 \in {"retries", "decide", "cooldown"} \/ Unlocking
  /\ Unlocking => joinable_ = {}

Good == Stacks /\ Held /\ OneConnects /\ Apart /\ Joined /\ Open /\ Alone

(* The inductive invariant.                                                   *)
PoolInv == raced \/ (Good /\ ~crashed)

-----------------------------------------------------------------------------
(* What the five ways to change a call stack do to its slots.  The thread goes
   to another place of the function it is in.                                *)
LEMMA StackTo ==
  ASSUME NEW S, NEW q \in Seq(S), q # <<>>, NEW e \in S
  PROVE  LET n == <<e>> \o Tail(q)
         IN /\ n \in Seq(S) /\ Len(n) = Len(q)
            /\ Slot(n, 1) = e /\ Slot(n, 2) = Slot(q, 2) /\ Slot(n, 3) = Slot(q, 3)
BY DEF Slot

(* It calls a function, to return to d.                                      *)
LEMMA StackCall ==
  ASSUME NEW S, NEW q \in Seq(S), q # <<>>, NEW e \in S, NEW d \in S
  PROVE  LET n == <<e, d>> \o Tail(q)
         IN /\ n \in Seq(S) /\ (Len(q) <= 2 => Len(n) <= 3)
            /\ Slot(n, 1) = e /\ Slot(n, 2) = d /\ Slot(n, 3) = Slot(q, 2)
BY DEF Slot

(* It returns.                                                               *)
LEMMA StackRet ==
  ASSUME NEW S, NEW q \in Seq(S), q # <<>>, Len(q) <= 3
  PROVE  LET n == Tail(q)
         IN /\ n \in Seq(S) /\ Len(n) <= 3
            /\ Slot(n, 1) = Slot(q, 2) /\ Slot(n, 2) = Slot(q, 3) /\ Slot(n, 3) = "-"
<1>1. Tail(q) \in Seq(S) /\ Len(Tail(q)) = Len(q) - 1
  OBVIOUS
<1>2. Len(q) \in Nat /\ Len(q) # 0
  OBVIOUS
<1>3. \A i \in 1 .. Len(q) - 1 : Tail(q)[i] = q[i + 1]
  OBVIOUS
<1> QED
  BY <1>1, <1>2, <1>3 DEF Slot

(* An exception leaves the function for the handler of its caller.           *)
LEMMA StackThrew ==
  ASSUME NEW S, NEW q \in Seq(S), Len(q) = 2, NEW e \in S
  PROVE  LET n == <<e>> \o Tail(Tail(q))
         IN /\ n \in Seq(S) /\ Len(n) <= 3
            /\ Slot(n, 1) = e /\ Slot(n, 2) = "-" /\ Slot(n, 3) = "-"
<1> DEFINE t == Tail(q)
<1>1. t \in Seq(S) /\ Len(t) = 1
  OBVIOUS
<1> HIDE DEF t
<1>2. Tail(t) \in Seq(S) /\ Len(Tail(t)) = 0
  BY SMTT(30), <1>1
<1> DEFINE u == Tail(t)
<1> HIDE DEF u
<1>3. u \in Seq(S) /\ Len(u) = 0
  BY Zenon, <1>2 DEF u
<1>4. /\ <<e>> \o u \in Seq(S) /\ Len(<<e>> \o u) <= 3
      /\ Slot(<<e>> \o u, 1) = e /\ Slot(<<e>> \o u, 2) = "-" /\ Slot(<<e>> \o u, 3) = "-"
  BY <1>3 DEF Slot
<1> QED
  BY Zenon, <1>4 DEF u, t

(* The slots say which label is on top, and below it.                        *)
LEMMA StackTop ==
  ASSUME NEW S, "-" \notin S, NEW q \in Seq(S)
  PROVE  /\ q = <<>> <=> Slot(q, 1) = "-"
         /\ q # <<>> => Head(q) = Slot(q, 1)
         /\ Len(q) = 2 => Head(Tail(q)) = Slot(q, 2)
BY DEF Slot

(* A thread that does not run has no label.                                  *)
LEMMA StackEmpty ==
  ASSUME NEW S
  PROVE  /\ <<>> \in Seq(S) /\ Len(<<>>) = 0
         /\ Slot(<<>>, 1) = "-" /\ Slot(<<>>, 2) = "-" /\ Slot(<<>>, 3) = "-"
BY DEF Slot

(* A thread that starts has one.                                             *)
LEMMA StackOne ==
  ASSUME NEW S, NEW e \in S
  PROVE  /\ <<e>> \in Seq(S) /\ Len(<<e>>) = 1
         /\ Slot(<<e>>, 1) = e /\ Slot(<<e>>, 2) = "-" /\ Slot(<<e>>, 3) = "-"
BY DEF Slot

(* A stack of bounded depth has one of finitely many lengths.                *)
LEMMA StackLength ==
  ASSUME NEW S, NEW q \in Seq(S)
  PROVE  /\ Len(q) <= 2 /\ ~(Len(q) <= 1) => Len(q) = 2
         /\ Len(q) <= 3 => Len(q) \in 0 .. 3
<1> DEFINE n == Len(q)
<1>1. n \in Nat
  OBVIOUS
<1> HIDE DEF n
<1>2. (n <= 2 /\ ~(n <= 1) => n = 2) /\ (n <= 3 => n \in 0 .. 3)
  BY <1>1
<1> QED
  BY Zenon, <1>2 DEF n

(* Every label the actions write is one of the labels, and "-" is none.      *)
LEMMA LabelsKnown ==
  /\ "start" \in Labels /\ "replace" \in Labels /\ "destroy" \in Labels /\ "create" \in Labels
  /\ "main" \in Labels /\ "failed" \in Labels /\ "connected" \in Labels /\ "retries" \in Labels
  /\ "decide" \in Labels /\ "cooldown" \in Labels /\ "stop" \in Labels /\ "reset" \in Labels
  /\ "unlock" \in Labels /\ "exited" \in Labels /\ "crashed" \in Labels /\ "connect" \in Labels
  /\ "join" \in Labels /\ "resolve" \in Labels /\ "throw" \in Labels /\ "spawn" \in Labels
  /\ "login" \in Labels /\ "wait" \in Labels /\ "keepalive" \in Labels /\ "guard" \in Labels
  /\ "close" \in Labels /\ "close_R" \in Labels /\ "close_fd" \in Labels /\ "loop" \in Labels
  /\ "exhausted" \in Labels /\ "reconnected" \in Labels /\ "done" \in Labels /\ "check" \in Labels
  /\ "recv" \in Labels /\ "exit" \in Labels /\ "arm" \in Labels /\ "callback" \in Labels
  /\ "disconnect" \in Labels /\ "disc_C" \in Labels /\ "keepalive_loop" \in Labels
  /\ "share" \in Labels /\ "send" \in Labels
  /\ "-" \notin Labels
BY Zenon DEF Labels, MainLabels, ConnectLabels, CloseLabels, LoopLabels, ReaderLabels

(* What the slots say of a thread: where it is, and how deep.                 *)
LEMMA Slots ==
  ASSUME Typed, NEW t \in Client
  PROVE  /\ pc[t] \in Seq(Labels) /\ Len(pc[t]) <= 3
         /\ \A l \in Labels : At(t, l) <=> Stk(t, 1) = l
         /\ Ended(t) <=> Stk(t, 1) = "-"
         /\ Stk(t, 2) = "-" => Len(pc[t]) <= 1 /\ Stk(t, 3) = "-"
         /\ Stk(t, 3) = "-" => Len(pc[t]) <= 2
         /\ Stk(t, 2) # "-" => ~(Len(pc[t]) <= 1)
<1>1. pc[t] \in Seq(Labels) /\ Len(pc[t]) <= 3 /\ "-" \notin Labels
  BY Zenon, LabelsKnown DEF Typed, Client, Threads
<1>2. (pc[t] = <<>> <=> Stk(t, 1) = "-") /\ (pc[t] # <<>> => Head(pc[t]) = Stk(t, 1))
  BY Zenon, <1>1, StackTop DEF Stk
<1>3. /\ Stk(t, 2) = "-" => Len(pc[t]) <= 1 /\ Stk(t, 3) = "-"
      /\ Stk(t, 3) = "-" => Len(pc[t]) <= 2
      /\ Stk(t, 2) # "-" => ~(Len(pc[t]) <= 1)
  BY <1>1 DEF Stk, Slot
<1> QED
  BY Zenon, <1>1, <1>2, <1>3 DEF At, Ended

(* Thread t's slots become a, b and d; the other threads stay where they are. *)
Goes(t, a, b, d) ==
  /\ Typed' /\ Stk(t, 1)' = a /\ Stk(t, 2)' = b /\ Stk(t, 3)' = d
  /\ \A u \in Client \ {t} : pc'[u] = pc[u]

(* A step that gives one thread a new stack moves that thread only.          *)
LEMMA Replaces ==
  ASSUME Typed, NEW t \in Client, NEW n \in Seq(Labels), Len(n) <= 3, pc' = [pc EXCEPT ![t] = n]
  PROVE  Goes(t, Slot(n, 1), Slot(n, 2), Slot(n, 3))
<1>1. /\ pc' \in [Threads -> Seq(Labels)] /\ pc'[t] = n
      /\ \A u \in Client \ {t} : pc'[u] = pc[u]
  BY Zenon DEF Typed, Client, Threads
<1>2. \A u \in Client : Len(pc'[u]) <= 3
  BY Zenon, <1>1 DEF Typed
<1> QED
  BY Zenon, <1>1, <1>2 DEF Goes, Typed, Stk

(* The same for To, Call and Ret of the model: going on, calling, returning. *)
LEMMA Moves ==
  ASSUME Typed, NEW t \in Client, Stk(t, 1) # "-"
  PROVE  /\ \A e \in Labels : pc' = To(t, e) => Goes(t, e, Stk(t, 2), Stk(t, 3))
         /\ \A e, d \in Labels : Stk(t, 3) = "-" /\ pc' = Call(t, e, d) => Goes(t, e, d, Stk(t, 2))
         /\ pc' = Ret(t) => Goes(t, Stk(t, 2), Stk(t, 3), "-")
<1>1. /\ pc[t] \in Seq(Labels) /\ pc[t] # <<>> /\ Len(pc[t]) <= 3
      /\ (Stk(t, 3) = "-" => Len(pc[t]) <= 2)
  BY Zenon, Slots DEF Ended
<1>2. ASSUME NEW e \in Labels, pc' = To(t, e) PROVE Goes(t, e, Stk(t, 2), Stk(t, 3))
  <2>1. pc' = [pc EXCEPT ![t] = <<e>> \o Tail(pc[t])]
    BY Zenon, <1>2 DEF To
  <2> DEFINE n == <<e>> \o Tail(pc[t])
  <2>2. /\ n \in Seq(Labels) /\ Len(n) = Len(pc[t])
        /\ Slot(n, 1) = e /\ Slot(n, 2) = Slot(pc[t], 2) /\ Slot(n, 3) = Slot(pc[t], 3)
    BY ZenonT(60), <1>1, StackTo
  <2> HIDE DEF n
  <2>3. Goes(t, Slot(n, 1), Slot(n, 2), Slot(n, 3))
    BY Zenon, <1>1, <2>1, <2>2, Replaces DEF n
  <2> QED
    BY Zenon, <2>2, <2>3 DEF Stk
<1>3. ASSUME NEW e \in Labels, NEW d \in Labels, Stk(t, 3) = "-", pc' = Call(t, e, d)
      PROVE  Goes(t, e, d, Stk(t, 2))
  <2>1. pc' = [pc EXCEPT ![t] = <<e, d>> \o Tail(pc[t])]
    BY Zenon, <1>3 DEF Call
  <2> DEFINE n == <<e, d>> \o Tail(pc[t])
  <2>2. /\ n \in Seq(Labels) /\ (Len(pc[t]) <= 2 => Len(n) <= 3)
        /\ Slot(n, 1) = e /\ Slot(n, 2) = d /\ Slot(n, 3) = Slot(pc[t], 2)
    BY <1>1, StackCall
  <2> HIDE DEF n
  <2>3. Goes(t, Slot(n, 1), Slot(n, 2), Slot(n, 3))
    BY Zenon, <1>1, <1>3, <2>1, <2>2, Replaces DEF n
  <2> QED
    BY Zenon, <2>2, <2>3 DEF Stk
<1>4. ASSUME pc' = Ret(t) PROVE Goes(t, Stk(t, 2), Stk(t, 3), "-")
  <2>1. pc' = [pc EXCEPT ![t] = Tail(pc[t])]
    BY Zenon, <1>4 DEF Ret
  <2> DEFINE n == Tail(pc[t])
  <2>2. /\ n \in Seq(Labels) /\ Len(n) <= 3
        /\ Slot(n, 1) = Slot(pc[t], 2) /\ Slot(n, 2) = Slot(pc[t], 3) /\ Slot(n, 3) = "-"
    BY Zenon, <1>1, StackRet
  <2> HIDE DEF n
  <2>3. Goes(t, Slot(n, 1), Slot(n, 2), Slot(n, 3))
    BY Zenon, <1>1, <2>1, <2>2, Replaces DEF n
  <2> QED
    BY Zenon, <2>2, <2>3 DEF Stk
<1> QED
  BY Zenon, <1>2, <1>3, <1>4

(* And for Threw: an exception is caught by the function below.              *)
LEMMA Throws ==
  ASSUME Typed, NEW t \in Client, Stk(t, 2) # "-", Stk(t, 3) = "-",
         Catch[Stk(t, 2)] \in Labels, pc' = Threw(t)
  PROVE  Goes(t, Catch[Stk(t, 2)], "-", "-")
<1>1. pc[t] \in Seq(Labels) /\ Len(pc[t]) = 2
  BY Zenon, Slots, StackLength
<1>2. Head(Tail(pc[t])) = Stk(t, 2)
  BY Zenon, <1>1, LabelsKnown, StackTop DEF Stk
<1> DEFINE e == Catch[Stk(t, 2)]
           n == <<e>> \o Tail(Tail(pc[t]))
<1>3. pc' = [pc EXCEPT ![t] = n]
  BY Zenon, <1>2 DEF Threw
<1>4. e \in Labels
  BY Zenon
<1> HIDE DEF e
<1>5. /\ n \in Seq(Labels) /\ Len(n) <= 3
      /\ Slot(n, 1) = e /\ Slot(n, 2) = "-" /\ Slot(n, 3) = "-"
  BY ZenonT(60), <1>1, <1>4, StackThrew
<1> HIDE DEF n
<1>6. Goes(t, Slot(n, 1), Slot(n, 2), Slot(n, 3))
  BY Zenon, <1>3, <1>5, Replaces
<1> QED
  BY Zenon, <1>5, <1>6 DEF e

(* Thread t goes on and starts thread u.                                      *)
LEMMA Starts ==
  ASSUME Typed, NEW t \in Client, Stk(t, 1) # "-", NEW u \in Client, u # t,
         NEW e \in Labels, NEW d \in Labels, pc' = [To(t, e) EXCEPT ![u] = <<d>>]
  PROVE  /\ Typed' /\ Stk(t, 1)' = e /\ Stk(t, 2)' = Stk(t, 2) /\ Stk(t, 3)' = Stk(t, 3)
         /\ Stk(u, 1)' = d /\ Stk(u, 2)' = "-"
         /\ \A v \in Client : v # t /\ v # u => pc'[v] = pc[v]
<1>1. pc[t] \in Seq(Labels) /\ pc[t] # <<>> /\ Len(pc[t]) <= 3
  BY Zenon, Slots DEF Ended
<1> DEFINE n == <<e>> \o Tail(pc[t])
           k == <<d>>
<1>2. /\ n \in Seq(Labels) /\ Len(n) = Len(pc[t])
      /\ Slot(n, 1) = e /\ Slot(n, 2) = Slot(pc[t], 2) /\ Slot(n, 3) = Slot(pc[t], 3)
  BY ZenonT(30), <1>1, StackTo
<1>3. k \in Seq(Labels) /\ Len(k) = 1 /\ Slot(k, 1) = d /\ Slot(k, 2) = "-"
  BY Zenon, StackOne
<1>4. To(t, e) = [pc EXCEPT ![t] = n]
  BY Zenon DEF To
<1> DEFINE p == [pc EXCEPT ![t] = n]
<1>5. pc' = [p EXCEPT ![u] = k]
  BY Zenon, <1>4
<1> HIDE DEF n, k
<1>6. p \in [Threads -> Seq(Labels)] /\ p[t] = n /\ \A v \in Client : v # t => p[v] = pc[v]
  BY Zenon, <1>2 DEF Typed, Client, Threads
<1> HIDE DEF p
<1>7. /\ pc' \in [Threads -> Seq(Labels)] /\ pc'[u] = k
      /\ \A v \in Client : v # u => pc'[v] = p[v]
  BY ZenonT(60), <1>3, <1>5, <1>6 DEF Client, Threads
<1>8. /\ pc' \in [Threads -> Seq(Labels)] /\ pc'[t] = n /\ pc'[u] = k
      /\ \A v \in Client : v # t /\ v # u => pc'[v] = pc[v]
  BY Zenon, <1>6, <1>7
<1>9. Typed'
  <2>1. Len(n) <= 3 /\ Len(k) <= 3
    BY <1>1, <1>2, <1>3
  <2> QED
    BY Zenon, <1>8, <2>1 DEF Typed
<1> QED
  BY Zenon, <1>2, <1>3, <1>8, <1>9 DEF Stk

-----------------------------------------------------------------------------
(* The same, thread by thread.                                                *)
MSame == m1' = m1 /\ m2' = m2 /\ m3' = m3
CSame == c1' = c1 /\ c2' = c2 /\ c3' = c3
RSame == r1' = r1 /\ r2' = r2
KSame == k1' = k1 /\ k2' = k2
MGoes(a, b, d) == Typed' /\ m1' = a /\ m2' = b /\ m3' = d /\ CSame /\ RSame /\ KSame
CGoes(a, b, d) == Typed' /\ c1' = a /\ c2' = b /\ c3' = d /\ MSame /\ RSame /\ KSame
RGoes(a) == Typed' /\ r1' = a /\ r2' = "-" /\ MSame /\ CSame /\ KSame
KGoes(a) == Typed' /\ k1' = a /\ k2' = "-" /\ MSame /\ CSame /\ RSame
MStarts(a, r, k) ==
  /\ Typed' /\ m1' = a /\ m2' = m2 /\ m3' = m3 /\ CSame
  /\ r1' = r /\ r2' = "-" /\ k1' = k /\ k2' = "-"
CStarts(a, r, k) ==
  /\ Typed' /\ c1' = a /\ c2' = c2 /\ c3' = c3 /\ MSame
  /\ r1' = r /\ r2' = "-" /\ k1' = k /\ k2' = "-"

(* The four threads by name.                                                 *)
LEMMA Clients == "M" \in Client /\ "C" \in Client /\ "R" \in Client /\ "K" \in Client
BY Zenon DEF Client

(* Where the main thread is, and what going on, calling and returning does to
   all four stacks.                                                          *)
LEMMA MainMoves ==
  ASSUME Good
  PROVE  /\ \A e \in Labels : At("M", e) <=> m1 = e
         /\ Ended("C") <=> c1 = "-"
         /\ Ended("R") <=> r1 = "-"
         /\ Ended("K") <=> k1 = "-"
         /\ m1 \notin {"close", "close_R", "close_fd"} => m3 = "-"
         /\ m1 # "-" =>
              /\ \A e \in Labels : pc' = To("M", e) => MGoes(e, m2, m3)
              /\ \A e, d \in Labels : m3 = "-" /\ pc' = Call("M", e, d) => MGoes(e, d, m2)
              /\ pc' = Ret("M") => MGoes(m2, m3, "-")
<1>0. Typed
  BY Zenon DEF Good, Stacks
<1>1. \A a, b, d : Goes("M", a, b, d) => MGoes(a, b, d)
  BY Zenon DEF Goes, MGoes, Client, CSame, RSame, KSame, m1, m2, m3, c1, c2, c3, r1, r2, k1, k2,
    Stk
<1>2. /\ \A e \in Labels : At("M", e) <=> m1 = e
      /\ (Ended("C") <=> c1 = "-") /\ (Ended("R") <=> r1 = "-") /\ (Ended("K") <=> k1 = "-")
  BY Zenon, <1>0, Clients, Slots DEF m1, c1, r1, k1
<1>3. ASSUME m1 # "-"
      PROVE  /\ \A e \in Labels : pc' = To("M", e) => Goes("M", e, m2, m3)
             /\ \A e, d \in Labels : m3 = "-" /\ pc' = Call("M", e, d) => Goes("M", e, d, m2)
             /\ pc' = Ret("M") => Goes("M", m2, m3, "-")
  BY Zenon, <1>0, <1>3, Clients, Moves DEF m1, m2, m3
<1>4. m1 \notin {"close", "close_R", "close_fd"} => m3 = "-"
  BY Zenon DEF Good, Stacks, MainStack, CloseLabels
<1> QED
  BY Zenon, <1>1, <1>2, <1>3, <1>4

(* An exception out of connect() on the main thread ends in the failed attempt. *)
LEMMA MainThrows ==
  ASSUME Good, m2 = "connected", m3 = "-", pc' = Threw("M")
  PROVE  MGoes("failed", "-", "-")
<1>1. Catch["connected"] = "failed"
  BY Zenon DEF Catch
<1>2. Goes("M", "failed", "-", "-")
  BY Zenon, <1>1, Clients, LabelsKnown, Throws DEF Good, Stacks, m2, m3
<1> QED
  BY Zenon, <1>2 DEF Goes, MGoes, Client, CSame, RSame, KSame, m1, m2, m3, c1, c2, c3, r1, r2, k1,
    k2, Stk

(* The main thread starts the reader or the keepalive thread.                *)
LEMMA MainStarts ==
  ASSUME Good, m1 # "-", NEW a \in Labels
  PROVE  /\ pc' = [To("M", a) EXCEPT !["R"] = <<"check">>] => MStarts(a, "check", k1)
         /\ pc' = [To("M", a) EXCEPT !["K"] = <<"keepalive_loop">>]
              => MStarts(a, r1, "keepalive_loop")
<1>0. Typed /\ r2 = "-" /\ k2 = "-"
  BY Zenon DEF Good, Stacks
<1>3. "check" \in Labels /\ "keepalive_loop" \in Labels
  BY Zenon, LabelsKnown
<1>1. ASSUME pc' = [To("M", a) EXCEPT !["R"] = <<"check">>] PROVE MStarts(a, "check", k1)
  <2>1. /\ Typed' /\ Stk("M", 1)' = a /\ Stk("M", 2)' = Stk("M", 2) /\ Stk("M", 3)' = Stk("M", 3)
        /\ Stk("R", 1)' = "check" /\ Stk("R", 2)' = "-" /\ pc'["C"] = pc["C"] /\ pc'["K"] = pc["K"]
    BY <1>0, <1>1, <1>3, Clients, Starts DEF m1
  <2> QED
    BY Zenon, <1>0, <2>1 DEF MStarts, CSame, m1, m2, m3, c1, c2, c3, r1, r2, k1, k2, Stk
<1>2. ASSUME pc' = [To("M", a) EXCEPT !["K"] = <<"keepalive_loop">>]
      PROVE  MStarts(a, r1, "keepalive_loop")
  <2>1. /\ Typed' /\ Stk("M", 1)' = a /\ Stk("M", 2)' = Stk("M", 2) /\ Stk("M", 3)' = Stk("M", 3)
        /\ Stk("K", 1)' = "keepalive_loop" /\ Stk("K", 2)' = "-"
        /\ pc'["C"] = pc["C"] /\ pc'["R"] = pc["R"]
    BY <1>0, <1>2, <1>3, Clients, Starts DEF m1
  <2> QED
    BY Zenon, <1>0, <2>1 DEF MStarts, CSame, m1, m2, m3, c1, c2, c3, r1, r2, k1, k2, Stk
<1> QED
  BY Zenon, <1>1, <1>2

(* The same three lemmas for the reconnect thread.                           *)
LEMMA LoopMoves ==
  ASSUME Good
  PROVE  /\ \A e \in Labels : At("C", e) <=> c1 = e
         /\ Ended("C") <=> c1 = "-"
         /\ Ended("R") <=> r1 = "-"
         /\ Ended("K") <=> k1 = "-"
         /\ c1 \notin {"close", "close_R", "close_fd"} => c3 = "-"
         /\ c1 # "-" =>
              /\ \A e \in Labels : pc' = To("C", e) => CGoes(e, c2, c3)
              /\ \A e, d \in Labels : c3 = "-" /\ pc' = Call("C", e, d) => CGoes(e, d, c2)
              /\ pc' = Ret("C") => CGoes(c2, c3, "-")
<1>0. Typed
  BY Zenon DEF Good, Stacks
<1>1. \A a, b, d : Goes("C", a, b, d) => CGoes(a, b, d)
  BY Zenon DEF Goes, CGoes, Client, MSame, RSame, KSame, m1, m2, m3, c1, c2, c3, r1, r2, k1, k2,
    Stk
<1>2. /\ \A e \in Labels : At("C", e) <=> c1 = e
      /\ (Ended("C") <=> c1 = "-") /\ (Ended("R") <=> r1 = "-") /\ (Ended("K") <=> k1 = "-")
  BY Zenon, <1>0, Clients, Slots DEF c1, c1, r1, k1
<1>3. ASSUME c1 # "-"
      PROVE  /\ \A e \in Labels : pc' = To("C", e) => Goes("C", e, c2, c3)
             /\ \A e, d \in Labels : c3 = "-" /\ pc' = Call("C", e, d) => Goes("C", e, d, c2)
             /\ pc' = Ret("C") => Goes("C", c2, c3, "-")
  BY Zenon, <1>0, <1>3, Clients, Moves DEF c1, c2, c3
<1>4. c1 \notin {"close", "close_R", "close_fd"} => c3 = "-"
  BY Zenon DEF Good, Stacks, ReconnectStack, CloseLabels
<1> QED
  BY Zenon, <1>1, <1>2, <1>3, <1>4

(* An exception out of connect() on the reconnect thread goes back to the loop. *)
LEMMA LoopThrows ==
  ASSUME Good, c2 = "reconnected", c3 = "-", pc' = Threw("C")
  PROVE  CGoes("loop", "-", "-")
<1>1. Catch["reconnected"] = "loop"
  BY Zenon DEF Catch
<1>2. Goes("C", "loop", "-", "-")
  BY Zenon, <1>1, Clients, LabelsKnown, Throws DEF Good, Stacks, c2, c3
<1> QED
  BY Zenon, <1>2 DEF Goes, CGoes, Client, MSame, RSame, KSame, m1, m2, m3, c1, c2, c3, r1, r2, k1,
    k2, Stk

(* The reconnect thread starts the reader or the keepalive thread.           *)
LEMMA LoopStarts ==
  ASSUME Good, c1 # "-", NEW a \in Labels
  PROVE  /\ pc' = [To("C", a) EXCEPT !["R"] = <<"check">>] => CStarts(a, "check", k1)
         /\ pc' = [To("C", a) EXCEPT !["K"] = <<"keepalive_loop">>]
              => CStarts(a, r1, "keepalive_loop")
<1>0. Typed /\ r2 = "-" /\ k2 = "-"
  BY Zenon DEF Good, Stacks
<1>3. "check" \in Labels /\ "keepalive_loop" \in Labels
  BY Zenon, LabelsKnown
<1>1. ASSUME pc' = [To("C", a) EXCEPT !["R"] = <<"check">>] PROVE CStarts(a, "check", k1)
  <2>1. /\ Typed' /\ Stk("C", 1)' = a /\ Stk("C", 2)' = Stk("C", 2) /\ Stk("C", 3)' = Stk("C", 3)
        /\ Stk("R", 1)' = "check" /\ Stk("R", 2)' = "-" /\ pc'["M"] = pc["M"] /\ pc'["K"] = pc["K"]
    BY <1>0, <1>1, <1>3, Clients, Starts DEF c1
  <2> QED
    BY Zenon, <1>0, <2>1 DEF CStarts, MSame, m1, m2, m3, c1, c2, c3, r1, r2, k1, k2, Stk
<1>2. ASSUME pc' = [To("C", a) EXCEPT !["K"] = <<"keepalive_loop">>]
      PROVE  CStarts(a, r1, "keepalive_loop")
  <2>1. /\ Typed' /\ Stk("C", 1)' = a /\ Stk("C", 2)' = Stk("C", 2) /\ Stk("C", 3)' = Stk("C", 3)
        /\ Stk("K", 1)' = "keepalive_loop" /\ Stk("K", 2)' = "-"
        /\ pc'["M"] = pc["M"] /\ pc'["R"] = pc["R"]
    BY <1>0, <1>2, <1>3, Clients, Starts DEF c1
  <2> QED
    BY Zenon, <1>0, <2>1 DEF CStarts, MSame, m1, m2, m3, c1, c2, c3, r1, r2, k1, k2, Stk
<1> QED
  BY Zenon, <1>1, <1>2

(* The reader thread makes no calls, so it only goes on and ends.            *)
LEMMA ReaderMoves ==
  ASSUME Good
  PROVE  /\ \A e \in Labels : At("R", e) <=> r1 = e
         /\ Ended("C") <=> c1 = "-"
         /\ r1 # "-" =>
              /\ \A e \in Labels : pc' = To("R", e) => RGoes(e)
              /\ pc' = Ret("R") => RGoes("-")
<1>0. Typed /\ r2 = "-"
  BY Zenon DEF Good, Stacks
<1>1. \A a, d : Goes("R", a, "-", d) => RGoes(a)
  BY Zenon DEF Goes, RGoes, Client, MSame, CSame, KSame, m1, m2, m3, c1, c2, c3, r1, r2, k1, k2,
    Stk
<1>2. (\A e \in Labels : At("R", e) <=> r1 = e) /\ (Ended("C") <=> c1 = "-") /\ Stk("R", 3) = "-"
  BY Zenon, <1>0, Clients, Slots DEF r1, r2, c1
<1>3. ASSUME r1 # "-"
      PROVE  /\ \A e \in Labels : pc' = To("R", e) => Goes("R", e, "-", "-")
             /\ pc' = Ret("R") => Goes("R", "-", "-", "-")
  BY Zenon, <1>0, <1>2, <1>3, Clients, Moves DEF r1, r2
<1> QED
  BY Zenon, <1>1, <1>2, <1>3

(* So does the keepalive thread.                                             *)
LEMMA KeepaliveMoves ==
  ASSUME Good
  PROVE  /\ \A e \in Labels : At("K", e) <=> k1 = e
         /\ Ended("C") <=> c1 = "-"
         /\ k1 # "-" =>
              /\ \A e \in Labels : pc' = To("K", e) => KGoes(e)
              /\ pc' = Ret("K") => KGoes("-")
<1>0. Typed /\ k2 = "-"
  BY Zenon DEF Good, Stacks
<1>1. \A a, d : Goes("K", a, "-", d) => KGoes(a)
  BY Zenon DEF Goes, KGoes, Client, MSame, CSame, RSame, m1, m2, m3, c1, c2, c3, r1, r2, k1, k2,
    Stk
<1>2. (\A e \in Labels : At("K", e) <=> k1 = e) /\ (Ended("C") <=> c1 = "-") /\ Stk("K", 3) = "-"
  BY Zenon, <1>0, Clients, Slots DEF k1, k2, c1
<1>3. ASSUME k1 # "-"
      PROVE  /\ \A e \in Labels : pc' = To("K", e) => Goes("K", e, "-", "-")
             /\ pc' = Ret("K") => Goes("K", "-", "-", "-")
  BY Zenon, <1>0, <1>2, <1>3, Clients, Moves DEF k1, k2
<1> QED
  BY Zenon, <1>1, <1>2, <1>3

(* The reader ends and leaves a reconnect thread behind.                     *)
LEMMA ReaderArms ==
  ASSUME Typed, pc' = [pc EXCEPT !["R"] = <<>>, !["C"] = <<"loop">>]
  PROVE  /\ Typed' /\ MSame /\ KSame
         /\ r1' = "-" /\ r2' = "-" /\ c1' = "loop" /\ c2' = "-" /\ c3' = "-"
<1>2. /\ <<"loop">> \in Seq(Labels) /\ Len(<<"loop">>) = 1
      /\ Slot(<<"loop">>, 1) = "loop" /\ Slot(<<"loop">>, 2) = "-" /\ Slot(<<"loop">>, 3) = "-"
  BY Zenon, LabelsKnown, StackOne
<1>3. <<>> \in Seq(Labels) /\ Len(<<>>) = 0 /\ Slot(<<>>, 1) = "-" /\ Slot(<<>>, 2) = "-"
  BY Zenon, StackEmpty
<1>4. /\ pc' \in [Threads -> Seq(Labels)] /\ pc'["R"] = <<>> /\ pc'["C"] = <<"loop">>
      /\ pc'["M"] = pc["M"] /\ pc'["K"] = pc["K"]
  BY Zenon, <1>2, <1>3 DEF Typed, Threads
<1>5. Typed'
  BY SMTT(30), <1>2, <1>3, <1>4 DEF Typed, Client
<1> QED
  BY Zenon, <1>2, <1>3, <1>4, <1>5 DEF Stk, m1, m2, m3, c1, c2, c3, r1, r2, k1, k2, MSame, KSame

(* A worker that submits a share moves no thread of the client.              *)
LEMMA SharesOnly ==
  ASSUME Typed, submit_share
  PROVE  Typed' /\ MSame /\ CSame /\ RSame /\ KSame
<1>1. pc["W"] \in Seq(Labels) /\ <<>> \in Seq(Labels)
  BY Zenon, StackEmpty DEF Typed, Threads
<1>2. pc' \in [Threads -> Seq(Labels)] /\ \A u \in Client : pc'[u] = pc[u]
  <2>1. CASE pc' = To("W", "send") /\ pc["W"] # <<>>
    BY Zenon, LabelsKnown, <1>1, <2>1, StackTo DEF Typed, To, Threads, Client
  <2>2. CASE pc' = Ret("W") /\ pc["W"] # <<>>
    BY <1>1, <2>2 DEF Typed, Ret, Threads, Client
  <2>3. CASE pc' = [pc EXCEPT !["W"] = <<>>]
    BY Zenon, <1>1, <2>3 DEF Typed, Threads, Client
  <2> QED
    BY Zenon, <2>1, <2>2, <2>3 DEF submit_share, At
<1> QED
  BY Zenon, <1>2 DEF Typed, Client, Stk, m1, m2, m3, c1, c2, c3, r1, r2, k1, k2, MSame, CSame,
    RSame, KSame

(* A step that moves no thread at all.                                       *)
LEMMA PcKept ==
  ASSUME Typed, pc' = pc
  PROVE  Typed' /\ MSame /\ CSame /\ RSame /\ KSame
BY Zenon DEF Typed, Stk, m1, m2, m3, c1, c2, c3, r1, r2, k1, k2, MSame, CSame, RSame, KSame

(* The reconnect thread is inside connect() while the main thread is inside
   disconnect().                                                              *)
Together == c2 # "-" /\ (m1 = "disc_C" \/ m2 = "disc_C" \/ m3 = "disc_C")

(* The model's Connecting and Disconnecting, in terms of slots.              *)
LEMMA Races ==
  ASSUME NEW p \in [Threads -> Seq(Labels)], Len(p["M"]) <= 3
  PROVE  /\ Connecting(p) <=> Slot(p["C"], 2) # "-"
         /\ Disconnecting(p) <=> \/ Slot(p["M"], 1) = "disc_C" \/ Slot(p["M"], 2) = "disc_C"
                                 \/ Slot(p["M"], 3) = "disc_C"
<1>1. p["M"] \in Seq(Labels) /\ p["C"] \in Seq(Labels)
  BY Zenon DEF Threads
<1>2. Connecting(p) <=> Slot(p["C"], 2) # "-"
  <2>1. \A i \in 1 .. Len(p["C"]) : p["C"][i] # "-"
    BY <1>1, LabelsKnown
  <2>2. Len(p["C"]) \in Nat
    BY <1>1
  <2> QED
    BY <2>1, <2>2 DEF Connecting, Slot
<1>3. Len(p["M"]) \in 0 .. 3 /\ DOMAIN p["M"] = 1 .. Len(p["M"])
  BY <1>1, StackLength
<1>4. Disconnecting(p) <=> \/ Slot(p["M"], 1) = "disc_C" \/ Slot(p["M"], 2) = "disc_C"
                           \/ Slot(p["M"], 3) = "disc_C"
  BY <1>3 DEF Disconnecting, Slot
<1> QED
  BY Zenon, <1>2, <1>4

(* What a step may do: it keeps the invariant, unless the reconnect thread is
   inside connect() as the main thread enters disconnect().                   *)
Outcome ==
  /\ Typed' /\ ~crashed'
  /\ Together' => m1 = "disconnect" /\ c2 # "-"
  /\ ~Together' => Good'

(* The variables of the client that the invariant is about.                   *)
Sets(j, h, e, s, f, w) ==
  /\ joinable_' = j /\ handshake_in_progress_' = h /\ reconnect_enabled_' = e
  /\ stratum_' = s /\ sockfd_' = f /\ (Locked' => w) /\ ~crashed'
Still == Sets(joinable_, handshake_in_progress_, reconnect_enabled_, stratum_, sockfd_, Locked)

(* The main thread goes on within PoolManager's own functions, with what the
   place it goes to asks of the threads, the client and the lock.            *)
Locking == {"retries", "decide", "cooldown", "unlock"}
LEMMA ManagerGoes ==
  ASSUME Good, ~crashed, ~crashed', m1 \in MainLabels, NEW a \in MainLabels, MGoes(a, m2, m3),
         UNCHANGED <<joinable_, handshake_in_progress_, reconnect_enabled_, sockfd_>>,
         a \in {"start", "create", "destroy", "reset", "unlock", "exited"} => joinable_ = {},
         a = "replace" => stratum_' \/ joinable_ = {},
         a \in {"main", "retries", "decide", "cooldown", "connected", "failed", "stop"} => stratum_',
         Locked' => a \in Locking \/ (Locked /\ m1 \notin Locking)
  PROVE  Outcome
BY SMTT(30) DEF MGoes, Outcome, Together, Good, Stacks, MainStack, ReconnectStack, MainLabels,
  ConnectLabels, CloseLabels, LoopLabels, ReaderLabels, AfterDisconnect, Held, OneConnects, Apart,
  Joined, Open, MConnecting, MDisconnecting, MSame, CSame, RSame, KSame, Sets, Still, Alone,
  Unlocking, Locking

(* PoolManager's own steps on the main thread: connect, tick() with its
   failover, and the shutdown.                                               *)
LEMMA MainOutcome ==
  ASSUME Good, ~crashed, Main
  PROVE  Outcome
<1>1. CASE PmConnect
  <2>1. /\ m1 = "start" /\ MGoes("replace", m2, m3)
        /\ Still
    BY Zenon, <1>1, MainMoves, LabelsKnown DEF PmConnect, Sets, Still, Locked, flags, loopVars,
      hsVars, netVars, ownVars, clientOnly, poolVars, clientVars
  <2> QED
    BY Zenon, <2>1, ManagerGoes DEF MainLabels, Locking, Sets, Still, Good, Joined
<1>2. CASE TakeOld /\ stratum_
  <2>1. /\ m1 = "replace" /\ MGoes("disconnect", "destroy", m2)
        /\ Sets(joinable_, handshake_in_progress_, reconnect_enabled_, FALSE, sockfd_, Locked)
    BY Zenon, <1>2, MainMoves, LabelsKnown DEF TakeOld, Sets, Still, Locked, flags, loopVars,
      hsVars, netVars, ownVars, clientOnly, poolVars, clientVars
  <2> QED
    BY <2>1 DEF MGoes, Outcome, Together, Good, Stacks, MainStack, ReconnectStack, MainLabels,
      ConnectLabels, CloseLabels, LoopLabels, ReaderLabels, AfterDisconnect, Held, OneConnects,
      Apart, Joined, Open, MConnecting, MDisconnecting, MSame, CSame, RSame, KSame, Sets, Still,
      Alone, Unlocking
<1>3. CASE TakeOld /\ ~stratum_
  <2>1. /\ m1 = "replace" /\ ~stratum_ /\ MGoes("create", m2, m3)
        /\ Sets(joinable_, handshake_in_progress_, reconnect_enabled_, FALSE, sockfd_, Locked)
    BY Zenon, <1>3, MainMoves, LabelsKnown DEF TakeOld, Sets, Still, Locked, flags, loopVars,
      hsVars, netVars, ownVars, clientOnly, poolVars, clientVars
  <2> QED
    BY Zenon, <2>1, ManagerGoes DEF MainLabels, Locking, Sets, Still, Good, Joined
<1>4. CASE DestroyOld
  <2>1. /\ m1 = "destroy" /\ joinable_ = {} /\ MGoes("create", m2, m3)
        /\ Still
    BY Zenon, <1>4, MainMoves, LabelsKnown DEF DestroyOld, Destroy, Good, Joined, Sets, Still,
      Locked, flags, loopVars, hsVars, netVars, ownVars, clientOnly, poolVars, clientVars
  <2> QED
    BY Zenon, <2>1, ManagerGoes DEF MainLabels, Locking, Sets, Still, Good, Joined
<1>5. CASE CreateClient
  <2>1. /\ m1 = "create" /\ joinable_ = {} /\ MGoes("connect", "connected", m2)
        /\ Sets({}, FALSE, TRUE, TRUE, FALSE, Locked)
    BY Zenon, <1>5, MainMoves, LabelsKnown DEF CreateClient, Good, Joined, Sets, Still, Locked,
      flags, loopVars, hsVars, netVars, ownVars, clientOnly, poolVars, clientVars
  <2> QED
    BY ZenonT(60), <2>1 DEF MGoes, Outcome, Together, Good, Stacks, MainStack, ReconnectStack,
      MainLabels, ConnectLabels, CloseLabels, LoopLabels, ReaderLabels, AfterDisconnect, Held,
      OneConnects, Apart, Joined, Open, MConnecting, MDisconnecting, MSame, CSame, RSame, KSame,
      Sets, Still, Alone, Unlocking
<1>6. CASE ConnectedOrLogged
  <2>1. /\ m1 \in {"connected", "failed"} /\ MGoes("main", m2, m3)
        /\ Still
    BY Zenon, <1>6, MainMoves, LabelsKnown DEF ConnectedOrLogged, Sets, Still, Locked, flags,
      loopVars, hsVars, netVars, ownVars, clientOnly, poolVars, clientVars
  <2> QED
    BY Zenon, <2>1, ManagerGoes DEF MainLabels, Locking, Sets, Still, Good, Joined
<1>7. CASE TickLooks
  <2>1. m1 = "main"
    BY Zenon, <1>7, MainMoves, LabelsKnown DEF TickLooks
  <2>2. m1' \in {"retries", "cooldown"} /\ MGoes(m1', m2, m3)
    BY Zenon, <1>7, <2>1, MainMoves, LabelsKnown DEF TickLooks, MGoes
  <2>3. Sets(joinable_, handshake_in_progress_, reconnect_enabled_, stratum_, sockfd_, TRUE)
    BY Zenon, <1>7, <2>1 DEF TickLooks, Sets, Still, Locked, flags, loopVars, hsVars, netVars,
      ownVars, clientOnly, poolVars, clientVars
  <2> QED
    BY Zenon, <2>1, <2>2, <2>3, ManagerGoes DEF MainLabels, Locking, Sets, Good, Joined
<1>8. CASE TickReadsRetries
  <2>1. /\ m1 = "retries" /\ MGoes("decide", m2, m3)
        /\ Still
    BY Zenon, <1>8, MainMoves, LabelsKnown DEF TickReadsRetries, Sets, Still, Locked, flags,
      loopVars, hsVars, netVars, ownVars, clientOnly, poolVars, clientVars
  <2> QED
    BY Zenon, <2>1, ManagerGoes DEF MainLabels, Locking, Sets, Still, Good, Joined
<1>9. CASE TickDecides
  <2>1. /\ m1 = "decide" /\ MGoes("cooldown", m2, m3)
        /\ Still
    BY Zenon, <1>9, MainMoves, LabelsKnown DEF TickDecides, Sets, Still, Locked, flags, loopVars,
      hsVars, netVars, ownVars, clientOnly, poolVars, clientVars
  <2> QED
    BY Zenon, <2>1, ManagerGoes DEF MainLabels, Locking, Sets, Still, Good, Joined
<1>10. CASE TickCoolsDown
  <2>1. m1 = "cooldown"
    BY Zenon, <1>10, MainMoves, LabelsKnown DEF TickCoolsDown
  <2>2. m1' \in {"replace", "main"} /\ MGoes(m1', m2, m3)
    BY Zenon, <1>10, <2>1, MainMoves, LabelsKnown DEF TickCoolsDown, MGoes
  <2>3. Sets(joinable_, handshake_in_progress_, reconnect_enabled_, stratum_, sockfd_, FALSE)
    BY Zenon, <1>10, <2>1 DEF TickCoolsDown, Sets, Still, Locked, flags, loopVars, hsVars,
      netVars, ownVars, clientOnly, poolVars, clientVars
  <2> QED
    BY Zenon, <2>1, <2>2, <2>3, ManagerGoes DEF MainLabels, Locking, Sets, Good, Joined
<1>11. CASE EngineStop
  <2>1. /\ m1 = "main" /\ MGoes("stop", m2, m3)
        /\ Still
    BY Zenon, <1>11, MainMoves, LabelsKnown DEF EngineStop, Sets, Still, Locked, flags, loopVars,
      hsVars, netVars, ownVars, clientOnly, poolVars, clientVars
  <2> QED
    BY Zenon, <2>1, ManagerGoes DEF MainLabels, Locking, Sets, Still, Good, Joined
<1>12. CASE PmDisconnect
  <2>1. /\ m1 = "stop" /\ MGoes("disconnect", "reset", m2)
        /\ Still
    BY Zenon, <1>12, MainMoves, LabelsKnown DEF PmDisconnect, Good, Joined, Sets, Still, Locked,
      flags, loopVars, hsVars, netVars, ownVars, clientOnly, poolVars, clientVars
  <2> QED
    BY <2>1 DEF MGoes, Outcome, Together, Good, Stacks, MainStack, ReconnectStack, MainLabels,
      ConnectLabels, CloseLabels, LoopLabels, ReaderLabels, AfterDisconnect, Held, OneConnects,
      Apart, Joined, Open, MConnecting, MDisconnecting, MSame, CSame, RSame, KSame, Sets, Still,
      Alone, Unlocking
<1>13. CASE PmReset /\ At("M", "reset") /\ stratum_
  <2>1. m1 = "reset" /\ ~At("M", "unlock")
    BY Zenon, <1>13, MainMoves, LabelsKnown DEF PmReset
  <2>2. MGoes("disconnect", "unlock", m2)
    BY Zenon, <1>13, <2>1, MainMoves, LabelsKnown DEF PmReset
  <2>3. UNCHANGED <<clientOnly, poolVars>>
    BY Zenon, <1>13, <2>1 DEF PmReset
  <2>4. Sets(joinable_, handshake_in_progress_, reconnect_enabled_, stratum_, sockfd_, TRUE)
    BY Zenon, <2>3 DEF PmReset, Sets, Still, Locked, flags, loopVars, hsVars, netVars, ownVars,
      clientOnly, poolVars, clientVars
  <2> QED
    BY <2>1, <2>2, <2>4 DEF MGoes, Outcome, Together, Good, Stacks, MainStack, ReconnectStack,
      MainLabels, ConnectLabels, CloseLabels, LoopLabels, ReaderLabels, AfterDisconnect, Held,
      OneConnects, Apart, Joined, Open, MConnecting, MDisconnecting, MSame, CSame, RSame, KSame,
      Sets, Still, Alone, Unlocking
<1>14. CASE PmReset /\ At("M", "reset") /\ ~stratum_
  <2>1. /\ m1 = "reset" /\ MGoes("unlock", m2, m3)
        /\ Sets(joinable_, handshake_in_progress_, reconnect_enabled_, stratum_, sockfd_, TRUE)
    BY <1>14, MainMoves, LabelsKnown DEF PmReset, Sets, Still, Locked, flags, loopVars, hsVars,
      netVars, ownVars, clientOnly, poolVars, clientVars
  <2> QED
    BY Zenon, <2>1, ManagerGoes DEF MainLabels, Locking, Sets, Still, Good, Joined
<1>15. CASE PmReset /\ At("M", "unlock")
  <2>1. /\ m1 = "unlock" /\ joinable_ = {} /\ MGoes("exited", m2, m3)
        /\ Sets(joinable_, handshake_in_progress_, reconnect_enabled_, FALSE, sockfd_, FALSE)
    BY Zenon, <1>15, MainMoves, LabelsKnown DEF PmReset, Destroy, Good, Joined, Sets, Still,
      Locked, flags, loopVars, hsVars, netVars, ownVars, clientOnly, poolVars, clientVars
  <2> QED
    BY Zenon, <2>1, ManagerGoes DEF MainLabels, Locking, Sets, Still, Good, Joined
<1> QED
  BY Zenon, <1>1, <1>2, <1>3, <1>4, <1>5, <1>6, <1>7, <1>8, <1>9, <1>10, <1>11, <1>12, <1>13,
    <1>14, <1>15 DEF Main, connect_to_current, tick, PmReset

(* connect() and close_connection() on the main thread.                      *)
LEMMA MainConnects ==
  ASSUME Good, ~crashed, UNCHANGED poolVars, Connects("M")
  PROVE  Outcome
<1>1. CASE ConnectEntry("M") /\ connected_
  <2>1. /\ m1 = "connect" /\ MGoes(m2, m3, "-")
        /\ Still
    BY Zenon, <1>1, MainMoves, LabelsKnown DEF ConnectEntry, Sets, Still, Locked, flags, loopVars,
      hsVars, netVars, ownVars, clientOnly, poolVars, clientVars
  <2> QED
    BY ZenonT(60), <2>1 DEF MGoes, Outcome, Together, Good, Stacks, MainStack, ReconnectStack,
      MainLabels, ConnectLabels, CloseLabels, LoopLabels, ReaderLabels, AfterDisconnect, Held,
      OneConnects, Apart, Joined, Open, MConnecting, MDisconnecting, MSame, CSame, RSame, KSame,
      Sets, Still, Alone, Unlocking
<1>2. CASE ConnectEntry("M") /\ ~connected_
  <2>1. /\ m1 = "connect" /\ MGoes("join", m2, m3)
        /\ Sets(joinable_, TRUE, TRUE, stratum_, sockfd_, Locked)
    BY Zenon, <1>2, MainMoves, LabelsKnown DEF ConnectEntry, Sets, Still, Locked, flags, loopVars,
      hsVars, netVars, ownVars, clientOnly, poolVars, clientVars
  <2> QED
    BY ZenonT(60), <2>1 DEF MGoes, Outcome, Together, Good, Stacks, MainStack, ReconnectStack,
      MainLabels, ConnectLabels, CloseLabels, LoopLabels, ReaderLabels, AfterDisconnect, Held,
      OneConnects, Apart, Joined, Open, MConnecting, MDisconnecting, MSame, CSame, RSame, KSame,
      Sets, Still, Alone, Unlocking
<1>3. CASE Throw("M")
  <2>1. m1 = "throw" /\ m2 = "connected" /\ m3 = "-"
    BY Zenon, <1>3, MainMoves, MainThrows, LabelsKnown DEF Throw, Good, Stacks, MainStack,
      ReconnectStack, ConnectLabels, CloseLabels, LoopLabels, MainLabels
  <2>2. MGoes("failed", "-", "-")
    BY Zenon, <1>3, <2>1, MainMoves, MainThrows, LabelsKnown DEF Throw
  <2>3. Sets(joinable_, FALSE, reconnect_enabled_, stratum_, sockfd_, Locked)
    BY Zenon, <1>3, <2>1 DEF Throw, Sets, Still, Locked, flags, loopVars, hsVars, netVars,
      ownVars, clientOnly, poolVars, clientVars
  <2> QED
    BY ZenonT(60), <2>1, <2>2, <2>3 DEF MGoes, Outcome, Together, Good, Stacks, MainStack,
      ReconnectStack, MainLabels, ConnectLabels, CloseLabels, LoopLabels, ReaderLabels,
      AfterDisconnect, Held, OneConnects, Apart, Joined, Open, MConnecting, MDisconnecting, MSame,
      CSame, RSame, KSame, Sets, Still, Alone, Unlocking
<1>4. CASE OpenSocket("M") /\ Reachable
  <2>1. /\ m1 = "resolve" /\ MGoes("spawn", m2, m3)
        /\ Sets(joinable_, handshake_in_progress_, reconnect_enabled_, stratum_, TRUE, Locked)
    BY Zenon, <1>4, MainMoves, LabelsKnown DEF OpenSocket, Sets, Still, Locked, flags, loopVars,
      hsVars, netVars, ownVars, clientOnly, poolVars, clientVars
  <2> QED
    BY ZenonT(60), <2>1 DEF MGoes, Outcome, Together, Good, Stacks, MainStack, ReconnectStack,
      MainLabels, ConnectLabels, CloseLabels, LoopLabels, ReaderLabels, AfterDisconnect, Held,
      OneConnects, Apart, Joined, Open, MConnecting, MDisconnecting, MSame, CSame, RSame, KSame,
      Sets, Still, Alone, Unlocking
<1>5. CASE OpenSocket("M") /\ ~Reachable
  <2>1. /\ m1 = "resolve" /\ MGoes("throw", m2, m3)
        /\ Still
    BY Zenon, <1>5, MainMoves, LabelsKnown DEF OpenSocket, Sets, Still, Locked, flags, loopVars,
      hsVars, netVars, ownVars, clientOnly, poolVars, clientVars
  <2> QED
    BY ZenonT(60), <2>1 DEF MGoes, Outcome, Together, Good, Stacks, MainStack, ReconnectStack,
      MainLabels, ConnectLabels, CloseLabels, LoopLabels, ReaderLabels, AfterDisconnect, Held,
      OneConnects, Apart, Joined, Open, MConnecting, MDisconnecting, MSame, CSame, RSame, KSame,
      Sets, Still, Alone, Unlocking
<1>6. CASE SpawnReader("M")
  <2>1. /\ m1 = "spawn" /\ MStarts("login", "check", k1)
        /\ Sets(joinable_ \union {"R"},
                handshake_in_progress_, reconnect_enabled_, stratum_, sockfd_, Locked)
    BY Zenon, <1>6, MainMoves, MainStarts, LabelsKnown DEF SpawnReader, Sets, Still, Locked,
      flags, loopVars, hsVars, netVars, ownVars, clientOnly, poolVars, clientVars
  <2> QED
    BY ZenonT(60), <2>1 DEF MStarts, Outcome, Together, Good, Stacks, MainStack, ReconnectStack,
      MainLabels, ConnectLabels, CloseLabels, LoopLabels, ReaderLabels, AfterDisconnect, Held,
      OneConnects, Apart, Joined, Open, MConnecting, MDisconnecting, MSame, CSame, RSame, KSame,
      Sets, Still, Alone, Unlocking
<1>7. CASE SendHandshake("M")
  <2>1. /\ m1 = "login" /\ MGoes("wait", m2, m3)
        /\ Still
    BY Zenon, <1>7, MainMoves, LabelsKnown DEF SendHandshake, Sets, Still, Locked, flags,
      loopVars, hsVars, netVars, ownVars, clientOnly, poolVars, clientVars
  <2> QED
    BY ZenonT(60), <2>1 DEF MGoes, Outcome, Together, Good, Stacks, MainStack, ReconnectStack,
      MainLabels, ConnectLabels, CloseLabels, LoopLabels, ReaderLabels, AfterDisconnect, Held,
      OneConnects, Apart, Joined, Open, MConnecting, MDisconnecting, MSame, CSame, RSame, KSame,
      Sets, Still, Alone, Unlocking
<1>8. CASE HandshakeDone("M") /\ subscribe_done_ /\ subscribe_ok_
  <2>1. /\ m1 = "wait" /\ MGoes("keepalive", m2, m3)
        /\ Still
    BY Zenon, <1>8, MainMoves, LabelsKnown DEF HandshakeDone, Sets, Still, Locked, flags,
      loopVars, hsVars, netVars, ownVars, clientOnly, poolVars, clientVars
  <2> QED
    BY ZenonT(60), <2>1 DEF MGoes, Outcome, Together, Good, Stacks, MainStack, ReconnectStack,
      MainLabels, ConnectLabels, CloseLabels, LoopLabels, ReaderLabels, AfterDisconnect, Held,
      OneConnects, Apart, Joined, Open, MConnecting, MDisconnecting, MSame, CSame, RSame, KSame,
      Sets, Still, Alone, Unlocking
<1>9. CASE HandshakeDone("M") /\ ~(subscribe_done_ /\ subscribe_ok_)
  <2>1. m1 = "wait"
    BY Zenon, <1>9, MainMoves, LabelsKnown DEF HandshakeDone
  <2>2. m2' \in {"resolve", "throw"} /\ MGoes("close", m2', m2)
    BY <1>9, <2>1, MainMoves, LabelsKnown DEF HandshakeDone, MGoes
  <2>3. Still
    BY Zenon, <1>9, <2>1 DEF HandshakeDone, Sets, Still, Locked, flags, loopVars, hsVars, netVars,
      ownVars, clientOnly, poolVars, clientVars
  <2> QED
    BY ZenonT(60), <2>1, <2>2, <2>3 DEF MGoes, Outcome, Together, Good, Stacks, MainStack,
      ReconnectStack, MainLabels, ConnectLabels, CloseLabels, LoopLabels, ReaderLabels,
      AfterDisconnect, Held, OneConnects, Apart, Joined, Open, MConnecting, MDisconnecting, MSame,
      CSame, RSame, KSame, Sets, Still, Alone, Unlocking
<1>10. CASE StartKeepalive("M") /\ protocol_ = "CN"
  <2>1. /\ m1 = "keepalive" /\ MStarts("guard", r1, "keepalive_loop")
        /\ Sets(joinable_ \union {"K"},
                handshake_in_progress_, reconnect_enabled_, stratum_, sockfd_, Locked)
    BY Zenon, <1>10, MainMoves, MainStarts, LabelsKnown DEF StartKeepalive, Sets, Still, Locked,
      flags, loopVars, hsVars, netVars, ownVars, clientOnly, poolVars, clientVars
  <2> QED
    BY ZenonT(60), <2>1 DEF MStarts, Outcome, Together, Good, Stacks, MainStack, ReconnectStack,
      MainLabels, ConnectLabels, CloseLabels, LoopLabels, ReaderLabels, AfterDisconnect, Held,
      OneConnects, Apart, Joined, Open, MConnecting, MDisconnecting, MSame, CSame, RSame, KSame,
      Sets, Still, Alone, Unlocking
<1>11. CASE StartKeepalive("M") /\ protocol_ # "CN"
  <2>1. /\ m1 = "keepalive" /\ MGoes("guard", m2, m3)
        /\ Still
    BY Zenon, <1>11, MainMoves, LabelsKnown DEF StartKeepalive, Sets, Still, Locked, flags,
      loopVars, hsVars, netVars, ownVars, clientOnly, poolVars, clientVars
  <2> QED
    BY ZenonT(60), <2>1 DEF MGoes, Outcome, Together, Good, Stacks, MainStack, ReconnectStack,
      MainLabels, ConnectLabels, CloseLabels, LoopLabels, ReaderLabels, AfterDisconnect, Held,
      OneConnects, Apart, Joined, Open, MConnecting, MDisconnecting, MSame, CSame, RSame, KSame,
      Sets, Still, Alone, Unlocking
<1>12. CASE ConnectReturns("M")
  <2>1. /\ m1 = "guard" /\ MGoes(m2, m3, "-")
        /\ Sets(joinable_, FALSE, reconnect_enabled_, stratum_, sockfd_, Locked)
    BY Zenon, <1>12, MainMoves, LabelsKnown DEF ConnectReturns, Sets, Still, Locked, flags,
      loopVars, hsVars, netVars, ownVars, clientOnly, poolVars, clientVars
  <2> QED
    BY ZenonT(60), <2>1 DEF MGoes, Outcome, Together, Good, Stacks, MainStack, ReconnectStack,
      MainLabels, ConnectLabels, CloseLabels, LoopLabels, ReaderLabels, AfterDisconnect, Held,
      OneConnects, Apart, Joined, Open, MConnecting, MDisconnecting, MSame, CSame, RSame, KSame,
      Sets, Still, Alone, Unlocking
<1>13. CASE Join("M", "join", {"R", "K", "C"} \ {"M"}, "resolve")
  <2>1. /\ m1 = "join" /\ ("R" \in joinable_ => r1 = "-") /\ ("K" \in joinable_ => k1 = "-")
        /\ ("C" \in joinable_ => c1 = "-") /\ MGoes("resolve", m2, m3)
        /\ Sets(joinable_ \ ({"R", "K", "C"} \ {"M"}),
                handshake_in_progress_, reconnect_enabled_, stratum_, sockfd_, Locked)
    BY Zenon, <1>13, MainMoves, LabelsKnown DEF Join, Sets, Still, Locked, flags, loopVars,
      hsVars, netVars, ownVars, clientOnly, poolVars, clientVars
  <2> QED
    BY ZenonT(60), <2>1 DEF MGoes, Outcome, Together, Good, Stacks, MainStack, ReconnectStack,
      MainLabels, ConnectLabels, CloseLabels, LoopLabels, ReaderLabels, AfterDisconnect, Held,
      OneConnects, Apart, Joined, Open, MConnecting, MDisconnecting, MSame, CSame, RSame, KSame,
      Sets, Still, Alone, Unlocking
<1>14. CASE Shutdown("M")
  <2>1. /\ m1 = "close" /\ MGoes("close_R", m2, m3)
        /\ Still
    BY Zenon, <1>14, MainMoves, LabelsKnown DEF Shutdown, Sets, Still, Locked, flags, loopVars,
      hsVars, netVars, ownVars, clientOnly, poolVars, clientVars
  <2> QED
    BY <2>1 DEF MGoes, Outcome, Together, Good, Stacks, MainStack, ReconnectStack, MainLabels,
      ConnectLabels, CloseLabels, LoopLabels, ReaderLabels, AfterDisconnect, Held, OneConnects,
      Apart, Joined, Open, MConnecting, MDisconnecting, MSame, CSame, RSame, KSame, Sets, Still,
      Alone, Unlocking
<1>15. CASE Join("M", "close_R", {"R", "K"}, "close_fd")
  <2>1. /\ m1 = "close_R" /\ ("R" \in joinable_ => r1 = "-") /\ ("K" \in joinable_ => k1 = "-")
        /\ MGoes("close_fd", m2, m3)
        /\ Sets(joinable_ \ {"R", "K"},
                handshake_in_progress_, reconnect_enabled_, stratum_, sockfd_, Locked)
    BY Zenon, <1>15, MainMoves, LabelsKnown DEF Join, Sets, Still, Locked, flags, loopVars,
      hsVars, netVars, ownVars, clientOnly, poolVars, clientVars
  <2> QED
    BY ZenonT(60), <2>1 DEF MGoes, Outcome, Together, Good, Stacks, MainStack, ReconnectStack,
      MainLabels, ConnectLabels, CloseLabels, LoopLabels, ReaderLabels, AfterDisconnect, Held,
      OneConnects, Apart, Joined, Open, MConnecting, MDisconnecting, MSame, CSame, RSame, KSame,
      Sets, Still, Alone, Unlocking
<1>16. CASE CloseFd("M")
  <2>1. /\ m1 = "close_fd" /\ MGoes(m2, m3, "-")
        /\ Sets(joinable_, handshake_in_progress_, reconnect_enabled_, stratum_, FALSE, Locked)
    BY Zenon, <1>16, MainMoves, LabelsKnown DEF CloseFd, Sets, Still, Locked, flags, loopVars,
      hsVars, netVars, ownVars, clientOnly, poolVars, clientVars
  <2> QED
    BY ZenonT(60), <2>1 DEF MGoes, Outcome, Together, Good, Stacks, MainStack, ReconnectStack,
      MainLabels, ConnectLabels, CloseLabels, LoopLabels, ReaderLabels, AfterDisconnect, Held,
      OneConnects, Apart, Joined, Open, MConnecting, MDisconnecting, MSame, CSame, RSame, KSame,
      Sets, Still, Alone, Unlocking
<1> QED
  BY Zenon, <1>1, <1>2, <1>3, <1>4, <1>5, <1>6, <1>7, <1>8, <1>9, <1>10, <1>11, <1>12, <1>13,
    <1>14, <1>15, <1>16 DEF Connects, connect, close_connection

(* The reconnect thread goes on within connect(), or within its loop, to a
   place where the reader may still run.                                     *)
LEMMA LoopGoes ==
  ASSUME Good, ~crashed, Still, NEW a, CGoes(a, c2, c3),
         \/ c1 \in LoopLabels /\ a \in LoopLabels
         \/ c1 \in ConnectLabels /\ a \in ConnectLabels /\ c1 # "connect",
         a \notin {"loop", "exhausted", "connect", "join", "resolve", "spawn", "throw", "close_fd"}
  PROVE  Outcome
BY SMTT(30) DEF CGoes, Outcome, Together, Good, Stacks, MainStack, ReconnectStack, MainLabels,
  ConnectLabels, CloseLabels, LoopLabels, ReaderLabels, AfterDisconnect, Held, OneConnects, Apart,
  Joined, Open, MConnecting, MDisconnecting, MSame, CSame, RSame, KSame, Sets, Still, Alone,
  Unlocking

(* connect() and close_connection() on the reconnect thread.                 *)
LEMMA LoopConnects ==
  ASSUME Good, ~crashed, UNCHANGED poolVars, Connects("C")
  PROVE  Outcome
<1>1. CASE ConnectEntry("C") /\ connected_
  <2>1. /\ c1 = "connect" /\ CGoes(c2, c3, "-")
        /\ Still
    BY Zenon, <1>1, LoopMoves, LabelsKnown DEF ConnectEntry, Sets, Still, Locked, flags, loopVars,
      hsVars, netVars, ownVars, clientOnly, poolVars, clientVars
  <2> QED
    BY ZenonT(60), <2>1 DEF CGoes, Outcome, Together, Good, Stacks, MainStack, ReconnectStack,
      MainLabels,
      ConnectLabels, CloseLabels, LoopLabels, ReaderLabels, AfterDisconnect, Held, OneConnects,
      Apart, Joined, Open, MConnecting, MDisconnecting, MSame, CSame, RSame, KSame, Sets, Still,
      Alone, Unlocking
<1>2. CASE ConnectEntry("C") /\ ~connected_
  <2>1. /\ c1 = "connect" /\ CGoes("join", c2, c3)
        /\ Sets(joinable_, TRUE, TRUE, stratum_, sockfd_, Locked)
    BY Zenon, <1>2, LoopMoves, LabelsKnown DEF ConnectEntry, Sets, Still, Locked, flags, loopVars,
      hsVars, netVars, ownVars, clientOnly, poolVars, clientVars
  <2> QED
    BY ZenonT(60), <2>1 DEF CGoes, Outcome, Together, Good, Stacks, MainStack, ReconnectStack,
      MainLabels,
      ConnectLabels, CloseLabels, LoopLabels, ReaderLabels, AfterDisconnect, Held, OneConnects,
      Apart, Joined, Open, MConnecting, MDisconnecting, MSame, CSame, RSame, KSame, Sets, Still,
      Alone, Unlocking
<1>3. CASE Throw("C")
  <2>1. c1 = "throw" /\ c2 = "reconnected" /\ c3 = "-"
    BY Zenon, <1>3, LoopMoves, LoopThrows, LabelsKnown DEF Throw, Good, Stacks, MainStack,
      ReconnectStack, ConnectLabels, CloseLabels, LoopLabels, MainLabels
  <2>2. CGoes("loop", "-", "-")
    BY Zenon, <1>3, <2>1, LoopMoves, LoopThrows, LabelsKnown DEF Throw
  <2>3. Sets(joinable_, FALSE, reconnect_enabled_, stratum_, sockfd_, Locked)
    BY Zenon, <1>3, <2>1 DEF Throw, Sets, Still, Locked, flags, loopVars, hsVars, netVars,
      ownVars, clientOnly, poolVars, clientVars
  <2> QED
    BY <2>1, <2>2, <2>3 DEF CGoes, Outcome, Together, Good, Stacks, MainStack, ReconnectStack,
      MainLabels, ConnectLabels, CloseLabels, LoopLabels, ReaderLabels, AfterDisconnect, Held,
      OneConnects, Apart, Joined, Open, MConnecting, MDisconnecting, MSame, CSame, RSame, KSame,
      Sets, Still, Alone, Unlocking
<1>4. CASE OpenSocket("C") /\ Reachable
  <2>1. /\ c1 = "resolve" /\ CGoes("spawn", c2, c3)
        /\ Sets(joinable_, handshake_in_progress_, reconnect_enabled_, stratum_, TRUE, Locked)
    BY Zenon, <1>4, LoopMoves, LabelsKnown DEF OpenSocket, Sets, Still, Locked, flags, loopVars,
      hsVars, netVars, ownVars, clientOnly, poolVars, clientVars
  <2> QED
    BY ZenonT(60), <2>1 DEF CGoes, Outcome, Together, Good, Stacks, MainStack, ReconnectStack,
      MainLabels,
      ConnectLabels, CloseLabels, LoopLabels, ReaderLabels, AfterDisconnect, Held, OneConnects,
      Apart, Joined, Open, MConnecting, MDisconnecting, MSame, CSame, RSame, KSame, Sets, Still,
      Alone, Unlocking
<1>5. CASE OpenSocket("C") /\ ~Reachable
  <2>1. /\ c1 = "resolve" /\ CGoes("throw", c2, c3)
        /\ Still
    BY Zenon, <1>5, LoopMoves, LabelsKnown DEF OpenSocket, Sets, Still, Locked, flags, loopVars,
      hsVars, netVars, ownVars, clientOnly, poolVars, clientVars
  <2> QED
    BY <2>1 DEF CGoes, Outcome, Together, Good, Stacks, MainStack, ReconnectStack, MainLabels,
      ConnectLabels, CloseLabels, LoopLabels, ReaderLabels, AfterDisconnect, Held, OneConnects,
      Apart, Joined, Open, MConnecting, MDisconnecting, MSame, CSame, RSame, KSame, Sets, Still,
      Alone, Unlocking
<1>6. CASE SpawnReader("C")
  <2>1. /\ c1 = "spawn" /\ CStarts("login", "check", k1)
        /\ Sets(joinable_ \union {"R"},
                handshake_in_progress_, reconnect_enabled_, stratum_, sockfd_, Locked)
    BY Zenon, <1>6, LoopMoves, LoopStarts, LabelsKnown DEF SpawnReader, Sets, Still, Locked,
      flags, loopVars, hsVars, netVars, ownVars, clientOnly, poolVars, clientVars
  <2> QED
    BY ZenonT(60), <2>1 DEF CStarts, Outcome, Together, Good, Stacks, MainStack, ReconnectStack,
      MainLabels, ConnectLabels, CloseLabels, LoopLabels, ReaderLabels, AfterDisconnect, Held,
      OneConnects, Apart, Joined, Open, MConnecting, MDisconnecting, MSame, CSame, RSame, KSame,
      Sets, Still, Alone, Unlocking
<1>7. CASE SendHandshake("C")
  <2>1. /\ c1 = "login" /\ CGoes("wait", c2, c3)
        /\ Still
    BY Zenon, <1>7, LoopMoves, LabelsKnown DEF SendHandshake, Sets, Still, Locked, flags,
      loopVars, hsVars, netVars, ownVars, clientOnly, poolVars, clientVars
  <2> QED
    BY Zenon, <2>1, LoopGoes DEF ConnectLabels
<1>8. CASE HandshakeDone("C") /\ subscribe_done_ /\ subscribe_ok_
  <2>1. /\ c1 = "wait" /\ CGoes("keepalive", c2, c3)
        /\ Still
    BY Zenon, <1>8, LoopMoves, LabelsKnown DEF HandshakeDone, Sets, Still, Locked, flags,
      loopVars, hsVars, netVars, ownVars, clientOnly, poolVars, clientVars
  <2> QED
    BY Zenon, <2>1, LoopGoes DEF ConnectLabels
<1>9. CASE HandshakeDone("C") /\ ~(subscribe_done_ /\ subscribe_ok_)
  <2>1. c1 = "wait"
    BY Zenon, <1>9, LoopMoves, LabelsKnown DEF HandshakeDone
  <2>2. c2' \in {"resolve", "throw"} /\ CGoes("close", c2', c2)
    BY <1>9, <2>1, LoopMoves, LabelsKnown DEF HandshakeDone, CGoes
  <2>3. Still
    BY Zenon, <1>9, <2>1 DEF HandshakeDone, Sets, Still, Locked, flags, loopVars, hsVars, netVars,
      ownVars, clientOnly, poolVars, clientVars
  <2> QED
    BY <2>1, <2>2, <2>3 DEF CGoes, Outcome, Together, Good, Stacks, MainStack, ReconnectStack,
      MainLabels, ConnectLabels, CloseLabels, LoopLabels, ReaderLabels, AfterDisconnect, Held,
      OneConnects, Apart, Joined, Open, MConnecting, MDisconnecting, MSame, CSame, RSame, KSame,
      Sets, Still, Alone, Unlocking
<1>10. CASE StartKeepalive("C") /\ protocol_ = "CN"
  <2>1. /\ c1 = "keepalive" /\ CStarts("guard", r1, "keepalive_loop")
        /\ Sets(joinable_ \union {"K"},
                handshake_in_progress_, reconnect_enabled_, stratum_, sockfd_, Locked)
    BY Zenon, <1>10, LoopMoves, LoopStarts, LabelsKnown DEF StartKeepalive, Sets, Still, Locked,
      flags, loopVars, hsVars, netVars, ownVars, clientOnly, poolVars, clientVars
  <2> QED
    BY ZenonT(60), <2>1 DEF CStarts, Outcome, Together, Good, Stacks, MainStack, ReconnectStack,
      MainLabels,
      ConnectLabels, CloseLabels, LoopLabels, ReaderLabels, AfterDisconnect, Held, OneConnects,
      Apart, Joined, Open, MConnecting, MDisconnecting, MSame, CSame, RSame, KSame, Sets, Still,
      Alone, Unlocking
<1>11. CASE StartKeepalive("C") /\ protocol_ # "CN"
  <2>1. /\ c1 = "keepalive" /\ CGoes("guard", c2, c3)
        /\ Still
    BY Zenon, <1>11, LoopMoves, LabelsKnown DEF StartKeepalive, Sets, Still, Locked, flags,
      loopVars, hsVars, netVars, ownVars, clientOnly, poolVars, clientVars
  <2> QED
    BY Zenon, <2>1, LoopGoes DEF ConnectLabels
<1>12. CASE ConnectReturns("C")
  <2>1. /\ c1 = "guard" /\ CGoes(c2, c3, "-")
        /\ Sets(joinable_, FALSE, reconnect_enabled_, stratum_, sockfd_, Locked)
    BY Zenon, <1>12, LoopMoves, LabelsKnown DEF ConnectReturns, Sets, Still, Locked, flags,
      loopVars, hsVars, netVars, ownVars, clientOnly, poolVars, clientVars
  <2> QED
    BY <2>1 DEF CGoes, Outcome, Together, Good, Stacks, MainStack, ReconnectStack, MainLabels,
      ConnectLabels, CloseLabels, LoopLabels, ReaderLabels, AfterDisconnect, Held, OneConnects,
      Apart, Joined, Open, MConnecting, MDisconnecting, MSame, CSame, RSame, KSame, Sets, Still,
      Alone, Unlocking
<1>13. CASE Join("C", "join", {"R", "K", "C"} \ {"C"}, "resolve")
  <2>1. /\ c1 = "join" /\ ("R" \in joinable_ => r1 = "-") /\ ("K" \in joinable_ => k1 = "-")
        /\ CGoes("resolve", c2, c3)
        /\ Sets(joinable_ \ ({"R", "K", "C"} \ {"C"}),
                handshake_in_progress_, reconnect_enabled_, stratum_, sockfd_, Locked)
    BY Zenon, <1>13, LoopMoves, LabelsKnown DEF Join, Sets, Still, Locked, flags, loopVars,
      hsVars, netVars, ownVars, clientOnly, poolVars, clientVars
  <2> QED
    BY ZenonT(60), <2>1 DEF CGoes, Outcome, Together, Good, Stacks, MainStack, ReconnectStack,
      MainLabels, ConnectLabels, CloseLabels, LoopLabels, ReaderLabels, AfterDisconnect, Held,
      OneConnects, Apart, Joined, Open, MConnecting, MDisconnecting, MSame, CSame, RSame, KSame,
      Sets, Still, Alone, Unlocking
<1>14. CASE Shutdown("C")
  <2>1. /\ c1 = "close" /\ CGoes("close_R", c2, c3)
        /\ Still
    BY Zenon, <1>14, LoopMoves, LabelsKnown DEF Shutdown, Sets, Still, Locked, flags, loopVars,
      hsVars, netVars, ownVars, clientOnly, poolVars, clientVars
  <2> QED
    BY <2>1 DEF CGoes, Outcome, Together, Good, Stacks, MainStack, ReconnectStack, MainLabels,
      ConnectLabels, CloseLabels, LoopLabels, ReaderLabels, AfterDisconnect, Held, OneConnects,
      Apart, Joined, Open, MConnecting, MDisconnecting, MSame, CSame, RSame, KSame, Sets, Still,
      Alone, Unlocking
<1>15. CASE Join("C", "close_R", {"R", "K"}, "close_fd")
  <2>1. /\ c1 = "close_R" /\ ("R" \in joinable_ => r1 = "-") /\ ("K" \in joinable_ => k1 = "-")
        /\ CGoes("close_fd", c2, c3)
        /\ Sets(joinable_ \ {"R", "K"},
                handshake_in_progress_, reconnect_enabled_, stratum_, sockfd_, Locked)
    BY Zenon, <1>15, LoopMoves, LabelsKnown DEF Join, Sets, Still, Locked, flags, loopVars,
      hsVars, netVars, ownVars, clientOnly, poolVars, clientVars
  <2> QED
    BY ZenonT(60), <2>1 DEF CGoes, Outcome, Together, Good, Stacks, MainStack, ReconnectStack,
      MainLabels, ConnectLabels, CloseLabels, LoopLabels, ReaderLabels, AfterDisconnect, Held,
      OneConnects, Apart, Joined, Open, MConnecting, MDisconnecting, MSame, CSame, RSame, KSame,
      Sets, Still, Alone, Unlocking
<1>16. CASE CloseFd("C")
  <2>1. /\ c1 = "close_fd" /\ CGoes(c2, c3, "-")
        /\ Sets(joinable_, handshake_in_progress_, reconnect_enabled_, stratum_, FALSE, Locked)
    BY Zenon, <1>16, LoopMoves, LabelsKnown DEF CloseFd, Sets, Still, Locked, flags, loopVars,
      hsVars, netVars, ownVars, clientOnly, poolVars, clientVars
  <2> QED
    BY ZenonT(60), <2>1 DEF CGoes, Outcome, Together, Good, Stacks, MainStack, ReconnectStack,
      MainLabels,
      ConnectLabels, CloseLabels, LoopLabels, ReaderLabels, AfterDisconnect, Held, OneConnects,
      Apart, Joined, Open, MConnecting, MDisconnecting, MSame, CSame, RSame, KSame, Sets, Still,
      Alone, Unlocking
<1> QED
  BY ZenonT(60), <1>1, <1>2, <1>3, <1>4, <1>5, <1>6, <1>7, <1>8, <1>9, <1>10, <1>11, <1>12, <1>13,
    <1>14, <1>15, <1>16 DEF Connects, connect, close_connection

(* disconnect() around close_connection(): the flag first, the join of the
   reconnect thread last.                                                    *)
LEMMA Disconnects ==
  ASSUME Good, ~crashed, UNCHANGED poolVars, disconnect("M")
  PROVE  Outcome
<1>1. CASE disconnect("M") /\ At("M", "disconnect")
  <2>1. /\ m1 = "disconnect" /\ MGoes("close", "disc_C", m2)
        /\ Sets(joinable_, handshake_in_progress_, FALSE, stratum_, sockfd_, Locked)
    BY Zenon, <1>1, MainMoves, LabelsKnown DEF disconnect, JoinReconnect, Sets, Still, Locked,
      flags, loopVars, hsVars, netVars, ownVars, clientOnly, poolVars, clientVars
  <2> QED
    BY <2>1 DEF MGoes, Outcome, Together, Good, Stacks, MainStack, ReconnectStack, MainLabels,
      ConnectLabels, CloseLabels, LoopLabels, ReaderLabels, AfterDisconnect, Held, OneConnects,
      Apart, Joined, Open, MConnecting, MDisconnecting, MSame, CSame, RSame, KSame, Sets, Still,
      Alone, Unlocking
<1>2. CASE JoinReconnect("M")
  <2>1. /\ m1 = "disc_C" /\ ("C" \in joinable_ => c1 = "-") /\ MGoes(m2, m3, "-")
        /\ Sets(joinable_ \ {"C"},
                handshake_in_progress_, reconnect_enabled_, stratum_, sockfd_, Locked)
    BY Zenon, <1>2, MainMoves, LabelsKnown DEF JoinReconnect, Sets, Still, Locked, flags,
      loopVars, hsVars, netVars, ownVars, clientOnly, poolVars, clientVars
  <2> QED
    BY ZenonT(60), <2>1 DEF MGoes, Outcome, Together, Good, Stacks, MainStack, ReconnectStack,
      MainLabels, ConnectLabels, CloseLabels, LoopLabels, ReaderLabels, AfterDisconnect, Held,
      OneConnects, Apart, Joined, Open, MConnecting, MDisconnecting, MSame, CSame, RSame, KSame,
      Sets, Still, Alone, Unlocking
<1> QED
  BY Zenon, <1>1, <1>2 DEF disconnect

(* The reader thread goes from one place to another, or ends: it may go to the
   place where it arms a reconnect loop only outside a handshake.            *)
LEMMA ReaderGoes ==
  ASSUME Good, ~crashed, Still, NEW a \in ReaderLabels \union {"-"}, RGoes(a), r1 # "-",
         a = "arm" => ~handshake_in_progress_
  PROVE  Outcome
BY SMTT(30) DEF RGoes, Outcome, Together, Good, Stacks, MainStack, ReconnectStack, MainLabels,
  ConnectLabels, CloseLabels, LoopLabels, ReaderLabels, AfterDisconnect, Held, OneConnects, Apart,
  Joined, Open, MConnecting, MDisconnecting, MSame, CSame, RSame, KSame, Sets, Still, Alone,
  Unlocking

(* The reader thread, with its exit that may arm a reconnect loop.           *)
LEMMA Reads ==
  ASSUME Good, ~crashed, UNCHANGED poolVars, reader_thread_fn
  PROVE  Outcome
<1>1. CASE read_line /\ pc' = pc
  <2>1. /\ r1 = "recv" /\ Typed' /\ MSame /\ CSame /\ RSame /\ KSame
        /\ Still
    BY Zenon, <1>1, ReaderMoves, PcKept, LabelsKnown DEF read_line, Good, Stacks, Sets, Still,
      Locked, flags, loopVars, hsVars, netVars, ownVars, clientOnly, poolVars, clientVars
  <2> QED
    BY <2>1 DEF RGoes, Outcome, Together, Good, Stacks, MainStack, ReconnectStack, MainLabels,
      ConnectLabels, CloseLabels, LoopLabels, ReaderLabels, AfterDisconnect, Held, OneConnects,
      Apart, Joined, Open, MConnecting, MDisconnecting, MSame, CSame, RSame, KSame, Sets, Still,
      Alone, Unlocking
<1>2. CASE read_line /\ pc' # pc
  <2>1. /\ r1 = "recv" /\ RGoes("exit")
        /\ Still
    BY Zenon, <1>2, ReaderMoves, LabelsKnown DEF read_line, Sets, Still, Locked, flags, loopVars,
      hsVars, netVars, ownVars, clientOnly, poolVars, clientVars
  <2> QED
    BY Zenon, <2>1, ReaderGoes DEF ReaderLabels
<1>3. CASE handle_line
  <2>1. /\ r1 = "recv" /\ r1' \in {"exit", "check"} /\ RGoes(r1')
        /\ Still
    BY Zenon, <1>3, ReaderMoves, LabelsKnown DEF handle_line, RGoes, Sets, Still, Locked, flags,
      loopVars, hsVars, netVars, ownVars, clientOnly, poolVars, clientVars
  <2> QED
    BY Zenon, <2>1, ReaderGoes DEF ReaderLabels
<1>4. CASE reader_exit /\ At("R", "check")
  <2>1. /\ r1 = "check" /\ r1' \in {"exit", "recv"} /\ RGoes(r1')
        /\ Still
    BY Zenon, <1>4, ReaderMoves, LabelsKnown DEF reader_exit, RGoes, Sets, Still, Locked, flags,
      loopVars, hsVars, netVars, ownVars, clientOnly, poolVars, clientVars
  <2> QED
    BY Zenon, <2>1, ReaderGoes DEF ReaderLabels
<1>5. CASE reader_exit /\ At("R", "exit")
  <2>1. /\ r1 = "exit" /\ RGoes("decide")
        /\ Still
    BY Zenon, <1>5, ReaderMoves, LabelsKnown DEF reader_exit, Sets, Still, Locked, flags,
      loopVars, hsVars, netVars, ownVars, clientOnly, poolVars, clientVars
  <2> QED
    BY Zenon, <2>1, ReaderGoes DEF ReaderLabels
<1>6. CASE reader_exit /\ At("R", "decide")
  <2>1. /\ r1 = "decide" /\ (r1' = "callback" \/ (r1' = "arm" /\ ~handshake_in_progress_))
        /\ RGoes(r1')
        /\ Still
    BY Zenon, <1>6, ReaderMoves, LabelsKnown DEF reader_exit, RGoes, Sets, Still, Locked, flags,
      loopVars, hsVars, netVars, ownVars, clientOnly, poolVars, clientVars
  <2> QED
    BY Zenon, <2>1, ReaderGoes DEF ReaderLabels
<1>7. CASE reader_exit /\ At("R", "arm")
  <2>1. /\ r1 = "arm" /\ ("C" \in joinable_ => c1 = "-") /\ r1' = "-" /\ r2' = "-" /\ c1' = "loop"
        /\ c2' = "-" /\ c3' = "-" /\ Typed' /\ MSame /\ KSame
        /\ Sets(joinable_ \union {"C"},
                handshake_in_progress_, reconnect_enabled_, stratum_, sockfd_, Locked)
    BY Zenon, <1>7, ReaderMoves, ReaderArms, LabelsKnown DEF reader_exit, Good, Stacks, RGoes,
      Sets, Still, Locked, flags, loopVars, hsVars, netVars, ownVars, clientOnly, poolVars,
      clientVars
  <2> QED
    BY <2>1 DEF RGoes, Outcome, Together, Good, Stacks, MainStack, ReconnectStack, MainLabels,
      ConnectLabels, CloseLabels, LoopLabels, ReaderLabels, AfterDisconnect, Held, OneConnects,
      Apart, Joined, Open, MConnecting, MDisconnecting, MSame, CSame, RSame, KSame, Sets, Still,
      Alone, Unlocking
<1>8. CASE reader_exit /\ At("R", "callback")
  <2>1. /\ r1 = "callback" /\ RGoes("-")
        /\ Still
    BY Zenon, <1>8, ReaderMoves, LabelsKnown DEF reader_exit, Sets, Still, Locked, flags,
      loopVars, hsVars, netVars, ownVars, clientOnly, poolVars, clientVars
  <2> QED
    BY Zenon, <2>1, ReaderGoes DEF ReaderLabels
<1> QED
  BY Zenon, <1>1, <1>2, <1>3, <1>4, <1>5, <1>6, <1>7, <1>8 DEF reader_thread_fn, reader_exit

(* The keepalive thread and the reconnect loop outside connect().            *)
LEMMA Loops ==
  ASSUME Good, ~crashed, UNCHANGED poolVars, keepalive_loop \/ reconnect_loop
  PROVE  Outcome
<1>1. CASE keepalive_loop
  <2>1. /\ k1 = "keepalive_loop" /\ KGoes("-")
        /\ Still
    BY Zenon, <1>1, KeepaliveMoves, LabelsKnown DEF keepalive_loop, Sets, Still, Locked, flags,
      loopVars, hsVars, netVars, ownVars, clientOnly, poolVars, clientVars
  <2> QED
    BY <2>1 DEF KGoes, Outcome, Together, Good, Stacks, MainStack, ReconnectStack, MainLabels,
      ConnectLabels, CloseLabels, LoopLabels, ReaderLabels, AfterDisconnect, Held, OneConnects,
      Apart, Joined, Open, MConnecting, MDisconnecting, MSame, CSame, RSame, KSame, Sets, Still,
      Alone, Unlocking
<1>2. CASE reconnect_loop /\ At("C", "loop")
           /\ reconnect_enabled_ /\ ~Exhausted(reconnect_attempts_ + 1)
  <2>1. /\ c1 = "loop" /\ reconnect_enabled_ /\ CGoes("connect", "reconnected", c2)
        /\ Still
    BY Zenon, <1>2, LoopMoves, LabelsKnown DEF reconnect_loop, Sets, Still, Locked, flags,
      loopVars, hsVars, netVars, ownVars, clientOnly, poolVars, clientVars
  <2> QED
    BY <2>1 DEF CGoes, Outcome, Together, Good, Stacks, MainStack, ReconnectStack, MainLabels,
      ConnectLabels, CloseLabels, LoopLabels, ReaderLabels, AfterDisconnect, Held, OneConnects,
      Apart, Joined, Open, MConnecting, MDisconnecting, MSame, CSame, RSame, KSame, Sets, Still,
      Alone, Unlocking
<1>3. CASE reconnect_loop /\ At("C", "loop")
           /\ ~(reconnect_enabled_ /\ ~Exhausted(reconnect_attempts_ + 1))
  <2>1. /\ c1 = "loop" /\ c1' \in {"exhausted", "done"} /\ CGoes(c1', c2, c3)
        /\ Still
    BY Zenon, <1>3, LoopMoves, LabelsKnown DEF reconnect_loop, CGoes, Sets, Still, Locked, flags,
      loopVars, hsVars, netVars, ownVars, clientOnly, poolVars, clientVars
  <2> QED
    BY <2>1 DEF CGoes, Outcome, Together, Good, Stacks, MainStack, ReconnectStack, MainLabels,
      ConnectLabels, CloseLabels, LoopLabels, ReaderLabels, AfterDisconnect, Held, OneConnects,
      Apart, Joined, Open, MConnecting, MDisconnecting, MSame, CSame, RSame, KSame, Sets, Still,
      Alone, Unlocking
<1>4. CASE reconnect_loop /\ At("C", "exhausted")
  <2>1. /\ c1 = "exhausted" /\ CGoes("done", c2, c3)
        /\ Still
    BY Zenon, <1>4, LoopMoves, LabelsKnown DEF reconnect_loop, Sets, Still, Locked, flags,
      loopVars, hsVars, netVars, ownVars, clientOnly, poolVars, clientVars
  <2> QED
    BY Zenon, <2>1, LoopGoes DEF LoopLabels
<1>5. CASE reconnect_loop /\ At("C", "reconnected")
  <2>1. /\ c1 = "reconnected" /\ CGoes("done", c2, c3)
        /\ Still
    BY Zenon, <1>5, LoopMoves, LabelsKnown DEF reconnect_loop, Sets, Still, Locked, flags,
      loopVars, hsVars, netVars, ownVars, clientOnly, poolVars, clientVars
  <2> QED
    BY Zenon, <2>1, LoopGoes DEF LoopLabels
<1>6. CASE reconnect_loop /\ At("C", "done")
  <2>1. /\ c1 = "done" /\ CGoes(c2, c3, "-")
        /\ Still
    BY Zenon, <1>6, LoopMoves, LabelsKnown DEF reconnect_loop, Sets, Still, Locked, flags,
      loopVars, hsVars, netVars, ownVars, clientOnly, poolVars, clientVars
  <2> QED
    BY <2>1 DEF CGoes, Outcome, Together, Good, Stacks, MainStack, ReconnectStack, MainLabels,
      ConnectLabels, CloseLabels, LoopLabels, ReaderLabels, AfterDisconnect, Held, OneConnects,
      Apart, Joined, Open, MConnecting, MDisconnecting, MSame, CSame, RSame, KSame, Sets, Still,
      Alone, Unlocking
<1> QED
  BY Zenon, <1>1, <1>2, <1>3, <1>4, <1>5, <1>6 DEF reconnect_loop

(* A step that moves no thread of the client and leaves its variables alone. *)
LEMMA Kept ==
  ASSUME Good, Typed', MSame, CSame, RSame, KSame, Still
  PROVE  Outcome
<1>1. Good'
  <2>1. Stacks'
    BY Zenon DEF Good, Stacks, MainStack, ReconnectStack, MSame, CSame, RSame, KSame, Sets, Still
  <2>2. Held' /\ Open'
    BY Zenon DEF Good, Held, Open, MSame, CSame, RSame, KSame, Sets, Still
  <2>3. OneConnects'
    BY Zenon DEF Good, OneConnects, MConnecting, MSame, CSame, RSame, KSame, Sets, Still
  <2>4. Apart' /\ Joined'
    BY Zenon DEF Good, Apart, Joined, MConnecting, MDisconnecting, MSame, CSame, RSame, KSame,
      Sets, Still
  <2>5. Alone'
    BY Zenon DEF Good, Alone, Unlocking, MSame, Sets, Still
  <2> QED
    BY Zenon, <2>1, <2>2, <2>3, <2>4, <2>5 DEF Good
<1>2. ~Together'
  BY Zenon DEF Good, Stacks, Together, MainStack, MainLabels, ConnectLabels, CloseLabels,
    AfterDisconnect, Apart, MDisconnecting, MSame, CSame, Sets, Still
<1> QED
  BY Zenon, <1>1, <1>2 DEF Outcome, Sets, Still

(* Every step, as long as disconnect() has not met a connect() in progress.   *)
LEMMA PoolStep ==
  ASSUME Good, ~raced, ~crashed, Next
  PROVE  Outcome /\ (raced' <=> Together')
<1>0. Typed /\ ~Together
  BY Zenon DEF Good, Stacks, Together, MainStack, MainLabels, ConnectLabels, CloseLabels,
    AfterDisconnect, Apart, MDisconnecting
<1>1. ASSUME signal_handler PROVE Outcome
  <2>1. Typed' /\ MSame /\ CSame /\ RSame /\ KSame
    BY Zenon, <1>0, <1>1, PcKept DEF signal_handler, clientVars
  <2>2. Still
    BY Zenon, <1>1 DEF signal_handler, flags, loopVars, hsVars, netVars, ownVars, clientOnly,
      poolVars, clientVars, Sets, Still, Locked
  <2> QED
    BY Zenon, <2>1, <2>2, Kept
<1>2. ASSUME submit_share PROVE Outcome
  <2>1. Typed' /\ MSame /\ CSame /\ RSame /\ KSame
    BY Zenon, <1>0, <1>2, SharesOnly
  <2>2. Still
    BY Zenon, <1>2 DEF submit_share, flags, loopVars, hsVars, netVars, ownVars, clientOnly,
      poolVars, clientVars, Sets, Still, Locked
  <2> QED
    BY Zenon, <2>1, <2>2, Kept
<1>3. ASSUME Server, UNCHANGED poolVars PROVE Outcome
  <2>1. Typed' /\ MSame /\ CSame /\ RSame /\ KSame
    BY Zenon, <1>0, <1>3, PcKept DEF Server
  <2>2. Still
    BY Zenon, <1>3 DEF Server, flags, loopVars, hsVars, netVars, ownVars, clientOnly, poolVars,
      clientVars, Sets, Still, Locked
  <2> QED
    BY Zenon, <2>1, <2>2, Kept
<1>4. Outcome
  BY Zenon, <1>1, <1>2, <1>3, MainOutcome, MainConnects, LoopConnects, Disconnects, Reads, Loops
    DEF Next, MainStep, ReaderStep, KeepaliveStep, ReconnectStep, WorkerStep, ServerStep
<1>5. Connecting(pc') /\ Disconnecting(pc') <=> Together'
  <2>1. pc' \in [Threads -> Seq(Labels)] /\ Len(pc'["M"]) <= 3
    BY Zenon, <1>4 DEF Outcome, Typed, Client
  <2> QED
    BY Zenon, <2>1, Races DEF Together, c2, m1, m2, m3, Stk
<1>6. CASE Watch
  BY Zenon, <1>4, <1>5, <1>6 DEF Watch
<1>7. CASE signal_handler
  <2>1. Together' <=> Together
    BY Zenon, <1>7 DEF signal_handler, clientVars, Together, c2, m1, m2, m3, Stk
  <2>2. raced' = raced
    BY Zenon, <1>7 DEF signal_handler, clientVars
  <2> QED
    BY Zenon, <1>0, <1>4, <2>1, <2>2
<1> QED
  BY Zenon, <1>6, <1>7 DEF Next, MainStep, ReaderStep, KeepaliveStep, ReconnectStep, WorkerStep,
    ServerStep

(* No thread of a client runs before the first connect().                    *)
LEMMA PoolInit == Init => PoolInv
<1> SUFFICES ASSUME Init PROVE Good /\ ~crashed
  BY Zenon DEF PoolInv
<1>1. /\ <<"start">> \in Seq(Labels) /\ <<>> \in Seq(Labels)
      /\ [i \in 1 .. MaxShares |-> "share"] \in Seq(Labels)
  BY StackEmpty, LabelsKnown, BoundsAssumption
<1>2. /\ pc \in [Threads -> Seq(Labels)] /\ pc["M"] = <<"start">>
      /\ pc["C"] = <<>> /\ pc["R"] = <<>> /\ pc["K"] = <<>>
  BY Zenon, <1>1 DEF Init, Threads
<1>3. Typed
  <2>1. Len(<<"start">>) <= 3 /\ Len(<<>>) <= 3
    OBVIOUS
  <2> QED
    BY Zenon, <1>2, <2>1 DEF Typed, Client
<1>4. /\ m1 = "start" /\ m2 = "-" /\ m3 = "-" /\ c1 = "-" /\ c2 = "-" /\ c3 = "-"
      /\ r1 = "-" /\ r2 = "-" /\ k1 = "-" /\ k2 = "-"
  <2>1. Slot(<<>>, 1) = "-" /\ Slot(<<>>, 2) = "-" /\ Slot(<<>>, 3) = "-"
    BY Zenon, StackEmpty
  <2>2. Slot(<<"start">>, 1) = "start" /\ Slot(<<"start">>, 2) = "-" /\ Slot(<<"start">>, 3) = "-"
    BY Zenon, StackOne, LabelsKnown
  <2> QED
    BY Zenon, <1>2, <2>1, <2>2 DEF m1, m2, m3, c1, c2, c3, r1, r2, k1, k2, Stk
<1>5. joinable_ = {} /\ ~crashed /\ ~Locked
  BY Zenon DEF Init, Fresh, Locked
<1> QED
  BY Zenon, <1>3, <1>4, <1>5 DEF Outcome, Together, Good, Stacks, MainStack, ReconnectStack,
    MainLabels, ConnectLabels, CloseLabels, LoopLabels, ReaderLabels, AfterDisconnect, Held,
    OneConnects, Apart, Joined, Open, Alone, Locked, Unlocking, MConnecting, MDisconnecting,
    MSame, CSame, RSame, KSame

(* Until disconnect() meets a connect() of the reconnect thread, PoolInv holds:
   every thread is held by its handle, at most one thread connects, what each
   place of the code relies on having been joined has been joined, and the
   descriptor is open while there is a reader.                               *)
THEOREM PoolInvariant == Spec => []PoolInv
<1>1. PoolInv /\ [Next]_vars => PoolInv'
  <2> SUFFICES ASSUME PoolInv, [Next]_vars PROVE PoolInv'
    BY Zenon
  <2>1. CASE UNCHANGED vars
    BY ZenonT(60), <2>1 DEF vars, clientVars, poolVars, flags, netVars, ownVars, PoolInv, Good,
      Stacks, Typed, MainStack, ReconnectStack, Held, OneConnects, Apart, Joined, Open, Alone,
      Locked,
      Unlocking, MConnecting, MDisconnecting, m1, m2, m3, c1, c2, c3, r1, r2, k1, k2, Stk
  <2>2. CASE Next /\ raced
    <3>1. raced'
      BY Zenon, <2>2 DEF Next, MainStep, ReaderStep, KeepaliveStep, ReconnectStep, WorkerStep,
        ServerStep, Watch, signal_handler, clientVars
    <3> QED
      BY Zenon, <3>1 DEF PoolInv
  <2>3. CASE Next /\ ~raced
    BY Zenon, <2>3, PoolStep DEF PoolInv, Outcome
  <2> QED
    BY Zenon, <2>1, <2>2, <2>3
<1> QED
  BY <1>1, PoolInit, PTL DEF Spec

(* ~StratumClient() never destroys a joinable std::thread, whatever the pools,
   the faults and the order of the threads, unless disconnect() met a connect()
   of the reconnect thread.                                                  *)
THEOREM ClientDestroyedClean == Spec => []DestroyedClean
<1>1. PoolInv => DestroyedClean
  BY Zenon DEF PoolInv, DestroyedClean
<1> QED
  BY <1>1, PoolInvariant, PTL

(* The reader is never inside recv() on a descriptor that close_connection() has
   closed, under the same condition.                                         *)
THEOREM ReaderDescriptorOpen == Spec => []FdOutlivesUsers
<1>1. PoolInv => FdOutlivesUsers
  <2> SUFFICES ASSUME Good, At("R", "recv") PROVE sockfd_
    BY Zenon DEF PoolInv, FdOutlivesUsers, At
  <2>1. r1 = "recv"
    BY Zenon, ReaderMoves, LabelsKnown
  <2> QED
    BY Zenon, <2>1 DEF Good, Open
<1> QED
  BY <1>1, PoolInvariant, PTL

(* While stratum_mutex_ is held for reset(), the client has no reader left.  *)
LEMMA LockedAlone ==
  PoolInv => raced \/ NoSelfDeadlock
<1> SUFFICES ASSUME Good, Locked, m1 = "close_R" PROVE r1 # "callback"
  <2>1. Good => (At("M", "close_R") <=> m1 = "close_R") /\ (At("R", "callback") <=> r1 = "callback")
    BY Zenon, MainMoves, ReaderMoves, LabelsKnown
  <2> QED
    BY Zenon, <2>1 DEF PoolInv, NoSelfDeadlock, Locked
<1>1. joinable_ = {}
  BY Zenon DEF Good, Alone
<1> QED
  BY Zenon, <1>1 DEF Good, Held

(* The destructor that PoolManager::disconnect() runs under stratum_mutex_ waits
   for a reader that needs this mutex only if disconnect() met a connect() of
   the reconnect thread: that meeting is the sole cause of the deadlock that
   NoSelfDeadlock describes.                                                 *)
THEOREM LockedJoinNeedsRace == Spec => [](raced \/ NoSelfDeadlock)
BY PoolInvariant, LockedAlone, PTL

(* raced is set by the step in which disconnect() begins.                     *)
RaceBegins == raced' /\ ~raced => At("M", "disconnect") /\ Connecting(pc)

(* The meeting that the other results except begins in one way only: the main
   thread enters disconnect() while the reconnect thread is already inside
   connect().  A connect() never begins during a disconnect().               *)
THEOREM RaceBeginsWithDisconnect == Spec => [][RaceBegins]_vars
<1>1. PoolInv /\ [Next]_vars => [RaceBegins]_vars
  <2> SUFFICES ASSUME PoolInv, Next, raced', ~raced PROVE At("M", "disconnect") /\ Connecting(pc)
    BY Zenon DEF RaceBegins
  <2>1. Good /\ ~crashed
    BY Zenon DEF PoolInv
  <2>2. m1 = "disconnect" /\ c2 # "-" /\ Typed
    BY Zenon, <2>1, PoolStep DEF Outcome, Good, Stacks
  <2>3. pc \in [Threads -> Seq(Labels)] /\ Len(pc["M"]) <= 3
    BY Zenon, <2>2 DEF Typed, Client
  <2> QED
    BY Zenon, <2>1, <2>2, <2>3, MainMoves, Races, LabelsKnown DEF c2, Stk
<1> QED
  BY <1>1, PoolInvariant, PTL DEF Spec
=============================================================================
