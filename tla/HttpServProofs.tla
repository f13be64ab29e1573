--------------------------- MODULE HttpServProofs ---------------------------
(***************************************************************************)
(* Proofs about HttpServ, for any threads, clients and descriptors.        *)
(***************************************************************************)
EXTENDS HttpServ, FiniteSetTheorems, TLAPS

\* Wherever the code uses the descriptor in hand there is one.
HandInv ==
    \A t \in Threads : pc[t] \in {"add", "request", "reply", "finish"} => fd[t] \in Fds

TypeInv == TypeOK /\ HandInv

LEMMA InitType == Init => TypeInv
  <1> SUFFICES ASSUME Init PROVE TypeInv
    OBVIOUS
  <1> USE DEF Init
  <1>1. backlog \in Seq(Clients)
    BY DEF Init
  <1>2. TypeOK
    BY <1>1 DEF TypeOK, Points, Amounts
  <1>3. HandInv
    BY DEF HandInv
  <1> QED  BY <1>2, <1>3 DEF TypeInv

\* A thread that moves on with nothing else changed.
LEMMA Moves ==
  ASSUME TypeInv, NEW t \in Threads, NEW from, NEW to \in Points, Goto(t, from, to),
         UNCHANGED <<alive, backlog, conn, clientVars, epollVars, batch, fd, merged>>,
         to \in {"add", "request", "reply", "finish"} => fd[t] \in Fds
  PROVE  TypeInv'
  BY DEF TypeInv, TypeOK, HandInv, Goto, clientVars, epollVars

\* One more reply, to whomever it is sent.
LEMMA OneMore ==
  ASSUME NEW r \in [Clients -> Nat], NEW v
  PROVE  [r EXCEPT ![v] = @ + 1] \in [Clients -> Nat]
  <1>1. CASE v \in Clients
    BY <1>1
  <1>2. CASE v \notin Clients
    <2>1. \A c \in Clients : [r EXCEPT ![v] = @ + 1][c] = r[c]
      BY <1>2
    <2> QED  BY <2>1
  <1> QED  BY <1>1, <1>2

LEMMA StepType == TypeInv /\ [Next]_vars => TypeInv'
  <1> SUFFICES ASSUME TypeInv, [Next]_vars PROVE TypeInv'
    OBVIOUS
  <1> USE DEF clientVars, epollVars
  <1>t. TypeOK /\ HandInv
    BY DEF TypeInv
  <1>0. ASSUME Die PROVE TypeInv'
    BY <1>0, <1>t DEF Die, TypeInv, TypeOK, HandInv
  <1>1. ASSUME NEW t \in Threads, Start(t) PROVE TypeInv'
    BY <1>1, <1>t DEF Start, Goto, TypeInv, TypeOK, HandInv, Points
  <1>2. ASSUME NEW t \in Threads, Wait(t) PROVE TypeInv'
    BY <1>2, <1>t DEF Wait, Goto, TypeInv, TypeOK, HandInv, Points
  <1>3. ASSUME NEW t \in Threads, Take(t) PROVE TypeInv'
    <2>1. ASSUME NEW x \in batch[t],
                 Goto(t, "next", IF x = Serv THEN "accept" ELSE "request"),
                 fd' = [fd EXCEPT ![t] = IF x = Serv THEN Nothing ELSE x],
                 batch' = [batch EXCEPT ![t] = @ \ {x}],
                 UNCHANGED <<alive, backlog, conn, clientVars, epollVars, merged>>
          PROVE  TypeInv'
      <3>1. x = Serv \/ x \in Fds
        BY <1>t DEF TypeOK
      <3> QED  BY <2>1, <3>1, <1>t DEF Goto, TypeInv, TypeOK, HandInv, Points
    <2>2. CASE Goto(t, "next", "wait") /\ UNCHANGED <<alive, backlog, conn, clientVars, epollVars, batch, fd, merged>>
      BY <2>2, <1>t, Moves DEF TypeInv, Points
    <2> QED  BY <1>3, <2>1, <2>2 DEF Take
  <1>4. ASSUME NEW t \in Threads, Accept(t) PROVE TypeInv'
    <2>1. Head(backlog) \in Clients /\ backlog' \in Seq(Clients)
      BY <1>4, <1>t DEF Accept, TypeOK
    <2> QED  BY <1>4, <2>1, <1>t DEF Accept, Goto, TypeInv, TypeOK, HandInv, Points
  <1>5. ASSUME NEW t \in Threads, AcceptFails(t) PROVE TypeInv'
    BY <1>5, <1>0 DEF AcceptFails
  <1>6. ASSUME NEW t \in Threads, Add(t) PROVE TypeInv'
    <2>1. fd[t] \in Fds
      BY <1>6, <1>t DEF Add, Goto, HandInv
    <2> QED  BY <1>6, <2>1, <1>t DEF Add, Goto, TypeInv, TypeOK, HandInv, Points
  <1>7. ASSUME NEW t \in Threads, Request(t) PROVE TypeInv'
    <2>1. PICK to \in {"reply", "finish", "spin"} : Goto(t, "request", to)
      BY <1>7 DEF Request
    <2>2. fd[t] \in Fds /\ to \in Points
      BY <2>1, <1>t DEF Goto, HandInv, Points
    <2> QED  BY <1>7, <2>1, <2>2, Moves DEF Request
  <1>8. ASSUME NEW t \in Threads, Reply(t) PROVE TypeInv'
    <2>1. CASE Goto(t, "reply", "finish") /\ replies' = [replies EXCEPT ![conn[fd[t]]] = @ + 1]
               /\ UNCHANGED <<alive, backlog, conn, sent, closed, epollVars, batch, fd, merged>>
      <3>1. replies' \in [Clients -> Nat]
        BY <2>1, <1>t, OneMore DEF TypeOK
      <3> QED  BY <2>1, <3>1, <1>t DEF Goto, TypeInv, TypeOK, HandInv, Points
    <2> QED  BY <1>8, <2>1, <1>0 DEF Reply
  <1>9. ASSUME NEW t \in Threads, Finish(t) PROVE TypeInv'
    <2>1. conn' \in [Fds -> Clients \cup {Nothing}]
      BY <1>9, <1>t DEF Finish, TypeOK
    <2> QED  BY <1>9, <2>1, <1>t DEF Finish, Goto, TypeInv, TypeOK, HandInv, Points
  <1>10. ASSUME NEW c \in Clients, Connect(c) PROVE TypeInv'
    <2>1. backlog' \in Seq(Clients)
      BY <1>10, <1>t DEF Connect, TypeOK
    <2> QED  BY <1>10, <2>1, <1>t DEF Connect, TypeInv, TypeOK, HandInv, Amounts
  <1>11. ASSUME NEW c \in Clients, SendMore(c) PROVE TypeInv'
    <2>1. PICK a \in Following(sent[c]) : sent' = [sent EXCEPT ![c] = a]
      BY <1>11 DEF SendMore
    <2>2. a \in Amounts
      BY <2>1 DEF Following, Amounts
    <2> QED  BY <1>11, <2>1, <2>2, <1>t DEF SendMore, Notify, TypeInv, TypeOK, HandInv
  <1>12. ASSUME NEW c \in Clients, Close(c) PROVE TypeInv'
    BY <1>12, <1>t DEF Close, Notify, TypeInv, TypeOK, HandInv
  <1>13. CASE UNCHANGED vars
    BY <1>13, <1>t DEF vars, TypeInv, TypeOK, HandInv
  <1> QED
    BY <1>1, <1>2, <1>3, <1>4, <1>5, <1>6, <1>7, <1>8, <1>9, <1>10, <1>11, <1>12, <1>13
       DEF Next, Thread, Client

\* The server stays well typed for any number of threads, clients and
\* descriptors: events and descriptors in hand are always ones that exist.
THEOREM TypeCorrect == Spec => []TypeOK
  <1>1. TypeInv => TypeOK
    BY DEF TypeInv
  <1> QED  BY InitType, StepType, <1>1, PTL DEF Spec

----------------------------------------------------------------------------
(* Descriptors: who holds one. *)

\* Where a thread works on a connection it has taken from its events.
Serving == {"request", "reply", "spin", "finish"}

\* A descriptor is open exactly while some thread holds it, no two threads
\* hold the same one, and events refer to what their thread holds; the
\* connection being served is no longer among the events.
HeldInv ==
    /\ \A f \in Fds : conn[f] # Nothing <=> \E t \in Threads : Holds(t, f)
    /\ \A f \in Fds : \A t, u \in Threads : Holds(t, f) /\ Holds(u, f) => t = u
    /\ \A t \in Threads : pc[t] \in Serving => fd[t] \in interest[t] /\ fd[t] \notin batch[t]
    /\ \A t \in Threads : batch[t] \cup ready[t] \subseteq interest[t] \cup {Serv}

\* A thread between connections has none in hand, and it calls epoll_wait
\* with all earlier events looked at.
IdleInv ==
    \A t \in Threads :
        /\ pc[t] \in {"start", "wait", "next", "accept"} => fd[t] = Nothing
        /\ pc[t] \in {"start", "wait"} => batch[t] = {}
        /\ pc[t] = "start" => interest[t] = {} /\ ready[t] = {}

\* A client is in one place: not yet connected, in the backlog, behind one
\* descriptor, or gone; it has been answered only where its thread is about
\* to close the descriptor, or when it is gone.
InBacklogOnce    == \A i, j \in 1 .. Len(backlog) : backlog[i] = backlog[j] => i = j
OneDescriptor    == \A f, g \in Fds : conn[f] = conn[g] /\ conn[f] # Nothing => f = g
NotInBoth        == \A i \in 1 .. Len(backlog), f \in Fds : backlog[i] # conn[f]
OffIsOutside     == \A c \in Clients : sent[c] = "off" => ~InService(c) /\ replies[c] = 0
WaitingIsFresh   == \A i \in 1 .. Len(backlog) : replies[backlog[i]] = 0
AnsweredIsClosed == \A f \in Fds : conn[f] # Nothing /\ replies[conn[f]] # 0
                                    => \E t \in Threads : pc[t] = "finish" /\ fd[t] = f
ReplyIsToWhole   == \A t \in Threads : pc[t] = "reply" => BlankLine(conn[fd[t]])

ClientInv ==
    /\ InBacklogOnce /\ OneDescriptor /\ NotInBoth /\ OffIsOutside
    /\ WaitingIsFresh /\ AnsweredIsClosed /\ ReplyIsToWhole

LEMMA GotoPc ==
  ASSUME TypeInv, NEW t \in Threads, NEW from, NEW to, Goto(t, from, to)
  PROVE  /\ alive /\ pc[t] = from /\ pc'[t] = to
         /\ \A u \in Threads : u # t => pc'[u] = pc[u]
  BY DEF Goto, TypeInv, TypeOK

LEMMA InitServing == Init => HeldInv /\ IdleInv
  BY DEF Init, HeldInv, IdleInv, Holds, Serving

LEMMA StepIdle == TypeInv /\ IdleInv /\ [Next]_vars => IdleInv'
  <1> SUFFICES ASSUME TypeInv, IdleInv, [Next]_vars PROVE IdleInv'
    OBVIOUS
  <1> USE DEF clientVars, epollVars
  <1>t. TypeOK
    BY DEF TypeInv
  <1>0. ASSUME Die PROVE IdleInv'
    BY <1>0 DEF Die, IdleInv
  <1>1. ASSUME NEW t \in Threads, Start(t) PROVE IdleInv'
    BY <1>1, <1>t DEF Start, Goto, TypeOK, IdleInv
  <1>2. ASSUME NEW t \in Threads, Wait(t) PROVE IdleInv'
    BY <1>2, <1>t DEF Wait, Goto, TypeOK, IdleInv
  <1>3. ASSUME NEW t \in Threads, Take(t) PROVE IdleInv'
    BY <1>3, <1>t DEF Take, Goto, TypeOK, IdleInv
  <1>4. ASSUME NEW t \in Threads, Accept(t) PROVE IdleInv'
    BY <1>4, <1>t DEF Accept, Goto, TypeOK, IdleInv
  <1>5. ASSUME NEW t \in Threads, AcceptFails(t) PROVE IdleInv'
    BY <1>5, <1>0 DEF AcceptFails
  <1>6. ASSUME NEW t \in Threads, Add(t) PROVE IdleInv'
    BY <1>6, <1>t DEF Add, Goto, TypeOK, IdleInv
  <1>7. ASSUME NEW t \in Threads, Request(t) PROVE IdleInv'
    BY <1>7, <1>t DEF Request, Goto, TypeOK, IdleInv
  <1>8. ASSUME NEW t \in Threads, Reply(t) PROVE IdleInv'
    BY <1>8, <1>0, <1>t DEF Reply, Goto, TypeOK, IdleInv
  <1>9. ASSUME NEW t \in Threads, Finish(t) PROVE IdleInv'
    BY <1>9, <1>t DEF Finish, Goto, TypeOK, IdleInv
  <1>10. ASSUME NEW c \in Clients, Connect(c) PROVE IdleInv'
    BY <1>10, <1>t DEF Connect, Started, TypeOK, IdleInv
  <1>11. ASSUME NEW c \in Clients, SendMore(c) \/ Close(c) PROVE IdleInv'
    BY <1>11, <1>t DEF SendMore, Close, Notify, TypeOK, IdleInv
  <1>12. CASE UNCHANGED vars
    BY <1>12 DEF vars, IdleInv
  <1> QED
    BY <1>1, <1>2, <1>3, <1>4, <1>5, <1>6, <1>7, <1>8, <1>9, <1>10, <1>11, <1>12
       DEF Next, Thread, Client

\* A thread that moves on holding what it held keeps the books right, when
\* its events still refer to what it holds.
LEMMA HoldsSame ==
  ASSUME HeldInv, conn' = conn,
         \A t \in Threads, f \in Fds : Holds(t, f)' <=> Holds(t, f),
         \A t \in Threads : pc'[t] \in Serving => fd'[t] \in interest'[t] /\ fd'[t] \notin batch'[t],
         \A t \in Threads : batch'[t] \cup ready'[t] \subseteq interest'[t] \cup {Serv}
  PROVE  HeldInv'
  BY DEF HeldInv

LEMMA StepHeld == TypeInv /\ IdleInv /\ HeldInv /\ [Next]_vars => HeldInv'
  <1> SUFFICES ASSUME TypeInv, IdleInv, HeldInv, [Next]_vars PROVE HeldInv'
    OBVIOUS
  <1> USE DEF clientVars, epollVars
  <1>t. TypeOK
    BY DEF TypeInv
  <1>0. ASSUME Die PROVE HeldInv'
    BY <1>0 DEF Die, HeldInv, Holds
  <1>1. ASSUME NEW t \in Threads, Start(t) PROVE HeldInv'
    <2>1. \A u \in Threads, f \in Fds : Holds(u, f)' <=> Holds(u, f)
      BY <1>1, <1>t DEF Start, Goto, TypeOK, Holds
    <2> QED  BY <1>1, <2>1, <1>t, HoldsSame DEF Start, Goto, TypeOK, HeldInv, Serving
  <1>2. ASSUME NEW t \in Threads, Wait(t) PROVE HeldInv'
    <2>1. \A u \in Threads, f \in Fds : Holds(u, f)' <=> Holds(u, f)
      BY <1>2, <1>t DEF Wait, Goto, TypeOK, Holds
    <2>2. \A u \in Threads : batch'[u] \cup ready'[u] \subseteq interest'[u] \cup {Serv}
      BY <1>2, <1>t DEF Wait, TypeOK, HeldInv
    <2> QED  BY <1>2, <2>1, <2>2, <1>t, HoldsSame DEF Wait, Goto, TypeOK, HeldInv, Serving
  <1>3. ASSUME NEW t \in Threads, Take(t) PROVE HeldInv'
    <2>1. \A u \in Threads, f \in Fds : Holds(u, f)' <=> Holds(u, f)
      BY <1>3, <1>t DEF Take, Goto, TypeOK, Holds
    <2>2. \A u \in Threads : batch'[u] \cup ready'[u] \subseteq interest'[u] \cup {Serv}
      BY <1>3, <1>t DEF Take, TypeOK, HeldInv
    <2>3. \A u \in Threads : pc'[u] \in Serving => fd'[u] \in interest'[u] /\ fd'[u] \notin batch'[u]
      <3>1. ASSUME NEW x \in batch[t],
                   Goto(t, "next", IF x = Serv THEN "accept" ELSE "request"),
                   fd' = [fd EXCEPT ![t] = IF x = Serv THEN Nothing ELSE x],
                   batch' = [batch EXCEPT ![t] = @ \ {x}], interest' = interest
            PROVE  \A u \in Threads : pc'[u] \in Serving => fd'[u] \in interest'[u] /\ fd'[u] \notin batch'[u]
        <4>1. x # Serv => x \in interest[t]
          BY DEF HeldInv
        <4>2. pc'[t] \in Serving => x # Serv
          BY <3>1, <1>t DEF Goto, TypeOK, Serving
        <4>3. fd'[t] = IF x = Serv THEN Nothing ELSE x
          BY <3>1, <1>t DEF TypeOK
        <4>4. x \notin batch'[t]
          BY <3>1, <1>t DEF TypeOK
        <4>5. \A u \in Threads : u # t => pc'[u] = pc[u] /\ fd'[u] = fd[u] /\ batch'[u] = batch[u]
          BY <3>1, <1>t DEF Goto, TypeOK
        <4> QED  BY <3>1, <4>1, <4>2, <4>3, <4>4, <4>5 DEF HeldInv
      <3>2. CASE Goto(t, "next", "wait") /\ UNCHANGED <<interest, batch, fd>>
        BY <3>2, <1>t DEF Goto, TypeOK, HeldInv, Serving
      <3> QED  BY <1>3, <3>1, <3>2 DEF Take
    <2> QED  BY <1>3, <2>1, <2>2, <2>3, HoldsSame DEF Take
  <1>4. ASSUME NEW t \in Threads, Accept(t) PROVE HeldInv'
    <2>1. PICK f \in Fds : /\ conn[f] = Nothing
                           /\ conn' = [conn EXCEPT ![f] = Head(backlog)]
                           /\ fd' = [fd EXCEPT ![t] = f]
      BY <1>4 DEF Accept
    <2>2. Head(backlog) \in Clients /\ Head(backlog) # Nothing
      BY <1>4, <1>t, NamesDistinct DEF Accept, TypeOK
    <2>3. \A u \in Threads : ~Holds(u, f)
      BY <2>1 DEF HeldInv
    <2>4. \A u \in Threads, g \in Fds : Holds(u, g)' <=> Holds(u, g) \/ (u = t /\ g = f)
      BY <1>4, <2>1, <1>t DEF Accept, Goto, TypeOK, Holds
    <2>5. \A g \in Fds : conn'[g] # Nothing <=> conn[g] # Nothing \/ g = f
      BY <2>1, <2>2, <1>t DEF TypeOK
    <2>6. \A u \in Threads : pc'[u] \in Serving => u # t /\ pc[u] \in Serving
      BY <1>4, <1>t DEF Accept, Goto, TypeOK, Serving
    <2>7. \A u \in Threads : pc'[u] \in Serving => fd'[u] \in interest'[u] /\ fd'[u] \notin batch'[u]
      BY <1>4, <2>1, <2>6, <1>t DEF Accept, HeldInv, TypeOK
    <2>8. \A g \in Fds : conn'[g] # Nothing <=> \E u \in Threads : Holds(u, g)'
      BY <2>4, <2>5 DEF HeldInv
    <2>9. \A g \in Fds : \A u, v \in Threads : Holds(u, g)' /\ Holds(v, g)' => u = v
      BY <2>3, <2>4 DEF HeldInv
    <2> QED  BY <1>4, <2>7, <2>8, <2>9 DEF Accept, HeldInv
  <1>5. ASSUME NEW t \in Threads, AcceptFails(t) PROVE HeldInv'
    BY <1>5, <1>0 DEF AcceptFails
  <1>6. ASSUME NEW t \in Threads, Add(t) PROVE HeldInv'
    <2>1. \A u \in Threads, f \in Fds : Holds(u, f)' <=> Holds(u, f)
      BY <1>6, <1>t DEF Add, Goto, TypeOK, Holds
    <2>2. \A u \in Threads : batch'[u] \cup ready'[u] \subseteq interest'[u] \cup {Serv}
      BY <1>6, <1>t DEF Add, TypeOK, HeldInv
    <2>3. \A u \in Threads : pc'[u] \in Serving => fd'[u] \in interest'[u] /\ fd'[u] \notin batch'[u]
      BY <1>6, <1>t DEF Add, Goto, TypeOK, HeldInv, Serving
    <2> QED  BY <1>6, <2>1, <2>2, <2>3, HoldsSame DEF Add
  <1>7. ASSUME NEW t \in Threads, Request(t) PROVE HeldInv'
    <2>1. \A u \in Threads, f \in Fds : Holds(u, f)' <=> Holds(u, f)
      BY <1>7, <1>t DEF Request, Goto, TypeOK, Holds
    <2>2. \A u \in Threads : pc'[u] \in Serving => pc[u] \in Serving
      BY <1>7, <1>t DEF Request, Goto, TypeOK, Serving
    <2> QED  BY <1>7, <2>1, <2>2, HoldsSame DEF Request, HeldInv
  <1>8. ASSUME NEW t \in Threads, Reply(t) PROVE HeldInv'
    <2>1. CASE Goto(t, "reply", "finish") /\ UNCHANGED <<conn, epollVars, batch, fd>>
      <3>1. \A u \in Threads, f \in Fds : Holds(u, f)' <=> Holds(u, f)
        BY <2>1, <1>t DEF Goto, TypeOK, Holds
      <3>2. \A u \in Threads : pc'[u] \in Serving => pc[u] \in Serving
        BY <2>1, <1>t DEF Goto, TypeOK, Serving
      <3> QED  BY <2>1, <3>1, <3>2, HoldsSame DEF HeldInv
    <2> QED  BY <1>8, <2>1, <1>0 DEF Reply
  <1>9. ASSUME NEW t \in Threads, Finish(t) PROVE HeldInv'
    <2>1. fd[t] \in Fds /\ fd[t] \in interest[t] /\ fd[t] \notin batch[t] /\ Holds(t, fd[t])
      BY <1>9, <1>t DEF Finish, Goto, TypeInv, HandInv, HeldInv, Serving, Holds
    <2>2. \A u \in Threads : Holds(u, fd[t]) => u = t
      BY <2>1 DEF HeldInv
    <2>3. \A u \in Threads, g \in Fds : Holds(u, g)' <=> Holds(u, g) /\ g # fd[t]
      <3>1. \A u \in Threads, g \in Fds : Holds(u, g)' <=> Holds(u, g) /\ (u = t => g # fd[t])
        BY <1>9, <1>t DEF Finish, Goto, TypeOK, Holds
      <3> QED  BY <3>1, <2>1, <2>2
    <2>4. \A g \in Fds : conn'[g] # Nothing <=> conn[g] # Nothing /\ g # fd[t]
      BY <1>9, <2>1, <1>t DEF Finish, TypeOK
    <2>5. \A u \in Threads : pc'[u] \in Serving => u # t /\ pc[u] \in Serving
      BY <1>9, <1>t DEF Finish, Goto, TypeOK, Serving
    <2>6. \A u \in Threads : pc'[u] \in Serving => fd'[u] \in interest'[u] /\ fd'[u] \notin batch'[u]
      BY <1>9, <2>5, <1>t DEF Finish, HeldInv, TypeOK
    <2>7. \A u \in Threads : batch'[u] \cup ready'[u] \subseteq interest'[u] \cup {Serv}
      BY <1>9, <2>1, <1>t DEF Finish, TypeOK, HeldInv
    <2>8. \A g \in Fds : conn'[g] # Nothing <=> \E u \in Threads : Holds(u, g)'
      BY <2>3, <2>4 DEF HeldInv
    <2>9. \A g \in Fds : \A u, v \in Threads : Holds(u, g)' /\ Holds(v, g)' => u = v
      BY <2>3 DEF HeldInv
    <2> QED  BY <2>6, <2>7, <2>8, <2>9 DEF HeldInv
  <1>10. ASSUME NEW c \in Clients, Connect(c) PROVE HeldInv'
    <2>1. \A u \in Threads : ready'[u] \subseteq ready[u] \cup {Serv}
      BY <1>10, <1>t DEF Connect, TypeOK
    <2> QED  BY <1>10, <2>1 DEF Connect, HeldInv, Holds
  <1>11. ASSUME NEW c \in Clients, SendMore(c) \/ Close(c) PROVE HeldInv'
    <2>1. \A u \in Threads : ready'[u] \subseteq ready[u] \cup interest[u]
      BY <1>11, <1>t DEF SendMore, Close, Notify, TypeOK
    <2> QED  BY <1>11, <2>1 DEF SendMore, Close, HeldInv, Holds
  <1>12. CASE UNCHANGED vars
    BY <1>12 DEF vars, HeldInv, Holds
  <1> QED
    BY <1>1, <1>2, <1>3, <1>4, <1>5, <1>6, <1>7, <1>8, <1>9, <1>10, <1>11, <1>12
       DEF Next, Thread, Client

LEMMA FdsAccountedFromHeld == HeldInv => FdsAccounted
  <1> SUFFICES ASSUME HeldInv PROVE FdsAccounted
    OBVIOUS
  <1>1. ASSUME NEW f \in Fds
        PROVE  Cardinality({t \in Threads : Holds(t, f)}) = IF conn[f] = Nothing THEN 0 ELSE 1
    <2>1. CASE conn[f] = Nothing
      <3>1. {t \in Threads : Holds(t, f)} = {}
        BY <2>1 DEF HeldInv
      <3> QED  BY <2>1, <3>1, FS_EmptySet
    <2>2. CASE conn[f] # Nothing
      <3>1. PICK u \in Threads : Holds(u, f)
        BY <2>2 DEF HeldInv
      <3>2. {t \in Threads : Holds(t, f)} = {u}
        BY <3>1 DEF HeldInv
      <3> QED  BY <2>2, <3>2, FS_Singleton
    <2> QED  BY <2>1, <2>2
  <1> QED  BY <1>1 DEF FdsAccounted, HeldInv

ServInv == TypeInv /\ IdleInv /\ HeldInv

LEMMA StepServ == ServInv /\ [Next]_vars => ServInv'
  BY StepType, StepIdle, StepHeld DEF ServInv

LEMMA InvServ == Spec => []ServInv
  <1>1. Init => ServInv
    BY InitType, InitServing DEF ServInv
  <1> QED  BY <1>1, StepServ, PTL DEF Spec

\* Descriptors neither leak nor are shared between threads, and no event
\* refers to one that has been closed, for any number of threads, clients
\* and descriptors and any number of times a descriptor is used again.
THEOREM FdsNeverShared == Spec => []FdsAccounted
  <1>1. ServInv => FdsAccounted
    BY FdsAccountedFromHeld DEF ServInv
  <1> QED  BY InvServ, <1>1, PTL

----------------------------------------------------------------------------
(* Clients: who is answered. *)

LEMMA InitClient == Init => ClientInv /\ AnswersWholeRequests
  <1> SUFFICES ASSUME Init PROVE ClientInv /\ AnswersWholeRequests
    OBVIOUS
  <1>1. Len(backlog) = 0 /\ \A f \in Fds : conn[f] = Nothing
    BY DEF Init
  <1>2. \A c \in Clients : replies[c] = 0 /\ c # Nothing
    BY NamesDistinct DEF Init
  <1>3. \A t \in Threads : pc[t] # "reply"
    BY DEF Init
  <1>4. InBacklogOnce /\ NotInBoth /\ WaitingIsFresh
    BY <1>1 DEF InBacklogOnce, NotInBoth, WaitingIsFresh
  <1>5. OneDescriptor /\ AnsweredIsClosed /\ ReplyIsToWhole
    BY <1>1, <1>3 DEF OneDescriptor, AnsweredIsClosed, ReplyIsToWhole
  <1>6. OffIsOutside
    BY <1>1, <1>2 DEF OffIsOutside, InService
  <1> QED  BY <1>2, <1>4, <1>5, <1>6 DEF ClientInv, AnswersWholeRequests

\* A step that moves no client and lets no thread past an answer, unless a
\* blank line is found.
LEMMA ClientSame ==
  ASSUME ClientInv, UNCHANGED <<backlog, conn, sent, replies>>, closed \subseteq closed',
         \A t \in Threads : pc[t] = "finish" => pc'[t] = "finish" /\ fd'[t] = fd[t],
         \A t \in Threads : pc'[t] = "reply" => \/ pc[t] = "reply" /\ fd'[t] = fd[t]
                                                \/ BlankLine(conn[fd'[t]])
  PROVE  ClientInv'
  BY DEF BlankLine, ClientInv, InBacklogOnce, OneDescriptor, NotInBoth, OffIsOutside, WaitingIsFresh,
         AnsweredIsClosed, ReplyIsToWhole, InService

\* A thread in the middle of a connection is its only holder, and the
\* connection is open.
LEMMA ServingHolds ==
  ASSUME ServInv, NEW t \in Threads, pc[t] \in Serving
  PROVE  /\ fd[t] \in Fds /\ conn[fd[t]] \in Clients
         /\ \A u \in Threads : pc[u] \in Serving /\ fd[u] = fd[t] => u = t
  <1>1. fd[t] \in interest[t] /\ fd[t] \in Fds
    BY DEF ServInv, HeldInv, TypeInv, TypeOK
  <1>2. Holds(t, fd[t])
    BY <1>1 DEF Holds
  <1>3. conn[fd[t]] # Nothing /\ conn[fd[t]] \in Clients \cup {Nothing}
    BY <1>1, <1>2 DEF ServInv, HeldInv, TypeInv, TypeOK
  <1>4. ASSUME NEW u \in Threads, pc[u] \in Serving, fd[u] = fd[t] PROVE u = t
    <2>1. Holds(u, fd[t])
      BY <1>4 DEF ServInv, HeldInv, Holds
    <2> QED  BY <1>1, <1>2, <2>1 DEF ServInv, HeldInv
  <1> QED  BY <1>1, <1>3, <1>4

LEMMA AcceptClient ==
  ASSUME ServInv, ClientInv, NEW t \in Threads, Accept(t)
  PROVE  ClientInv'
  <1>t. TypeOK
    BY DEF ServInv, TypeInv
  <1> DEFINE h == Head(backlog)
  <1>1. PICK f \in Fds : conn[f] = Nothing /\ conn' = [conn EXCEPT ![f] = h] /\ fd' = [fd EXCEPT ![t] = f]
    BY DEF Accept
  <1>2. /\ Len(backlog) \in Nat \ {0} /\ h = backlog[1] /\ h \in Clients
        /\ Len(backlog') = Len(backlog) - 1
        /\ \A i \in 1 .. Len(backlog') : backlog'[i] = backlog[i + 1] /\ i + 1 \in 2 .. Len(backlog)
    BY <1>t DEF Accept, TypeOK
  <1>3. conn'[f] = h /\ \A g \in Fds : g # f => conn'[g] = conn[g]
    BY <1>1, <1>t DEF TypeOK
  <1>4. \A g \in Fds : conn[g] # h
    BY <1>2 DEF ClientInv, NotInBoth
  <1>5. sent' = sent /\ closed' = closed /\ replies' = replies
    BY DEF Accept, clientVars
  <1>6. \A u \in Threads : pc'[u] \in Serving => u # t /\ pc'[u] = pc[u] /\ fd'[u] = fd[u]
    BY <1>1, <1>t DEF Accept, Goto, TypeOK, Serving
  <1>7. \A u \in Threads : pc[u] \in Serving => pc'[u] = pc[u] /\ fd'[u] = fd[u]
    BY <1>1, <1>t DEF Accept, Goto, TypeOK, Serving
  <1>8. \A i \in 1 .. Len(backlog') : backlog'[i] # h
    BY <1>2 DEF ClientInv, InBacklogOnce
  <1>a. InBacklogOnce'
    BY <1>2 DEF ClientInv, InBacklogOnce
  <1>b. OneDescriptor'
    BY <1>3, <1>4 DEF ClientInv, OneDescriptor
  <1>c. NotInBoth'
    <2> SUFFICES ASSUME NEW i \in 1 .. Len(backlog'), NEW g \in Fds PROVE backlog'[i] # conn'[g]
      BY DEF NotInBoth
    <2>1. i + 1 \in 1 .. Len(backlog) /\ backlog'[i] = backlog[i + 1]
      BY <1>2
    <2> QED  BY <2>1, <1>3, <1>8 DEF ClientInv, NotInBoth
  <1>d. OffIsOutside'
    <2> SUFFICES ASSUME NEW c \in Clients, sent[c] = "off" PROVE ~InService(c)' /\ replies[c] = 0
      BY <1>5 DEF OffIsOutside
    <2>1. ~InService(c) /\ replies[c] = 0
      BY DEF ClientInv, OffIsOutside
    <2>2. c # h
      BY <2>1, <1>2 DEF InService
    <2>3. \A i \in 1 .. Len(backlog') : backlog'[i] # c
      BY <2>1, <1>2 DEF InService
    <2> QED  BY <2>1, <2>2, <2>3, <1>3 DEF InService
  <1>e. WaitingIsFresh'
    BY <1>2, <1>5 DEF ClientInv, WaitingIsFresh
  <1>f. AnsweredIsClosed'
    <2>1. replies[h] = 0
      BY <1>2 DEF ClientInv, WaitingIsFresh
    <2> QED  BY <2>1, <1>3, <1>5, <1>7 DEF ClientInv, AnsweredIsClosed, Serving
  <1>g. ReplyIsToWhole'
    <2> SUFFICES ASSUME NEW u \in Threads, pc'[u] = "reply" PROVE BlankLine(conn[fd[u]])'
      BY DEF ReplyIsToWhole
    <2>1. u # t /\ pc[u] = "reply" /\ fd'[u] = fd[u]
      BY <1>6 DEF Serving
    <2>2. fd[u] \in Fds /\ conn[fd[u]] \in Clients
      BY <2>1, ServingHolds DEF Serving
    <2>3. fd[u] # f
      BY <2>2, <1>1, NamesDistinct
    <2> QED  BY <2>1, <2>2, <2>3, <1>3, <1>5 DEF ClientInv, ReplyIsToWhole, BlankLine
  <1> QED  BY <1>a, <1>b, <1>c, <1>d, <1>e, <1>f, <1>g DEF ClientInv

LEMMA FinishClient ==
  ASSUME ServInv, ClientInv, NEW t \in Threads, Finish(t)
  PROVE  ClientInv'
  <1>t. TypeOK
    BY DEF ServInv, TypeInv
  <1>1. pc[t] = "finish" /\ fd[t] \in Fds
    BY <1>t DEF Finish, Goto, ServInv, TypeInv, HandInv
  <1>2. conn'[fd[t]] = Nothing /\ \A g \in Fds : g # fd[t] => conn'[g] = conn[g]
    BY <1>1, <1>t DEF Finish, TypeOK
  <1>3. UNCHANGED <<backlog, sent, closed, replies>>
    BY DEF Finish, clientVars
  <1>4. \A u \in Threads : u # t => pc'[u] = pc[u] /\ fd'[u] = fd[u]
    BY <1>t DEF Finish, Goto, TypeOK
  <1>5. pc'[t] = "next"
    BY <1>t DEF Finish, Goto, TypeOK
  <1>6. \A c \in Clients : c # Nothing
    BY NamesDistinct
  <1>7. \A i \in 1 .. Len(backlog) : backlog[i] \in Clients
    BY <1>t DEF TypeOK
  <1>a. InBacklogOnce' /\ WaitingIsFresh'
    BY <1>3 DEF ClientInv, InBacklogOnce, WaitingIsFresh
  <1>b. OneDescriptor'
    BY <1>2 DEF ClientInv, OneDescriptor
  <1>c. NotInBoth'
    BY <1>2, <1>3, <1>6, <1>7 DEF ClientInv, NotInBoth
  <1>d. OffIsOutside'
    BY <1>2, <1>3, <1>6 DEF ClientInv, OffIsOutside, InService
  <1>f. AnsweredIsClosed'
    BY <1>2, <1>3, <1>4 DEF ClientInv, AnsweredIsClosed
  <1>g. ReplyIsToWhole'
    <2> SUFFICES ASSUME NEW u \in Threads, pc'[u] = "reply" PROVE BlankLine(conn[fd[u]])'
      BY DEF ReplyIsToWhole
    <2>1. u # t /\ pc[u] = "reply" /\ fd'[u] = fd[u]
      BY <1>4, <1>5
    <2>2. fd[u] \in Fds /\ fd[u] # fd[t]
      BY <2>1, <1>1, ServingHolds DEF Serving
    <2> QED  BY <2>1, <2>2, <1>2, <1>3 DEF ClientInv, ReplyIsToWhole, BlankLine
  <1> QED  BY <1>a, <1>b, <1>c, <1>d, <1>f, <1>g DEF ClientInv

LEMMA ConnectClient ==
  ASSUME ServInv, ClientInv, NEW c \in Clients, Connect(c)
  PROVE  ClientInv'
  <1>t. TypeOK
    BY DEF ServInv, TypeInv
  <1>1. ~InService(c) /\ replies[c] = 0
    BY DEF Connect, ClientInv, OffIsOutside
  <1>2. UNCHANGED <<conn, closed, replies, pc, fd>>
    BY DEF Connect
  <1>3. sent'[c] = "none" /\ \A d \in Clients : d # c => sent'[d] = sent[d]
    BY <1>t DEF Connect, TypeOK
  <1>4. /\ Len(backlog) \in Nat /\ Len(backlog') = Len(backlog) + 1
        /\ backlog'[Len(backlog) + 1] = c
        /\ \A i \in 1 .. Len(backlog) : backlog'[i] = backlog[i]
    BY <1>t DEF Connect, TypeOK
  <1>5. \A i \in 1 .. Len(backlog') : i \in 1 .. Len(backlog) \/ i = Len(backlog) + 1
    BY <1>4
  <1>6. \A i \in 1 .. Len(backlog) : backlog[i] # c
    BY <1>1 DEF InService
  <1>a. InBacklogOnce'
    BY <1>4, <1>5, <1>6 DEF ClientInv, InBacklogOnce
  <1>b. OneDescriptor' /\ AnsweredIsClosed'
    BY <1>2 DEF ClientInv, OneDescriptor, AnsweredIsClosed
  <1>c. NotInBoth'
    BY <1>1, <1>2, <1>4, <1>5 DEF ClientInv, NotInBoth, InService
  <1>d. OffIsOutside'
    <2> SUFFICES ASSUME NEW d \in Clients, sent'[d] = "off" PROVE ~InService(d)' /\ replies'[d] = 0
      BY DEF OffIsOutside
    <2>1. d # c /\ ~InService(d) /\ replies[d] = 0
      BY <1>3 DEF ClientInv, OffIsOutside
    <2>2. \A i \in 1 .. Len(backlog') : backlog'[i] # d
      BY <2>1, <1>4, <1>5 DEF InService
    <2> QED  BY <2>1, <2>2, <1>2 DEF InService
  <1>e. WaitingIsFresh'
    BY <1>1, <1>2, <1>4, <1>5 DEF ClientInv, WaitingIsFresh
  <1>g. ReplyIsToWhole'
    <2> SUFFICES ASSUME NEW u \in Threads, pc[u] = "reply" PROVE BlankLine(conn[fd[u]])'
      BY <1>2 DEF ReplyIsToWhole
    <2>1. BlankLine(conn[fd[u]]) /\ conn[fd[u]] \in Clients
      BY ServingHolds DEF ClientInv, ReplyIsToWhole, Serving
    <2>2. sent[c] = "off"
      BY DEF Connect
    <2> QED  BY <2>1, <2>2, <1>2, <1>3 DEF BlankLine
  <1> QED  BY <1>a, <1>b, <1>c, <1>d, <1>e, <1>g DEF ClientInv

\* The first answer to a client is the only one: nobody else works on its
\* connection, and a client answered before is being closed.
LEMMA ReplyClient ==
  ASSUME ServInv, ClientInv, AnswersWholeRequests, NEW t \in Threads,
         Goto(t, "reply", "finish"), replies' = [replies EXCEPT ![conn[fd[t]]] = @ + 1],
         UNCHANGED <<backlog, conn, sent, closed, fd>>
  PROVE  ClientInv' /\ AnswersWholeRequests'
  <1>t. TypeOK
    BY DEF ServInv, TypeInv
  <1> DEFINE c == conn[fd[t]]
  <1>1. pc[t] = "reply" /\ pc'[t] = "finish" /\ \A u \in Threads : u # t => pc'[u] = pc[u]
    BY <1>t DEF Goto, TypeOK
  <1>2. fd[t] \in Fds /\ c \in Clients /\ c # Nothing
    BY <1>1, ServingHolds, NamesDistinct DEF Serving
  <1>3. BlankLine(c)
    BY <1>1 DEF ClientInv, ReplyIsToWhole
  <1>4. replies[c] = 0
    <2> SUFFICES ASSUME replies[c] # 0 PROVE FALSE
      OBVIOUS
    <2>1. PICK u \in Threads : pc[u] = "finish" /\ fd[u] = fd[t]
      BY <1>2 DEF ClientInv, AnsweredIsClosed
    <2> QED  BY <2>1, <1>1, ServingHolds DEF Serving
  <1>5. replies'[c] = 1 /\ \A d \in Clients : d # c => replies'[d] = replies[d]
    BY <1>2, <1>4, <1>t DEF TypeOK
  <1>6. \A i \in 1 .. Len(backlog) : backlog[i] # c /\ backlog[i] \in Clients
    BY <1>2, <1>t DEF ClientInv, NotInBoth, TypeOK
  <1>a. InBacklogOnce' /\ OneDescriptor' /\ NotInBoth'
    BY DEF ClientInv, InBacklogOnce, OneDescriptor, NotInBoth
  <1>d. OffIsOutside'
    <2> SUFFICES ASSUME NEW d \in Clients, sent[d] = "off" PROVE ~InService(d)' /\ replies'[d] = 0
      BY DEF OffIsOutside
    <2>1. ~InService(d) /\ replies[d] = 0 /\ d # c
      BY <1>3 DEF ClientInv, OffIsOutside, BlankLine
    <2> QED  BY <2>1, <1>5 DEF InService
  <1>e. WaitingIsFresh'
    BY <1>5, <1>6 DEF ClientInv, WaitingIsFresh
  <1>f. AnsweredIsClosed'
    <2> SUFFICES ASSUME NEW f \in Fds, conn[f] # Nothing, replies'[conn[f]] # 0
                 PROVE  \E u \in Threads : pc'[u] = "finish" /\ fd[u] = f
      BY DEF AnsweredIsClosed
    <2>1. CASE conn[f] = c
      <3>1. f = fd[t]
        BY <2>1, <1>2 DEF ClientInv, OneDescriptor
      <3> QED  BY <3>1, <1>1
    <2>2. CASE conn[f] # c
      <3>1. conn[f] \in Clients /\ replies[conn[f]] # 0
        BY <2>2, <1>5, <1>t DEF TypeOK
      <3>2. PICK u \in Threads : pc[u] = "finish" /\ fd[u] = f
        BY <3>1 DEF ClientInv, AnsweredIsClosed
      <3> QED  BY <3>2, <1>1
    <2> QED  BY <2>1, <2>2
  <1>g. ReplyIsToWhole'
    BY <1>1 DEF ClientInv, ReplyIsToWhole, BlankLine
  <1>h. AnswersWholeRequests'
    BY <1>3, <1>5 DEF AnswersWholeRequests, BlankLine
  <1> QED  BY <1>a, <1>d, <1>e, <1>f, <1>g, <1>h DEF ClientInv

\* A client sends nothing after its whole request, and nothing unconnected.
LEMMA SendMoreClient ==
  ASSUME ServInv, ClientInv, AnswersWholeRequests, NEW c \in Clients, SendMore(c)
  PROVE  ClientInv' /\ AnswersWholeRequests'
  <1>t. TypeOK
    BY DEF ServInv, TypeInv
  <1>1. sent[c] # "off" /\ ~BlankLine(c) /\ sent'[c] # "off"
    <2>1. PICK a \in Following(sent[c]) : sent' = [sent EXCEPT ![c] = a]
      BY DEF SendMore
    <2>2. c \notin closed
      BY DEF SendMore
    <2> QED  BY <2>1, <2>2, <1>t DEF Following, TypeOK, BlankLine
  <1>2. \A d \in Clients : d # c => sent'[d] = sent[d]
    BY <1>t DEF SendMore, TypeOK
  <1>3. UNCHANGED <<backlog, conn, closed, replies, pc, fd>>
    BY DEF SendMore
  <1>4. OffIsOutside'
    BY <1>1, <1>2, <1>3 DEF ClientInv, OffIsOutside, InService
  <1>5. ReplyIsToWhole'
    <2> SUFFICES ASSUME NEW u \in Threads, pc[u] = "reply" PROVE BlankLine(conn[fd[u]])'
      BY <1>3 DEF ReplyIsToWhole
    <2>1. BlankLine(conn[fd[u]]) /\ conn[fd[u]] \in Clients
      BY ServingHolds DEF ClientInv, ReplyIsToWhole, Serving
    <2> QED  BY <2>1, <1>1, <1>2, <1>3 DEF BlankLine
  <1>6. AnswersWholeRequests'
    BY <1>1, <1>2, <1>3 DEF AnswersWholeRequests, BlankLine
  <1> QED  BY <1>3, <1>4, <1>5, <1>6
           DEF ClientInv, InBacklogOnce, OneDescriptor, NotInBoth, WaitingIsFresh, AnsweredIsClosed

LEMMA StepClient ==
  ServInv /\ ClientInv /\ AnswersWholeRequests /\ [Next]_vars => ClientInv' /\ AnswersWholeRequests'
  <1> SUFFICES ASSUME ServInv, ClientInv, AnswersWholeRequests, [Next]_vars
               PROVE  ClientInv' /\ AnswersWholeRequests'
    OBVIOUS
  <1>t. TypeOK
    BY DEF ServInv, TypeInv
  <1>a. ASSUME UNCHANGED <<sent, replies>>, closed \subseteq closed' PROVE AnswersWholeRequests'
    BY <1>a DEF AnswersWholeRequests
  <1>0. ASSUME Die PROVE ClientInv'
    BY <1>0, ClientSame DEF Die, clientVars
  <1>1. ASSUME NEW t \in Threads, Start(t) \/ Wait(t) \/ Take(t) \/ Add(t) PROVE ClientInv'
    <2>1. UNCHANGED <<backlog, conn, sent, closed, replies>>
      BY <1>1 DEF Start, Wait, Take, Add, clientVars
    <2>2. /\ pc[t] \notin {"reply", "finish"} /\ pc'[t] # "reply"
          /\ \A u \in Threads : u # t => pc'[u] = pc[u] /\ fd'[u] = fd[u]
      BY <1>1, <1>t DEF Start, Wait, Take, Add, Goto, TypeOK
    <2> QED  BY <2>1, <2>2, ClientSame
  <1>2. ASSUME NEW t \in Threads, Request(t) PROVE ClientInv'
    <2>1. UNCHANGED <<backlog, conn, sent, closed, replies, fd>>
      BY <1>2 DEF Request, clientVars
    <2>2. /\ pc[t] = "request" /\ (pc'[t] = "reply" => BlankLine(conn[fd[t]]))
          /\ \A u \in Threads : u # t => pc'[u] = pc[u]
      BY <1>2, <1>t DEF Request, Goto, TypeOK
    <2> QED  BY <2>1, <2>2, ClientSame
  <1>3. ASSUME NEW t \in Threads, Reply(t) PROVE ClientInv' /\ AnswersWholeRequests'
    <2>1. CASE Die
      BY <2>1, <1>0, <1>a DEF Die, clientVars
    <2> QED  BY <1>3, <2>1, ReplyClient DEF Reply
  <1>4. ASSUME NEW c \in Clients, Close(c) PROVE ClientInv'
    BY <1>4, ClientSame DEF Close
  <1>5. CASE UNCHANGED vars
    BY <1>5, <1>a, ClientSame DEF vars, clientVars
  <1>6. ASSUME NEW t \in Threads, Thread(t) PROVE ClientInv' /\ AnswersWholeRequests'
    <2>1. CASE Reply(t)
      BY <2>1, <1>3
    <2>2. CASE Accept(t) \/ Finish(t)
      <3>1. UNCHANGED <<sent, closed, replies>>
        BY <2>2 DEF Accept, Finish, clientVars
      <3> QED  BY <2>2, <3>1, <1>a, AcceptClient, FinishClient
    <2>3. CASE Start(t) \/ Wait(t) \/ Take(t) \/ Add(t) \/ Request(t) \/ AcceptFails(t)
      <3>1. UNCHANGED <<sent, closed, replies>>
        BY <2>3 DEF Start, Wait, Take, Add, Request, AcceptFails, Die, clientVars
      <3>2. AcceptFails(t) => Die
        BY DEF AcceptFails
      <3> QED  BY <2>3, <3>1, <3>2, <1>a, <1>0, <1>1, <1>2
    <2> QED  BY <1>6, <2>1, <2>2, <2>3 DEF Thread
  <1>7. ASSUME NEW c \in Clients, Client(c) PROVE ClientInv' /\ AnswersWholeRequests'
    <2>1. CASE Connect(c)
      <3>1. AnswersWholeRequests'
        <4>1. replies[c] = 0 /\ replies' = replies /\ closed' = closed
          BY <2>1 DEF Connect, ClientInv, OffIsOutside
        <4>2. \A d \in Clients : d # c => sent'[d] = sent[d]
          BY <2>1, <1>t DEF Connect, TypeOK
        <4> QED  BY <4>1, <4>2 DEF AnswersWholeRequests
      <3> QED  BY <2>1, <3>1, ConnectClient
    <2>2. CASE Close(c)
      BY <2>2, <1>4, <1>a DEF Close
    <2>3. CASE SendMore(c)
      BY <2>3, SendMoreClient
    <2> QED  BY <1>7, <2>1, <2>2, <2>3 DEF Client
  <1> QED  BY <1>5, <1>6, <1>7 DEF Next

\* A client is answered at most once, and only when recv_line has found a blank
\* line in what it sent (or made one at the end of the stream, of a last line
\* that begins with CR), for any number of threads and however often its
\* descriptor's number is used again.
THEOREM OneAnswerPerRequest == Spec => []AnswersWholeRequests
  <1>1. Init => ClientInv /\ AnswersWholeRequests
    BY InitClient
  <1> QED  BY InvServ, <1>1, StepClient, PTL DEF Spec

----------------------------------------------------------------------------
(* Events: nothing to read is forgotten. *)

\* A step that leaves what can be read as it is, forgets no event of a thread
\* and registers nothing.
LEMMA NothingForgotten ==
  ASSUME ReadyNotForgotten, \A f \in Fds : Readable(f)' => Readable(f),
         \A t \in Threads : interest[t] \subseteq Fds /\ interest'[t] \subseteq interest[t],
         \A t \in Threads : \A f \in interest'[t] :
             f \in ready[t] \cup batch[t] \cup {fd[t]} => f \in ready'[t] \cup batch'[t] \cup {fd'[t]}
  PROVE  ReadyNotForgotten'
  BY DEF ReadyNotForgotten

LEMMA StepReady == ServInv /\ ClientInv /\ ReadyNotForgotten /\ [Next]_vars => ReadyNotForgotten'
  <1> SUFFICES ASSUME ServInv, ClientInv, ReadyNotForgotten, [Next]_vars PROVE ReadyNotForgotten'
    OBVIOUS
  <1>t. TypeOK /\ HandInv /\ IdleInv /\ HeldInv
    BY DEF ServInv, TypeInv
  <1>n. Serv \notin Fds /\ Nothing \notin Fds
    BY NamesDistinct
  <1>i. \A u \in Threads : interest[u] \subseteq Fds
    BY <1>t DEF TypeOK
  <1>r. ASSUME UNCHANGED <<backlog, conn, sent, closed>> PROVE \A x : Readable(x)' <=> Readable(x)
    BY <1>r DEF Readable
  <1>0. ASSUME Die PROVE ReadyNotForgotten'
    BY <1>0 DEF Die, clientVars, epollVars, ReadyNotForgotten, Readable
  <1>1. ASSUME NEW t \in Threads, Start(t) PROVE ReadyNotForgotten'
    <2>1. interest[t] = {} /\ UNCHANGED <<backlog, conn, sent, closed, interest, batch, fd>>
      BY <1>1, <1>t DEF Start, Goto, IdleInv, clientVars
    <2>2. \A u \in Threads : u # t => ready'[u] = ready[u]
      BY <1>1, <1>t DEF Start, TypeOK
    <2> QED  BY <2>1, <2>2, <1>i, <1>r, NothingForgotten
  <1>2. ASSUME NEW t \in Threads, Wait(t) PROVE ReadyNotForgotten'
    <2>1. /\ batch[t] = {} /\ fd[t] = Nothing
          /\ UNCHANGED <<backlog, conn, sent, closed, interest, fd>>
      BY <1>2, <1>t DEF Wait, Goto, IdleInv, clientVars
    <2>2. batch'[t] \cup ready'[t] = {x \in ready[t] : Readable(x)}
      BY <1>2, <1>t DEF Wait, TypeOK
    <2>3. \A u \in Threads : u # t => ready'[u] = ready[u] /\ batch'[u] = batch[u]
      BY <1>2, <1>t DEF Wait, TypeOK
    <2>4. ASSUME NEW u \in Threads, NEW f \in interest[u], Readable(f)
          PROVE  f \in ready'[u] \cup batch'[u] \cup {fd[u]}
      <3>1. f \in ready[u] \cup batch[u] \cup {fd[u]} /\ f \in Fds
        BY <2>4, <1>i DEF ReadyNotForgotten
      <3> QED  BY <3>1, <2>1, <2>2, <2>3, <2>4, <1>n
    <2> QED  BY <2>1, <2>4, <1>r DEF ReadyNotForgotten
  <1>3. ASSUME NEW t \in Threads, Take(t) PROVE ReadyNotForgotten'
    <2>1. UNCHANGED <<backlog, conn, sent, closed, interest, ready>> /\ fd[t] = Nothing
      BY <1>3, <1>t DEF Take, Goto, IdleInv, clientVars, epollVars
    <2>2. \A u \in Threads : u # t => fd'[u] = fd[u] /\ batch'[u] = batch[u]
      BY <1>3, <1>t DEF Take, TypeOK
    <2>3. \A f \in Fds : f \in batch[t] => f \in batch'[t] \cup {fd'[t]}
      BY <1>3, <1>t, <1>n DEF Take, TypeOK
    <2> QED  BY <2>1, <2>2, <2>3, <1>i, <1>n, <1>r, NothingForgotten
  <1>4. ASSUME NEW t \in Threads, Accept(t) PROVE ReadyNotForgotten'
    <2>1. PICK f \in Fds : /\ conn[f] = Nothing
                           /\ conn' = [conn EXCEPT ![f] = Head(backlog)]
                           /\ fd' = [fd EXCEPT ![t] = f]
      BY <1>4 DEF Accept
    <2>2. UNCHANGED <<sent, closed, interest, ready, batch>> /\ fd[t] = Nothing
      BY <1>4, <1>t DEF Accept, Goto, IdleInv, clientVars, epollVars
    <2>3. \A u \in Threads : f \notin interest[u]
      BY <2>1, <1>t DEF HeldInv, Holds
    <2>4. ASSUME NEW u \in Threads, NEW g \in interest[u], Readable(g)'
          PROVE  g \in ready[u] \cup batch[u] \cup {fd'[u]}
      <3>1. g \in Fds /\ g # f /\ g # Serv
        BY <2>3, <1>i, <1>n
      <3>2. conn'[g] = conn[g]
        BY <3>1, <2>1, <1>t DEF TypeOK
      <3>3. Readable(g)
        BY <2>4, <3>1, <3>2, <2>2 DEF Readable
      <3>4. fd[u] = g => fd'[u] = g
        BY <2>1, <2>2, <3>1, <1>n, <1>t DEF TypeOK
      <3> QED  BY <3>3, <3>4 DEF ReadyNotForgotten
    <2> QED  BY <2>2, <2>4 DEF ReadyNotForgotten
  <1>5. ASSUME NEW t \in Threads, AcceptFails(t) PROVE ReadyNotForgotten'
    BY <1>5, <1>0 DEF AcceptFails
  <1>6. ASSUME NEW t \in Threads, Add(t) PROVE ReadyNotForgotten'
    <2>1. UNCHANGED <<backlog, conn, sent, closed, batch>>
      BY <1>6 DEF Add, clientVars
    <2>2. /\ interest'[t] = interest[t] \cup {fd[t]}
          /\ ready'[t] = ready[t] \cup {x \in {fd[t]} : Readable(x)}
      BY <1>6, <1>t DEF Add, TypeOK
    <2>3. \A u \in Threads : u # t => interest'[u] = interest[u] /\ ready'[u] = ready[u] /\ fd'[u] = fd[u]
      BY <1>6, <1>t DEF Add, TypeOK
    <2>4. ASSUME NEW u \in Threads, NEW f \in interest'[u], Readable(f)
          PROVE  f \in ready'[u] \cup batch[u] \cup {fd'[u]}
      BY <2>2, <2>3, <2>4 DEF ReadyNotForgotten
    <2> QED  BY <2>1, <2>4, <1>r DEF ReadyNotForgotten
  <1>7. ASSUME NEW t \in Threads, Request(t) \/ Reply(t) PROVE ReadyNotForgotten'
    <2>1. CASE Die
      BY <2>1, <1>0
    <2>2. CASE UNCHANGED <<backlog, conn, sent, closed, interest, ready, batch, fd>>
      BY <2>2, <1>r DEF ReadyNotForgotten
    <2> QED  BY <1>7, <2>1, <2>2 DEF Request, Reply, clientVars, epollVars
  <1>8. ASSUME NEW t \in Threads, Finish(t) PROVE ReadyNotForgotten'
    <2>1. UNCHANGED <<backlog, sent, closed, batch>> /\ fd[t] \in Fds
      BY <1>8, <1>t DEF Finish, Goto, HandInv, clientVars
    <2>2. interest'[t] = interest[t] \ {fd[t]} /\ ready'[t] = ready[t] \ {fd[t]}
      BY <1>8, <1>t DEF Finish, TypeOK
    <2>3. \A u \in Threads : u # t => interest'[u] = interest[u] /\ ready'[u] = ready[u] /\ fd'[u] = fd[u]
      BY <1>8, <1>t DEF Finish, TypeOK
    <2>4. \A f \in Fds : Readable(f)' => Readable(f)
      BY <1>8, <2>1, <1>t, <1>n DEF Finish, Readable, TypeOK
    <2> QED  BY <2>1, <2>2, <2>3, <2>4, <1>i, NothingForgotten
  <1>9. ASSUME NEW c \in Clients, Connect(c) PROVE ReadyNotForgotten'
    <2>1. UNCHANGED <<conn, closed, interest, batch, fd>>
      BY <1>9 DEF Connect
    <2>2. \A u \in Threads : ready[u] \subseteq ready'[u]
      BY <1>9, <1>t DEF Connect, TypeOK
    <2>3. \A f \in Fds : conn[f] # c
      BY <1>9 DEF Connect, ClientInv, OffIsOutside, InService
    <2>4. \A f \in Fds : conn[f] # Nothing => sent'[conn[f]] = sent[conn[f]]
      BY <1>9, <2>3, <1>t DEF Connect, TypeOK
    <2>5. \A f \in Fds : Readable(f)' => Readable(f)
      BY <2>1, <2>4, <1>n DEF Readable
    <2> QED  BY <2>1, <2>2, <2>5, <1>i, NothingForgotten
  <1>10. ASSUME NEW c \in Clients, SendMore(c) \/ Close(c) PROVE ReadyNotForgotten'
    <2>1. UNCHANGED <<conn, interest, batch, fd>> /\ \A d \in Clients : d # c => sent'[d] = sent[d]
      BY <1>10, <1>t DEF SendMore, Close, TypeOK
    <2>2. \A u \in Threads : ready'[u] = ready[u] \cup {f \in interest[u] : conn[f] = c}
      BY <1>10, <1>t DEF SendMore, Close, Notify, TypeOK
    <2>3. \A d \in Clients : d # c => (d \in closed' <=> d \in closed)
      BY <1>10 DEF SendMore, Close
    <2>4. ASSUME NEW u \in Threads, NEW f \in interest[u], Readable(f)', conn[f] # c
          PROVE  Readable(f)
      <3>1. f \in Fds /\ f # Serv
        BY <1>i, <1>n
      <3>2. conn[f] \in Clients
        BY <2>4, <3>1, <2>1, <1>t DEF Readable, TypeOK
      <3> QED  BY <2>4, <3>1, <3>2, <2>1, <2>3 DEF Readable
    <2> QED  BY <2>1, <2>2, <2>4 DEF ReadyNotForgotten
  <1>11. CASE UNCHANGED vars
    BY <1>11, <1>r DEF vars, clientVars, epollVars, ReadyNotForgotten
  <1> QED
    BY <1>1, <1>2, <1>3, <1>4, <1>5, <1>6, <1>7, <1>8, <1>9, <1>10, <1>11
       DEF Next, Thread, Client

\* No edge of a connection is lost between the kernel's ready list, the
\* array of events and the thread's hand: one that can be read is always on
\* its way to its thread.
THEOREM NoEdgeLost == Spec => []ReadyNotForgotten
  <1>1. Init => ClientInv /\ AnswersWholeRequests
    BY InitClient
  <1>2. Init => ReadyNotForgotten
    BY DEF Init, ReadyNotForgotten
  <1> QED  BY InvServ, <1>1, <1>2, StepClient, StepReady, PTL DEF Spec

\* What a step other than an arrival does to the wake-ups: none is lost while
\* there is a connection to accept.
LEMMA WakeupsKept ==
  ASSUME WakeupPerConnection, backlog \in Seq(Clients), UNCHANGED <<backlog, merged>>,
         NEW t \in Threads,
         \A u \in Threads : u # t => pc'[u] = pc[u] /\ ready'[u] = ready[u] /\ batch'[u] = batch[u],
         Started(t)' /\ t \notin merged => Len(backlog) <= Wakeups(t)'
  PROVE  WakeupPerConnection'
  <1> SUFFICES ASSUME NEW u \in Threads, Started(u)', u \notin merged
               PROVE  Len(backlog) <= Wakeups(u)'
    BY DEF WakeupPerConnection
  <1>1. CASE u = t
    BY <1>1
  <1>2. CASE u # t
    <2>1. Started(u) /\ Wakeups(u)' = Wakeups(u)
      BY <1>2 DEF Started, Wakeups
    <2> QED  BY <2>1 DEF WakeupPerConnection
  <1> QED  BY <1>1, <1>2

LEMMA StepWakeup == ServInv /\ WakeupPerConnection /\ [Next]_vars => WakeupPerConnection'
  <1> SUFFICES ASSUME ServInv, WakeupPerConnection, [Next]_vars PROVE WakeupPerConnection'
    OBVIOUS
  <1>t. TypeOK /\ HandInv /\ IdleInv /\ HeldInv
    BY DEF ServInv, TypeInv
  <1>n. Serv \notin Fds
    BY NamesDistinct
  <1>b. backlog \in Seq(Clients) /\ Len(backlog) \in Nat
    BY <1>t DEF TypeOK
  <1>w. \A u \in Threads : Started(u) /\ u \notin merged => Len(backlog) <= Wakeups(u)
    BY DEF WakeupPerConnection
  <1>0. ASSUME UNCHANGED <<backlog, pc, epollVars, batch, merged>> PROVE WakeupPerConnection'
    BY <1>0 DEF epollVars, WakeupPerConnection, Wakeups, Started
  <1>1. ASSUME NEW t \in Threads, Start(t) PROVE WakeupPerConnection'
    <2> SUFFICES ASSUME NEW u \in Threads, Started(u)', u \notin merged'
                 PROVE  Len(backlog) <= Wakeups(u)'
      BY <1>1 DEF WakeupPerConnection, Start
    <2>1. CASE u = t
      <3>1. ~(Len(backlog) > 1)
        BY <1>1, <2>1 DEF Start
      <3>2. Len(backlog) = 1 => Serv \in ready'[t]
        <4>1. ready'[t] = {x \in {Serv} : Readable(x)}
          BY <1>1, <1>t DEF Start, TypeOK
        <4> QED  BY <4>1, <1>b DEF Readable
      <3>3. CASE Len(backlog) = 1
        <4>1. Wakeups(u)' >= 1
          BY <3>2, <3>3, <2>1 DEF Wakeups
        <4> QED  BY <4>1, <3>3
      <3>4. CASE Len(backlog) = 0
        <4>1. Wakeups(u)' >= 0
          BY DEF Wakeups
        <4> QED  BY <4>1, <3>4
      <3>5. Len(backlog) = 0 \/ Len(backlog) = 1
        <4>1. Len(backlog) \in Nat
          BY <1>b
        <4>2. \A n \in Nat : ~(n > 1) => n = 0 \/ n = 1
          OBVIOUS
        <4> QED  BY <4>1, <4>2, <3>1
      <3> QED  BY <3>3, <3>4, <3>5
    <2>2. CASE u # t
      <3>1. Started(u) /\ Wakeups(u)' = Wakeups(u) /\ u \notin merged
        BY <1>1, <2>2, <1>t DEF Start, Goto, TypeOK, Started, Wakeups
      <3> QED  BY <3>1, <1>w
    <2> QED  BY <2>1, <2>2
  <1>2. ASSUME NEW t \in Threads, Wait(t) PROVE WakeupPerConnection'
    <2>1. /\ batch[t] = {} /\ pc[t] = "wait" /\ pc'[t] = "next"
          /\ UNCHANGED <<backlog, merged>>
          /\ \A u \in Threads : u # t => pc'[u] = pc[u] /\ ready'[u] = ready[u] /\ batch'[u] = batch[u]
      BY <1>2, <1>t DEF Wait, Goto, IdleInv, TypeOK
    <2>2. batch'[t] \cup ready'[t] = {x \in ready[t] : Readable(x)}
      BY <1>2, <1>t DEF Wait, TypeOK
    <2>3. ASSUME t \notin merged PROVE Len(backlog) <= Wakeups(t)'
      <3>1. Len(backlog) <= Wakeups(t)
        BY <2>1, <2>3, <1>w DEF Started
      <3>2. CASE backlog = <<>>
        BY <3>2, <1>b DEF Wakeups
      <3>3. CASE backlog # <<>>
        <4>1. Serv \in ready[t] => Serv \in ready'[t] \/ Serv \in batch'[t]
          BY <2>2, <3>3 DEF Readable
        <4> QED  BY <3>1, <4>1, <2>1, <1>b DEF Wakeups
      <3> QED  BY <3>2, <3>3
    <2> QED  BY <2>1, <2>3, <1>b, WakeupsKept
  <1>3. ASSUME NEW t \in Threads, Take(t) PROVE WakeupPerConnection'
    <2>1. /\ pc[t] = "next" /\ UNCHANGED <<backlog, merged, ready>>
          /\ \A u \in Threads : u # t => pc'[u] = pc[u] /\ batch'[u] = batch[u]
      BY <1>3, <1>t DEF Take, Goto, TypeOK, epollVars
    <2>2. Serv \in batch[t] => Serv \in batch'[t] \/ pc'[t] = "accept"
      BY <1>3, <1>t DEF Take, Goto, TypeOK
    <2>3. ASSUME t \notin merged PROVE Len(backlog) <= Wakeups(t)'
      <3>1. Len(backlog) <= Wakeups(t)
        BY <2>1, <2>3, <1>w DEF Started
      <3> QED  BY <3>1, <2>1, <2>2, <1>b DEF Wakeups
    <2> QED  BY <2>1, <2>3, <1>b, WakeupsKept
  <1>4. ASSUME NEW t \in Threads, Accept(t) PROVE WakeupPerConnection'
    <2>1. Len(backlog) \in Nat \ {0} /\ Len(backlog') = Len(backlog) - 1
      BY <1>4, <1>b DEF Accept
    <2> SUFFICES ASSUME NEW u \in Threads, Started(u)', u \notin merged'
                 PROVE  Len(backlog') <= Wakeups(u)'
      BY DEF WakeupPerConnection
    <2>2. UNCHANGED <<ready, batch>> /\ pc[t] = "accept" /\ pc'[t] = "add"
          /\ \A v \in Threads : v # t => pc'[v] = pc[v]
      BY <1>4, <1>t DEF Accept, Goto, TypeOK, epollVars
    <2>3. CASE Len(backlog) = 1
      BY <2>1, <2>3 DEF Wakeups
    <2>4. CASE Len(backlog) # 1
      <3>1. u \notin merged
        BY <1>4, <2>4 DEF Accept
      <3>2. Started(u)
        BY <2>2 DEF Started
      <3>3. Len(backlog) <= Wakeups(u)
        BY <3>1, <3>2, <1>w
      <3>4. Wakeups(u) <= Wakeups(u)' + 1
        BY <2>2 DEF Wakeups
      <3>5. Wakeups(u) \in Int /\ Wakeups(u)' \in Int
        BY DEF Wakeups
      <3> QED  BY <3>3, <3>4, <3>5, <2>1
    <2> QED  BY <2>3, <2>4
  <1>5. ASSUME NEW t \in Threads, AcceptFails(t) PROVE WakeupPerConnection'
    BY <1>5, <1>0 DEF AcceptFails, Die
  <1>6. ASSUME NEW t \in Threads, Add(t) \/ Request(t) \/ Finish(t) PROVE WakeupPerConnection'
    <2>1. /\ pc[t] \notin {"start", "accept"} /\ pc'[t] # "accept" /\ UNCHANGED <<backlog, merged, batch>>
          /\ \A u \in Threads : u # t => pc'[u] = pc[u] /\ ready'[u] = ready[u]
      BY <1>6, <1>t DEF Add, Request, Finish, Goto, TypeOK, epollVars
    <2>2. Serv \in ready[t] => Serv \in ready'[t]
      <3>1. CASE Finish(t)
        <4>1. fd[t] # Serv
          BY <3>1, <1>t, <1>n DEF Finish, Goto, HandInv
        <4> QED  BY <3>1, <4>1, <1>t DEF Finish, TypeOK
      <3> QED  BY <1>6, <3>1, <1>t DEF Add, Request, TypeOK, epollVars
    <2>3. ASSUME t \notin merged PROVE Len(backlog) <= Wakeups(t)'
      <3>1. Len(backlog) <= Wakeups(t)
        BY <2>1, <2>3, <1>w DEF Started
      <3> QED  BY <3>1, <2>1, <2>2, <1>b DEF Wakeups
    <2> QED  BY <2>1, <2>3, <1>b, WakeupsKept
  <1>7. ASSUME NEW t \in Threads, Reply(t) PROVE WakeupPerConnection'
    <2>1. CASE Die
      BY <2>1, <1>0 DEF Die
    <2>2. CASE Goto(t, "reply", "finish") /\ UNCHANGED <<backlog, epollVars, batch, merged>>
      <3>1. \A u \in Threads : /\ pc'[u] = "accept" <=> pc[u] = "accept"
                               /\ pc'[u] = "start" <=> pc[u] = "start"
        BY <2>2, <1>t DEF Goto, TypeOK
      <3>2. \A u \in Threads : Wakeups(u)' = Wakeups(u)
        BY <3>1, <2>2 DEF Wakeups, epollVars
      <3> QED  BY <3>1, <3>2, <2>2 DEF WakeupPerConnection, Started
    <2> QED  BY <1>7, <2>1, <2>2 DEF Reply
  <1>8. ASSUME NEW c \in Clients, Connect(c) PROVE WakeupPerConnection'
    <2>1. Len(backlog') = Len(backlog) + 1 /\ UNCHANGED <<pc, batch>>
      BY <1>8, <1>b DEF Connect
    <2> SUFFICES ASSUME NEW u \in Threads, Started(u)', u \notin merged'
                 PROVE  Len(backlog') <= Wakeups(u)'
      BY DEF WakeupPerConnection
    <2>2. u \notin merged /\ Serv \notin ready[u] /\ Started(u)
      BY <1>8, <2>1 DEF Connect, Started
    <2>3. Serv \in ready'[u]
      BY <1>8, <2>2, <1>t DEF Connect, TypeOK
    <2>4. Len(backlog) <= Wakeups(u)
      BY <2>2, <1>w
    <2>5. Wakeups(u)' = Wakeups(u) + 1
      BY <2>1, <2>2, <2>3 DEF Wakeups
    <2>6. Wakeups(u) \in Int
      BY DEF Wakeups
    <2> QED  BY <2>1, <2>4, <2>5, <2>6, <1>b
  <1>9. ASSUME NEW c \in Clients, SendMore(c) \/ Close(c) PROVE WakeupPerConnection'
    <2>1. UNCHANGED <<backlog, merged, pc, batch>>
      BY <1>9 DEF SendMore, Close
    <2>2. \A u \in Threads : Serv \in ready'[u] <=> Serv \in ready[u]
      BY <1>9, <1>t, <1>n DEF SendMore, Close, Notify, TypeOK
    <2>3. \A u \in Threads : Wakeups(u)' = Wakeups(u)
      BY <2>1, <2>2 DEF Wakeups
    <2> QED  BY <2>1, <2>3 DEF WakeupPerConnection, Started
  <1>10. CASE UNCHANGED vars
    BY <1>10, <1>0 DEF vars, epollVars
  <1> QED
    BY <1>1, <1>2, <1>3, <1>4, <1>5, <1>6, <1>7, <1>8, <1>9, <1>10 DEF Next, Thread, Client

\* One accept() per event of the listening socket is enough while no two
\* arrivals are made one event: then every connection in the backlog has a
\* wake-up outstanding in every thread that has started.
THEOREM WakeupForEach == Spec => []WakeupPerConnection
  <1>1. Init => WakeupPerConnection
    BY DEF Init, WakeupPerConnection, Started
  <1> QED  BY InvServ, <1>1, StepWakeup, PTL DEF Spec

====
