--------------------------- MODULE FtpServProofs ---------------------------
(***************************************************************************)
(* Proofs about FtpServ, for any number of workers, clients, descriptors   *)
(* and commands.                                                           *)
(***************************************************************************)
EXTENDS FtpServ, FiniteSetTheorems, TLAPS

LEMMA Sizes == PoolSize \in Nat /\ MaxFds \in Nat /\ MaxTime \in Nat /\ MaxCmds \in Nat
  BY SizesAreNat

----------------------------------------------------------------------------
(* Types. *)

\* A worker that reads commands has a client.
ClientInv == \A w \in Workers : wpc[w] = "command" => conn[w] \in Clients

\* No worker has more descriptors than it may.
UsedInv == \A w \in Workers : Used(w) <= MaxFds

TypeInv == TypeOK /\ ClientInv /\ UsedInv

\* The ports a worker listens on are finitely many, and one more is at most
\* one more descriptor.
LEMMA Ports ==
  ASSUME NEW S \in SUBSET Seconds, NEW s \in Seconds
  PROVE  /\ IsFiniteSet(S) /\ Cardinality(S) \in Nat
         /\ Cardinality(S \cup {s}) \in Nat /\ Cardinality(S \cup {s}) <= Cardinality(S) + 1
  <1>1. IsFiniteSet(Seconds)
    BY Sizes, FS_Interval DEF Seconds
  <1>2. IsFiniteSet(S)
    BY <1>1, FS_Subset
  <1>3. Cardinality(S) \in Nat
    BY <1>2, FS_CardinalityType
  <1>4. Cardinality(S \cup {s}) = (IF s \in S THEN Cardinality(S) ELSE Cardinality(S) + 1)
    BY <1>2, FS_AddElement
  <1> QED  BY <1>2, <1>3, <1>4

\* One more reply, to whomever it is sent.
LEMMA OneMore ==
  ASSUME NEW r \in [Clients -> Nat], NEW v
  PROVE  [r EXCEPT ![v] = @ + 1] \in [Clients -> Nat]
  <1>1. CASE v \in Clients
    BY <1>1
  <1>2. CASE v \notin Clients
    <2>1. \A c \in Clients : [r EXCEPT ![v] = @ + 1][c] = r[c]
      BY <1>2
    <2> QED  BY <2>1
  <1> QED  BY <1>1, <1>2

\* A worker without ports has as many descriptors as it has leaked and holds.
LEMMA NoPorts == Cardinality({}) = 0
  BY FS_EmptySet

LEMMA InitType == Init => TypeInv
  <1> SUFFICES ASSUME Init PROVE TypeInv
    OBVIOUS
  <1> USE Sizes DEF Init
  <1>1. now \in Seconds /\ forked \in 0 .. PoolSize
    BY DEF Seconds
  <1>2. /\ leaked \in [Workers -> 0 .. MaxFds] /\ cmds \in [Clients -> 0 .. MaxCmds]
        /\ replies \in [Clients -> Nat]
    OBVIOUS
  <1>3. dir \in [Workers -> Dirs] /\ told \in [Workers -> Dirs \cup {Unknown}]
    BY DEF Dirs
  <1>4. backlog \in Seq(Clients) /\ inbox \in [Clients -> Seq(Commands)]
    OBVIOUS
  <1>5. bound \in [Workers -> SUBSET Seconds]
    OBVIOUS
  <1>6. TypeOK
    BY <1>1, <1>2, <1>3, <1>4, <1>5 DEF TypeOK
  <1>7. ClientInv
    BY DEF ClientInv
  <1>8. UsedInv
    BY NoPorts DEF UsedInv, Used
  <1> QED  BY <1>6, <1>7, <1>8 DEF TypeInv

\* After exit() or close_serv nothing of a worker is left.
LEMMA ExitType ==
  ASSUME TypeInv, NEW w \in Workers, Exit(w), inbox' \in [Clients -> Seq(Commands)],
         UNCHANGED <<master, forked, now, backlog, cmds, replies, pipelined, skipped, closed>>
  PROVE  TypeInv'
  <1> USE Sizes DEF Exit
  <1>1. TypeOK'
    <2>1. /\ wpc' \in [Workers -> {"none", "failed", "accept", "command", "spin", "dead"}]
          /\ conn' \in [Workers -> Clients \cup {NoClient}]
      BY DEF TypeInv, TypeOK
    <2>2. /\ leaked' \in [Workers -> 0 .. MaxFds]
          /\ bound' \in [Workers -> SUBSET Seconds]
          /\ announced' \in [Workers -> BOOLEAN]
      BY DEF TypeInv, TypeOK
    <2>3. dir' \in [Workers -> Dirs] /\ told' \in [Workers -> Dirs \cup {Unknown}]
      BY DEF TypeInv, TypeOK, Dirs
    <2>4. signals' \subseteq {"early", "handled", "exit", "everyone", "group"}
      BY DEF TypeInv, TypeOK
    <2> QED  BY <2>1, <2>2, <2>3, <2>4 DEF TypeInv, TypeOK
  <1>2. ClientInv'
    BY DEF TypeInv, TypeOK, ClientInv
  <1>3. UsedInv'
    <2> SUFFICES ASSUME NEW v \in Workers PROVE Used(v)' <= MaxFds
      BY DEF UsedInv
    <2>1. CASE v = w
      BY <2>1, NoPorts DEF TypeInv, TypeOK, Used
    <2>2. CASE v # w
      <3>1. leaked'[v] = leaked[v] /\ bound'[v] = bound[v] /\ conn'[v] = conn[v]
        BY <2>2 DEF TypeInv, TypeOK
      <3> QED  BY <3>1 DEF TypeInv, UsedInv, Used
    <2> QED  BY <2>1, <2>2
  <1> QED  BY <1>1, <1>2, <1>3 DEF TypeInv

\* A session ends: the worker has no client any more, and nothing else of what
\* it has open changes but what it leaks.
LEMMA EndType ==
  ASSUME TypeInv, NEW w \in Workers, EndSession(w), wpc[w] = "command",
         listens' \in [Workers -> BOOLEAN], replies' \in [Clients -> Nat],
         inbox' \in [Clients -> Seq(Commands)],
         leaked' = leaked \/ leaked' = [leaked EXCEPT ![w] = @ + 1],
         UNCHANGED <<bound, dir, nameless, master, forked, now, backlog, cmds, pipelined, skipped,
                     closed, signals>>
  PROVE  TypeInv'
  <1> USE Sizes DEF EndSession
  <1>t. TypeOK /\ ClientInv /\ UsedInv
    BY DEF TypeInv
  <1>1. conn[w] # NoClient
    BY <1>t, NoClientIsNone DEF ClientInv
  <1>2. \A v \in Workers : Cardinality(bound[v]) \in Nat /\ leaked[v] \in Nat
    <2> SUFFICES ASSUME NEW v \in Workers PROVE Cardinality(bound[v]) \in Nat /\ leaked[v] \in Nat
      OBVIOUS
    <2>1. bound[v] \in SUBSET Seconds /\ leaked[v] \in 0 .. MaxFds /\ 0 \in Seconds
      BY <1>t DEF TypeOK, Seconds
    <2>2. leaked[v] \in Nat
      BY <2>1
    <2>3. Cardinality(bound[v]) \in Nat
      BY <2>1, Ports
    <2> QED  BY <2>2, <2>3
  <1>3. leaked[w] + 1 <= MaxFds
    BY <1>t, <1>1, <1>2 DEF UsedInv, Used
  <1>4. leaked' \in [Workers -> 0 .. MaxFds]
    <2>1. leaked \in [Workers -> 0 .. MaxFds]
      BY <1>t DEF TypeOK
    <2>2. leaked[w] + 1 \in 0 .. MaxFds
      <3>1. leaked[w] \in Nat
        BY <1>2
      <3> QED  BY <3>1, <1>3
    <2>3. CASE leaked' = leaked
      BY <2>1, <2>3
    <2>4. CASE leaked' = [leaked EXCEPT ![w] = @ + 1]
      <3>1. \A v \in Workers : leaked'[v] \in 0 .. MaxFds
        <4> SUFFICES ASSUME NEW v \in Workers PROVE leaked'[v] \in 0 .. MaxFds
          OBVIOUS
        <4>1. CASE v = w
          BY <2>1, <2>2, <2>4, <4>1
        <4>2. CASE v # w
          BY <2>1, <2>4, <4>2
        <4> QED  BY <4>1, <4>2
      <3>2. leaked' = [v \in Workers |-> leaked'[v]]
        BY <2>1, <2>4
      <3> QED  BY <3>1, <3>2
    <2> QED  BY <2>3, <2>4
  <1>5. /\ wpc' \in [Workers -> {"none", "failed", "accept", "command", "spin", "dead"}]
        /\ conn' \in [Workers -> Clients \cup {NoClient}] /\ announced' \in [Workers -> BOOLEAN]
        /\ told' \in [Workers -> Dirs \cup {Unknown}]
    BY <1>t DEF TypeOK
  <1>6. TypeOK'
    BY <1>t, <1>4, <1>5 DEF TypeOK
  <1>7. ClientInv'
    BY <1>t DEF ClientInv, TypeOK
  <1>8. UsedInv'
    <2> SUFFICES ASSUME NEW v \in Workers PROVE Used(v)' <= MaxFds
      BY DEF UsedInv
    <2>1. CASE v = w
      <3>1. Used(w) = leaked[w] + Cardinality(bound[w]) + 1 /\ Used(w) <= MaxFds
        BY <1>t, <1>1 DEF Used, UsedInv
      <3>2. Used(w)' = leaked'[w] + Cardinality(bound[w])
        <4>1. conn'[w] = NoClient /\ bound'[w] = bound[w] /\ leaked'[w] \in Nat
          BY <1>t, <1>4 DEF TypeOK
        <4> QED  BY <4>1, <1>2 DEF Used
      <3>3. leaked'[w] <= leaked[w] + 1 /\ leaked'[w] \in Nat
        BY <1>t, <1>2 DEF TypeOK
      <3> QED  BY <2>1, <3>1, <3>2, <3>3, <1>2
    <2>2. CASE v # w
      <3>1. leaked'[v] = leaked[v] /\ bound'[v] = bound[v] /\ conn'[v] = conn[v]
        BY <2>2, <1>t DEF TypeOK
      <3> QED  BY <3>1, <1>t DEF UsedInv, Used
    <2> QED  BY <2>1, <2>2
  <1> QED  BY <1>6, <1>7, <1>8 DEF TypeInv

\* A step that leaves the descriptors of all workers as they are.
LEMMA SameFds ==
  ASSUME UsedInv, UNCHANGED <<leaked, bound, conn>>
  PROVE  UsedInv'
  BY DEF UsedInv, Used

\* A command that is read and answered within the session.
LEMMA ReadsType ==
  ASSUME TypeInv, NEW w \in Workers, NEW cmd, Reads(w, cmd)
  PROVE  /\ inbox' \in [Clients -> Seq(Commands)]
         /\ conn[w] \in Clients
         /\ ToClient(conn[w]) => replies' \in [Clients -> Nat]
  <1>1. conn[w] \in Clients
    BY DEF Reads, TypeInv, ClientInv
  <1>2. inbox' \in [Clients -> Seq(Commands)]
    BY <1>1 DEF Reads, TypeInv, TypeOK
  <1>3. ToClient(conn[w]) => replies' \in [Clients -> Nat]
    <2>1. replies \in [Clients -> Nat]
      BY DEF TypeInv, TypeOK
    <2> QED  BY <2>1, OneMore DEF ToClient
  <1> QED  BY <1>1, <1>2, <1>3

LEMMA StepType == TypeInv /\ [Next]_vars => TypeInv'
  <1> SUFFICES ASSUME TypeInv, [Next]_vars PROVE TypeInv'
    OBVIOUS
  <1> USE Sizes DEF clientVars, workerVars
  <1>t. TypeOK /\ ClientInv /\ UsedInv
    BY DEF TypeInv
  <1>1. CASE Fork
    <2>0. /\ wpc' \in [Workers -> {"none", "failed", "accept", "command", "spin", "dead"}]
          /\ forked' \in 0 .. PoolSize
      <3>1. /\ wpc \in [Workers -> {"none", "failed", "accept", "command", "spin", "dead"}]
            /\ forked \in Nat /\ forked < PoolSize /\ forked' = forked + 1
        BY <1>1, <1>t DEF Fork, TypeOK
      <3>2. forked' \in 0 .. PoolSize
        BY <3>1
      <3>3. CASE wpc' = [wpc EXCEPT ![forked + 1] = "accept"]
        BY <3>1, <3>2, <3>3
      <3>4. CASE wpc' = [wpc EXCEPT ![forked + 1] = "failed"]
        BY <3>1, <3>2, <3>4
      <3> QED  BY <1>1, <3>2, <3>3, <3>4 DEF Fork
    <2>1. TypeOK'
      BY <1>1, <2>0, <1>t DEF Fork, TypeOK
    <2>2. ClientInv'
      BY <1>1, <1>t DEF Fork, ClientInv, TypeOK
    <2> QED  BY <1>1, <2>1, <2>2, <1>t, SameFds DEF Fork, TypeInv
  <1>2. CASE InstallHandler
    BY <1>2, <1>t, SameFds DEF InstallHandler, TypeInv, TypeOK, ClientInv
  <1>3. CASE WaitReturns
    BY <1>3, <1>t, SameFds DEF WaitReturns, TypeInv, TypeOK, ClientInv
  <1>4. CASE Sigint
    <2>1. CASE master = "wait"
      <3>1. Killed /\ signals' = signals \cup {"handled"} \cup AlsoKilled
        BY <1>4, <2>1 DEF Sigint
      <3>2. signals' \subseteq {"early", "handled", "exit", "everyone", "group"}
        BY <3>1, <1>t DEF TypeOK, AlsoKilled
      <3>3. /\ wpc' \in [Workers -> {"none", "failed", "accept", "command", "spin", "dead"}]
            /\ conn' \in [Workers -> Clients \cup {NoClient}]
        BY <3>1, <1>t DEF Killed, Alive, TypeOK
      <3>4. /\ leaked' \in [Workers -> 0 .. MaxFds] /\ bound' \in [Workers -> SUBSET Seconds]
            /\ announced' \in [Workers -> BOOLEAN]
        BY <3>1 DEF Killed
      <3>5. dir' \in [Workers -> Dirs] /\ told' \in [Workers -> Dirs \cup {Unknown}]
        BY <3>1 DEF Killed, Dirs
      <3>6. TypeOK'
        BY <1>4, <3>1, <3>2, <3>3, <3>4, <3>5, <1>t DEF Sigint, Killed, TypeOK
      <3>7. ClientInv'
        BY <3>1, <1>t DEF Killed, Alive, ClientInv, TypeOK
      <3>8. UsedInv'
        BY <3>1, NoPorts DEF Killed, UsedInv, Used
      <3> QED  BY <3>6, <3>7, <3>8 DEF TypeInv
    <2>2. CASE master # "wait"
      BY <1>4, <2>2, <1>t, SameFds DEF Sigint, TypeInv, TypeOK, ClientInv
    <2> QED  BY <2>1, <2>2
  <1>5. ASSUME NEW w \in Workers, Accept(w) PROVE TypeInv'
    <2>1. Head(backlog) \in Clients /\ backlog' \in Seq(Clients)
      BY <1>5, <1>t DEF Accept, TypeOK
    <2>2. replies' \in [Clients -> Nat]
      <3>1. replies \in [Clients -> Nat]
        BY <1>t DEF TypeOK
      <3> QED  BY <1>5, <3>1, OneMore DEF Accept, ToClient
    <2>3. TypeOK'
      BY <1>5, <2>1, <2>2, <1>t DEF Accept, Goto, TypeOK
    <2>4. ClientInv'
      BY <1>5, <2>1, <1>t DEF Accept, Goto, ClientInv, TypeOK
    <2>5. UsedInv'
      <3> SUFFICES ASSUME NEW v \in Workers PROVE Used(v)' <= MaxFds
        BY DEF UsedInv
      <3>1. CASE v = w
        <4>1. /\ leaked[w] \in Nat /\ bound[w] \in SUBSET Seconds /\ 0 \in Seconds
              /\ leaked'[w] = leaked[w] /\ bound'[w] = bound[w]
          BY <1>5, <1>t DEF Accept, TypeOK, Seconds
        <4>2. Cardinality(bound[w]) \in Nat
          BY <4>1, Ports
        <4>3. leaked[w] + Cardinality(bound[w]) + (IF conn[w] = NoClient THEN 0 ELSE 1) < MaxFds
          BY <1>5 DEF Accept, Used
        <4>4. leaked[w] + Cardinality(bound[w]) + 1 <= MaxFds
          BY <4>1, <4>2, <4>3
        <4>5. leaked[w] + Cardinality(bound[w]) + 0 <= MaxFds
          BY <4>1, <4>2, <4>4
        <4> QED  BY <3>1, <4>1, <4>4, <4>5 DEF Used
      <3>2. CASE v # w
        <4>1. leaked'[v] = leaked[v] /\ bound'[v] = bound[v] /\ conn'[v] = conn[v]
          BY <1>5, <3>2, <1>t DEF Accept, TypeOK
        <4> QED  BY <4>1, <1>t DEF UsedInv, Used
      <3> QED  BY <3>1, <3>2
    <2> QED  BY <2>3, <2>4, <2>5 DEF TypeInv
  <1>6. ASSUME NEW w \in Workers, AcceptFails(w) PROVE TypeInv'
    BY <1>6, <1>t, SameFds DEF AcceptFails, Goto, TypeInv, TypeOK, ClientInv
  <1>7. ASSUME NEW w \in Workers, Simple(w) PROVE TypeInv'
    BY <1>7, <1>t, ReadsType, SameFds DEF Simple, Reads, TypeInv, TypeOK, ClientInv
  <1>8. ASSUME NEW w \in Workers, Pwd(w) PROVE TypeInv'
    <2>1. told' \in [Workers -> Dirs \cup {Unknown}]
      BY <1>8, <1>t DEF Pwd, TypeOK
    <2> QED  BY <1>8, <2>1, <1>t, ReadsType, SameFds DEF Pwd, Reads, TypeInv, TypeOK, ClientInv
  <1>9. ASSUME NEW w \in Workers, Cwd(w) PROVE TypeInv'
    <2>1. dir' \in [Workers -> Dirs] /\ told' \in [Workers -> Dirs \cup {Unknown}]
      <3>1. /\ dir \in [Workers -> Dirs] /\ told \in [Workers -> Dirs \cup {Unknown}]
        BY <1>t DEF TypeOK
      <3>2. CASE UNCHANGED <<dir, told>>
        BY <3>1, <3>2
      <3>3. ASSUME NEW d \in Dirs, dir' = [dir EXCEPT ![w] = d], told' = [told EXCEPT ![w] = d]
            PROVE  dir' \in [Workers -> Dirs] /\ told' \in [Workers -> Dirs \cup {Unknown}]
        BY <3>1, <3>3
      <3> QED  BY <1>9, <3>2, <3>3 DEF Cwd
    <2> QED  BY <1>9, <2>1, <1>t, ReadsType, SameFds DEF Cwd, Reads, TypeInv, TypeOK, ClientInv
  <1>10. ASSUME NEW w \in Workers, Pasv(w) PROVE TypeInv'
    <2>1. Reads(w, "PASV")
      BY <1>10 DEF Pasv
    <2>2. inbox' \in [Clients -> Seq(Commands)]
      BY <2>1, ReadsType
    <2>3. CASE Used(w) < MaxFds /\ \A v \in Workers : now \notin bound[v]
      <3>1. /\ bound' = [bound EXCEPT ![w] = @ \cup {now}]
            /\ announced' = [announced EXCEPT ![w] = TRUE] /\ ToClient(conn[w])
            /\ UNCHANGED <<wpc, listens, conn, leaked, dir, told, nameless, signals>>
        BY <1>10, <2>3 DEF Pasv
      <3>2. replies' \in [Clients -> Nat]
        BY <2>1, <3>1, ReadsType
      <3>3. bound' \in [Workers -> SUBSET Seconds] /\ announced' \in [Workers -> BOOLEAN]
        BY <3>1, <1>t DEF TypeOK
      <3>4. TypeOK'
        BY <2>1, <2>2, <3>1, <3>2, <3>3, <1>t DEF Reads, TypeOK
      <3>5. ClientInv'
        BY <3>1, <1>t DEF ClientInv
      <3>6. UsedInv'
        <4> SUFFICES ASSUME NEW v \in Workers PROVE Used(v)' <= MaxFds
          BY DEF UsedInv
        <4>1. CASE v = w
          <5>1. /\ leaked[w] \in Nat /\ bound[w] \in SUBSET Seconds /\ now \in Seconds
                /\ bound'[w] = bound[w] \cup {now}
            BY <3>1, <1>t DEF TypeOK
          <5>2. /\ Cardinality(bound[w]) \in Nat /\ Cardinality(bound'[w]) \in Nat
                /\ Cardinality(bound'[w]) <= Cardinality(bound[w]) + 1
            BY <5>1, Ports
          <5>3. CASE conn[w] = NoClient
            BY <2>3, <3>1, <4>1, <5>1, <5>2, <5>3 DEF Used
          <5>4. CASE conn[w] # NoClient
            BY <2>3, <3>1, <4>1, <5>1, <5>2, <5>4 DEF Used
          <5> QED  BY <5>3, <5>4
        <4>2. CASE v # w
          <5>1. leaked'[v] = leaked[v] /\ bound'[v] = bound[v] /\ conn'[v] = conn[v]
            BY <3>1, <4>2, <1>t DEF TypeOK
          <5> QED  BY <5>1, <1>t DEF UsedInv, Used
        <4> QED  BY <4>1, <4>2
      <3> QED  BY <3>4, <3>5, <3>6 DEF TypeInv
    <2>4. CASE ~(Used(w) < MaxFds /\ \A v \in Workers : now \notin bound[v])
      <3>1. Exit(w) /\ UNCHANGED replies
        BY <1>10, <2>4 DEF Pasv
      <3> QED  BY <2>1, <2>2, <3>1, ExitType DEF Reads
    <2> QED  BY <2>3, <2>4
  <1>11. ASSUME NEW w \in Workers, NEW cmd, Reads(w, cmd), Transfer(w) PROVE TypeInv'
    <2>1. Exit(w) /\ UNCHANGED replies
      BY <1>11 DEF Transfer, SockPasv
    <2>2. inbox' \in [Clients -> Seq(Commands)]
      BY <1>11, ReadsType
    <2> QED  BY <1>11, <2>1, <2>2, ExitType DEF Reads
  <1>12. ASSUME NEW w \in Workers, List(w) PROVE TypeInv'
    <2>1. Reads(w, "LIST")
      BY <1>12 DEF List
    <2>2. CASE ~Transfer(w)
      <3>1. /\ ToClient(conn[w])
            /\ UNCHANGED <<wpc, listens, conn, leaked, bound, announced, told, signals>>
            /\ nameless' = nameless \/ nameless' = nameless \cup ({dir[w]} \cap Losable)
        BY <1>12, <2>2 DEF List
      <3>2. PICK d \in Dirs : dir' = [dir EXCEPT ![w] = IF @ \in nameless' THEN d ELSE @]
        BY <1>12, <2>2 DEF List
      <3>3. dir' \in [Workers -> Dirs] /\ nameless' \subseteq Losable
        BY <3>1, <3>2, <1>t DEF TypeOK
      <3> QED  BY <2>1, <3>1, <3>3, <1>t, ReadsType, SameFds DEF Reads, TypeInv, TypeOK, ClientInv
    <2> QED  BY <2>1, <2>2, <1>11
  <1>13. ASSUME NEW w \in Workers, Retr(w) PROVE TypeInv'
    BY <1>13, <1>11 DEF Retr
  <1>14. ASSUME NEW w \in Workers, RetrMissing(w) PROVE TypeInv'
    <2>1. Reads(w, "RETR") /\ wpc[w] = "command"
      BY <1>14 DEF RetrMissing, Reads
    <2>2. inbox' \in [Clients -> Seq(Commands)]
      BY <2>1, ReadsType
    <2>3. listens' \in [Workers -> BOOLEAN]
      BY <1>14, <1>t DEF RetrMissing, TypeOK
    <2>4. CASE ToClient(conn[w]) /\ UNCHANGED <<wpc, conn, announced, told>>
      <3>1. replies' \in [Clients -> Nat]
        BY <2>1, <2>4, ReadsType
      <3> QED  BY <1>14, <2>1, <2>2, <2>3, <2>4, <3>1, <1>t, SameFds
                  DEF RetrMissing, Reads, TypeInv, TypeOK, ClientInv
    <2>5. CASE EndSession(w) /\ UNCHANGED replies
      <3>1. replies' \in [Clients -> Nat]
        BY <2>5, <1>t DEF TypeOK
      <3>2. UNCHANGED <<leaked, bound, dir, nameless, master, forked, now, backlog, cmds, pipelined,
                    skipped, closed, signals>>
        BY <1>14, <2>1 DEF RetrMissing, Reads
      <3> QED  BY <2>1, <2>2, <2>3, <2>5, <3>1, <3>2, EndType
    <2> QED  BY <1>14, <2>4, <2>5 DEF RetrMissing
  <1>15. ASSUME NEW w \in Workers, Quit(w) PROVE TypeInv'
    <2>1. Reads(w, "QUIT") /\ wpc[w] = "command" /\ EndSession(w) /\ ToClient(conn[w])
      BY <1>15 DEF Quit, Reads
    <2>2. inbox' \in [Clients -> Seq(Commands)] /\ replies' \in [Clients -> Nat]
      BY <2>1, ReadsType
    <2>3. listens' \in [Workers -> BOOLEAN]
      BY <1>15, <1>t DEF Quit, TypeOK
    <2>4. UNCHANGED <<leaked, bound, dir, nameless, master, forked, now, backlog, cmds, pipelined,
                    skipped, closed, signals>>
      BY <1>15, <2>1 DEF Quit, Reads
    <2> QED  BY <2>1, <2>2, <2>3, <2>4, EndType
  <1>16. ASSUME NEW w \in Workers, Eof(w) PROVE TypeInv'
    <2>1. /\ wpc[w] = "command" /\ EndSession(w) /\ leaked' = [leaked EXCEPT ![w] = @ + 1]
          /\ UNCHANGED <<bound, dir, nameless, master, forked, now, backlog, cmds, pipelined, skipped,
                       closed, signals>>
      BY <1>16 DEF Eof
    <2>2. /\ listens' \in [Workers -> BOOLEAN] /\ inbox' \in [Clients -> Seq(Commands)]
          /\ replies' \in [Clients -> Nat]
      BY <1>16, <1>t DEF Eof, TypeOK
    <2> QED  BY <2>1, <2>2, EndType
  <1>17. CASE Tick
    BY <1>17, <1>t, SameFds DEF Tick, TypeInv, TypeOK, ClientInv, Seconds
  <1>18. ASSUME NEW c \in Clients, Connect(c) PROVE TypeInv'
    <2>1. backlog' \in Seq(Clients)
      BY <1>18, <1>t DEF Connect, TypeOK
    <2> QED  BY <1>18, <2>1, <1>t, SameFds DEF Connect, TypeInv, TypeOK, ClientInv
  <1>19. ASSUME NEW c \in Clients, Send(c) PROVE TypeInv'
    <2>1. inbox' \in [Clients -> Seq(Commands)]
      <3>1. PICK cmd \in Commands : inbox' = [inbox EXCEPT ![c] = IF @ = <<>> \/ cmd = "long" THEN <<cmd>> ELSE @]
        BY <1>19 DEF Send
      <3>2. <<cmd>> \in Seq(Commands)
        OBVIOUS
      <3> QED  BY <3>1, <3>2, <1>t DEF TypeOK
    <2>2. cmds' \in [Clients -> 0 .. MaxCmds]
      BY <1>19, <1>t DEF Send, TypeOK
    <2>3. pipelined' \subseteq Clients
      BY <1>19, <1>t DEF Send, TypeOK
    <2> QED  BY <1>19, <2>1, <2>2, <2>3, <1>t, SameFds DEF Send, TypeInv, TypeOK, ClientInv
  <1>20. ASSUME NEW c \in Clients, Close(c) PROVE TypeInv'
    BY <1>20, <1>t, SameFds DEF Close, TypeInv, TypeOK, ClientInv
  <1>21. ASSUME NEW w \in Workers, Long(w) PROVE TypeInv'
    <2>1. conn[w] \in Clients
      BY <1>21, <1>t DEF Long, ClientInv
    <2>2. inbox' \in [Clients -> Seq(Commands)]
      <3>1. ASSUME NEW cmd \in Commands PROVE <<cmd>> \in Seq(Commands)
        OBVIOUS
      <3>2. \A cmd \in Shorts : <<cmd>> \in Seq(Commands)
        BY <3>1 DEF Commands
      <3>3. inbox \in [Clients -> Seq(Commands)] /\ <<>> \in Seq(Commands)
        BY <1>t DEF TypeOK
      <3>4. ASSUME NEW s \in Seq(Commands), inbox' = [inbox EXCEPT ![conn[w]] = s]
            PROVE  inbox' \in [Clients -> Seq(Commands)]
        BY <3>3, <3>4
      <3> QED  BY <1>21, <3>2, <3>3, <3>4 DEF Long
    <2>3. skipped' \subseteq Clients
      BY <1>21, <2>1, <1>t DEF Long, TypeOK
    <2> QED  BY <1>21, <2>2, <2>3, <1>t, SameFds DEF Long, TypeInv, TypeOK, ClientInv
  <1>22. ASSUME NEW d \in Losable, Lose(d) PROVE TypeInv'
    BY <1>22, <1>t, SameFds DEF Lose, TypeInv, TypeOK, ClientInv
  <1>23. CASE UNCHANGED vars
    BY <1>23, <1>t, SameFds DEF vars, TypeInv, TypeOK, ClientInv
  <1> QED
    BY <1>1, <1>2, <1>3, <1>4, <1>5, <1>6, <1>7, <1>8, <1>9, <1>10, <1>12, <1>13, <1>14, <1>15,
       <1>16, <1>17, <1>18, <1>19, <1>20, <1>21, <1>22, <1>23 DEF Next, Master, Worker, Client

\* The pool stays well typed for any number of workers, clients and commands,
\* and no worker ever has more descriptors than the system gives it.
THEOREM TypeCorrect == Spec => []TypeOK
  <1>1. TypeInv => TypeOK
    BY DEF TypeInv
  <1> QED  BY InitType, StepType, <1>1, PTL DEF Spec

----------------------------------------------------------------------------
(* What a client has been told. *)

LEMMA ToldStep == TypeInv /\ ToldIsTrue /\ [Next]_vars => ToldIsTrue'
  <1> SUFFICES ASSUME TypeInv, ToldIsTrue, [Next]_vars,
                      NEW v \in Workers, told'[v] \notin nameless' \cup {Unknown}
               PROVE  dir'[v] = told'[v]
    BY DEF ToldIsTrue
  <1>t. /\ dir \in [Workers -> Dirs] /\ told \in [Workers -> Dirs \cup {Unknown}]
    BY DEF TypeInv, TypeOK
  \* A worker that keeps its directory and what its client knows.
  <1>k. ASSUME dir'[v] = dir[v], told'[v] = told[v], nameless \subseteq nameless'
        PROVE  dir'[v] = told'[v]
    BY <1>k DEF ToldIsTrue
  <1>x. ASSUME NEW w \in Workers, Exit(w) PROVE dir'[v] = told'[v]
    <2>1. CASE v = w
      BY <1>x, <1>t, <2>1 DEF Exit
    <2>2. CASE v # w
      BY <1>x, <1>t, <1>k, <2>2 DEF Exit
    <2> QED  BY <2>1, <2>2
  <1>e. ASSUME NEW w \in Workers, EndSession(w), UNCHANGED <<dir, nameless>> PROVE dir'[v] = told'[v]
    <2>1. CASE v = w
      BY <1>e, <1>t, <2>1 DEF EndSession
    <2>2. CASE v # w
      BY <1>e, <1>t, <1>k, <2>2 DEF EndSession
    <2> QED  BY <2>1, <2>2
  <1>1. CASE Fork \/ InstallHandler \/ WaitReturns \/ Tick \/ UNCHANGED vars
    BY <1>1, <1>k DEF Fork, InstallHandler, WaitReturns, Tick, vars, workerVars
  <1>2. CASE Sigint
    <2>1. CASE master = "wait"
      BY <1>2, <2>1 DEF Sigint, Killed
    <2>2. CASE master # "wait"
      BY <1>2, <2>2, <1>k DEF Sigint, workerVars
    <2> QED  BY <2>1, <2>2
  <1>3. ASSUME NEW c \in Clients, Client(c) PROVE dir'[v] = told'[v]
    BY <1>3, <1>k DEF Client, Connect, Send, Close, workerVars
  <1>4. ASSUME NEW w \in Workers, Accept(w) \/ AcceptFails(w) \/ Long(w) \/ Simple(w)
        PROVE  dir'[v] = told'[v]
    BY <1>4, <1>k DEF Accept, AcceptFails, Long, Simple, workerVars
  <1>5. ASSUME NEW w \in Workers, Pwd(w) PROVE dir'[v] = told'[v]
    <2>1. /\ dir' = dir /\ nameless' = nameless
          /\ told' = [told EXCEPT ![w] = dir[w]] \/ told' = told
      BY <1>5 DEF Pwd
    <2>2. CASE v = w /\ told' = [told EXCEPT ![w] = dir[w]]
      BY <2>1, <2>2, <1>t
    <2>3. CASE v # w \/ told' = told
      BY <2>1, <2>3, <1>t, <1>k
    <2> QED  BY <2>1, <2>2, <2>3
  <1>6. ASSUME NEW w \in Workers, Cwd(w) PROVE dir'[v] = told'[v]
    <2>1. ASSUME NEW d \in Dirs, dir' = [dir EXCEPT ![w] = d], told' = [told EXCEPT ![w] = d],
                 nameless' = nameless
          PROVE  dir'[v] = told'[v]
      <3>1. CASE v = w
        BY <2>1, <3>1, <1>t
      <3>2. CASE v # w
        BY <2>1, <3>2, <1>t, <1>k
      <3> QED  BY <3>1, <3>2
    <2>2. nameless' = nameless
      BY <1>6 DEF Cwd
    <2> QED  BY <1>6, <1>k, <2>1, <2>2 DEF Cwd
  <1>7. ASSUME NEW w \in Workers, Transfer(w) PROVE dir'[v] = told'[v]
    BY <1>7, <1>x DEF Transfer, SockPasv
  <1>8. ASSUME NEW w \in Workers, Pasv(w) PROVE dir'[v] = told'[v]
    <2>1. Exit(w) \/ UNCHANGED <<dir, told, nameless>>
      BY <1>8 DEF Pasv
    <2> QED  BY <2>1, <1>k, <1>x
  <1>9. ASSUME NEW w \in Workers, List(w) PROVE dir'[v] = told'[v]
    <2>1. CASE ~Transfer(w)
      <3>1. told' = told /\ nameless \subseteq nameless'
        BY <1>9, <2>1 DEF List
      <3>2. PICK d \in Dirs : dir' = [dir EXCEPT ![w] = IF @ \in nameless' THEN d ELSE @]
        BY <1>9, <2>1 DEF List
      \* What it was told is no directory that has lost its path, so the worker
      \* is there, and comes back.
      <3>3. dir[v] = told[v] /\ dir[v] \notin nameless'
        BY <3>1 DEF ToldIsTrue
      <3>4. dir'[v] = dir[v]
        BY <3>2, <3>3, <1>t
      <3> QED  BY <3>1, <3>3, <3>4
    <2> QED  BY <2>1, <1>7
  <1>10. ASSUME NEW w \in Workers, Retr(w) PROVE dir'[v] = told'[v]
    BY <1>10, <1>7 DEF Retr
  <1>11. ASSUME NEW w \in Workers, RetrMissing(w) PROVE dir'[v] = told'[v]
    BY <1>11, <1>k, <1>e DEF RetrMissing
  <1>12. ASSUME NEW w \in Workers, Quit(w) \/ Eof(w) PROVE dir'[v] = told'[v]
    BY <1>12, <1>e DEF Quit, Eof
  <1>13. ASSUME NEW d \in Losable, Lose(d) PROVE dir'[v] = told'[v]
    BY <1>13, <1>k DEF Lose
  <1> QED
    BY <1>1, <1>2, <1>3, <1>4, <1>5, <1>6, <1>8, <1>9, <1>10, <1>11, <1>12, <1>13
       DEF Next, Master, Worker

\* Where PWD and CWD have told a client that it is, the worker stays until the
\* client moves it: LIST, which goes elsewhere and back with chdir() calls it
\* does not check, loses the place only where the directory has lost its path.
THEOREM ToldStaysTrue == Spec => []ToldIsTrue
  <1>1. Init => ToldIsTrue
    BY DEF Init, ToldIsTrue
  <1> QED  BY <1>1, InitType, StepType, ToldStep, PTL DEF Spec

----------------------------------------------------------------------------
(* The end of the pool. *)

\* Nobody waits before all are forked, who is not forked yet is in no state,
\* and a dead worker has either left by itself or been killed by the handler,
\* which is the end of the master.
PoolInv ==
    /\ master = "wait" => forked = PoolSize
    /\ \A w \in Workers : wpc[w] = "none" <=> w > forked
    /\ (\E w \in Workers : wpc[w] = "dead") => signals \cap {"exit", "handled"} # {}
    /\ "handled" \in signals => master = "gone"
    /\ PoolEndsTogether

\* A worker's step changes nothing of the others, and ends it only by exit().
LEMMA WorkerStep ==
  ASSUME TypeInv, NEW w \in Workers, Worker(w)
  PROVE  /\ Alive(w) /\ UNCHANGED <<master, forked>>
         /\ \A v \in Workers : v # w => wpc'[v] = wpc[v]
         /\ \/ wpc'[w] \in {"accept", "command", "spin"} /\ signals' = signals
            \/ wpc'[w] = "dead" /\ signals' = signals \cup {"exit"}
  <1>t. wpc \in [Workers -> {"none", "failed", "accept", "command", "spin", "dead"}]
    BY DEF TypeInv, TypeOK
  <1> DEFINE Goal == /\ Alive(w) /\ UNCHANGED <<master, forked>>
                     /\ \A v \in Workers : v # w => wpc'[v] = wpc[v]
                     /\ \/ wpc'[w] \in {"accept", "command", "spin"} /\ signals' = signals
                        \/ wpc'[w] = "dead" /\ signals' = signals \cup {"exit"}
  <1>x. ASSUME wpc[w] = "command", Exit(w), UNCHANGED <<master, forked>> PROVE Goal
    BY <1>x, <1>t DEF Exit, Alive
  <1>e. ASSUME wpc[w] = "command", EndSession(w), UNCHANGED <<master, forked, signals>> PROVE Goal
    BY <1>e, <1>t DEF EndSession, Alive
  <1>s. ASSUME wpc[w] = "command", UNCHANGED <<master, forked, signals, wpc>> PROVE Goal
    BY <1>s DEF Alive
  <1>1. CASE Accept(w)
    BY <1>1, <1>t DEF Accept, Goto, Alive
  <1>2. CASE AcceptFails(w)
    BY <1>2, <1>t DEF AcceptFails, Goto, Alive
  <1>3. CASE Long(w) \/ Simple(w) \/ Pwd(w) \/ Cwd(w)
    BY <1>3, <1>s DEF Long, Simple, Pwd, Cwd, Reads
  <1>4. CASE Pasv(w)
    BY <1>4, <1>s, <1>x DEF Pasv, Reads
  <1>5. ASSUME NEW cmd, Reads(w, cmd), Transfer(w) PROVE Goal
    BY <1>5, <1>x DEF Transfer, SockPasv, Reads
  <1>6. CASE List(w)
    BY <1>6, <1>5, <1>s DEF List, Reads
  <1>7. CASE Retr(w)
    BY <1>7, <1>5 DEF Retr
  <1>8. CASE RetrMissing(w)
    BY <1>8, <1>s, <1>e DEF RetrMissing, Reads
  <1>9. CASE Quit(w)
    BY <1>9, <1>e DEF Quit, Reads
  <1>10. CASE Eof(w)
    BY <1>10, <1>e DEF Eof
  <1> QED  BY <1>1, <1>2, <1>3, <1>4, <1>6, <1>7, <1>8, <1>9, <1>10 DEF Worker

LEMMA PoolStep == TypeInv /\ PoolInv /\ [Next]_vars => PoolInv'
  <1> SUFFICES ASSUME TypeInv, PoolInv, [Next]_vars PROVE PoolInv'
    OBVIOUS
  <1> USE Sizes
  <1>t. /\ wpc \in [Workers -> {"none", "failed", "accept", "command", "spin", "dead"}]
        /\ master \in {"fork", "wait", "gone"} /\ forked \in 0 .. PoolSize
    BY DEF TypeInv, TypeOK
  <1>s. ASSUME UNCHANGED <<master, forked, wpc, signals>> PROVE PoolInv'
    BY <1>s DEF PoolInv, PoolEndsTogether, Alive
  <1>1. CASE Fork
    <2>1. /\ master = "fork" /\ master' = "fork" /\ signals' = signals /\ "handled" \notin signals
          /\ forked \in Nat /\ forked < PoolSize /\ forked' = forked + 1
      BY <1>1, <1>t DEF Fork, PoolInv
    <2>2. PICK p \in {"accept", "failed"} : wpc' = [wpc EXCEPT ![forked + 1] = p]
      BY <1>1 DEF Fork
    <2>3. forked + 1 \in Workers /\ wpc[forked + 1] = "none"
      BY <2>1 DEF PoolInv, Workers
    <2>4. \A v \in Workers : wpc'[v] = "none" <=> v > forked'
      <3> SUFFICES ASSUME NEW v \in Workers PROVE wpc'[v] = "none" <=> v > forked'
        OBVIOUS
      <3>1. CASE v = forked + 1
        BY <2>1, <2>2, <2>3, <3>1, <1>t
      <3>2. CASE v # forked + 1
        BY <2>1, <2>2, <3>2, <1>t DEF PoolInv, Workers
      <3> QED  BY <3>1, <3>2
    <2>5. \A v \in Workers : wpc'[v] = "dead" => wpc[v] = "dead"
      BY <2>2, <1>t
    <2>6. \A v \in Workers : wpc[v] = "failed" => wpc'[v] = "failed"
      BY <2>2, <2>3, <1>t
    <2> QED  BY <2>1, <2>4, <2>5, <2>6 DEF PoolInv, PoolEndsTogether
  <1>2. CASE InstallHandler
    BY <1>2, <1>t DEF InstallHandler, PoolInv, PoolEndsTogether, Alive
  <1>3. CASE WaitReturns
    <2>1. /\ master = "wait" /\ master' = "gone" /\ UNCHANGED <<forked, wpc, signals>>
          /\ "handled" \notin signals
      BY <1>3 DEF WaitReturns, PoolInv
    <2>2. (\E w \in Workers : Alive(w)) => "exit" \in signals
      BY <1>3, <2>1 DEF WaitReturns, PoolInv, Alive
    <2> QED  BY <2>1, <2>2 DEF PoolInv, PoolEndsTogether, Alive
  <1>4. CASE Sigint
    <2>1. CASE master = "wait"
      <3>1. /\ Killed /\ signals' = signals \cup {"handled"} \cup AlsoKilled
            /\ master' = "gone" /\ forked' = forked
        BY <1>4, <2>1 DEF Sigint
      <3>2. \A v \in Workers : wpc[v] # "none"
        BY <2>1 DEF PoolInv, Workers
      <3>3. \A v \in Workers : wpc'[v] = IF Alive(v) THEN "dead" ELSE wpc[v]
        BY <3>1 DEF Killed
      <3>4. \A v \in Workers : ~Alive(v)' /\ wpc'[v] # "none" /\ (wpc[v] = "failed" => wpc'[v] = "failed")
        BY <3>2, <3>3, <1>t DEF Alive
      <3>5. "group" \notin AlsoKilled
        BY <3>2 DEF AlsoKilled
      <3>6. "everyone" \in AlsoKilled => \E v \in Workers : wpc[v] = "failed"
        BY DEF AlsoKilled
      <3>7. "group" \notin signals' /\ "handled" \in signals'
        BY <3>1, <3>5 DEF PoolInv, PoolEndsTogether
      <3>8. "everyone" \in signals' => \E v \in Workers : wpc'[v] = "failed"
        BY <3>1, <3>4, <3>6 DEF PoolInv, PoolEndsTogether
      <3>9. \A v \in Workers : wpc'[v] = "none" <=> v > forked'
        BY <3>1, <3>2, <3>4 DEF PoolInv
      <3> QED  BY <3>1, <3>4, <3>7, <3>8, <3>9 DEF PoolInv, PoolEndsTogether
    <2>2. CASE master # "wait"
      <3>1. /\ master # "gone" /\ master' = "gone" /\ signals' = signals \cup {"early"}
            /\ UNCHANGED <<forked, wpc>>
        BY <1>4, <2>2 DEF Sigint
      <3> QED  BY <3>1 DEF PoolInv, PoolEndsTogether, Alive
    <2> QED  BY <2>1, <2>2
  <1>5. ASSUME NEW w \in Workers, Worker(w) PROVE PoolInv'
    <2>1. /\ Alive(w) /\ UNCHANGED <<master, forked>>
          /\ \A v \in Workers : v # w => wpc'[v] = wpc[v]
      BY <1>5, WorkerStep
    <2>2. "handled" \notin signals
      BY <2>1 DEF PoolInv, PoolEndsTogether
    <2>3. CASE wpc'[w] \in {"accept", "command", "spin"} /\ signals' = signals
      BY <2>1, <2>2, <2>3 DEF PoolInv, PoolEndsTogether, Alive
    <2>4. CASE wpc'[w] = "dead" /\ signals' = signals \cup {"exit"}
      <3>1. \A v \in Workers : wpc'[v] = "none" <=> v > forked'
        BY <2>1, <2>4 DEF PoolInv, Alive
      <3>2. \A v \in Workers : wpc[v] = "failed" => wpc'[v] = "failed"
        BY <2>1 DEF Alive
      <3> QED  BY <2>1, <2>2, <2>4, <3>1, <3>2 DEF PoolInv, PoolEndsTogether
    <2> QED  BY <1>5, <2>3, <2>4, WorkerStep
  <1>6. CASE Tick \/ UNCHANGED vars
    BY <1>6, <1>s DEF Tick, vars
  <1>7. ASSUME NEW c \in Clients, Client(c) PROVE PoolInv'
    BY <1>7, <1>s DEF Client, Connect, Send, Close
  <1>8. ASSUME NEW d \in Losable, Lose(d) PROVE PoolInv'
    BY <1>8, <1>s DEF Lose
  <1> QED  BY <1>1, <1>2, <1>3, <1>4, <1>5, <1>6, <1>7, <1>8 DEF Next, Master

\* close_serv kills every worker and nobody it does not know of unless a fork
\* has failed, and workers outlive their master only after an early SIGINT or
\* the exit of one of them.
THEOREM PoolEnds == Spec => []PoolEndsTogether
  <1>1. Init => PoolInv
    BY Sizes DEF Init, PoolInv, PoolEndsTogether, Alive, Workers
  <1>2. PoolInv => PoolEndsTogether
    BY DEF PoolInv
  <1> QED  BY <1>1, <1>2, InitType, StepType, PoolStep, PTL DEF Spec

----------------------------------------------------------------------------
(* Commands and replies. *)

\* A client waits in the backlog once, or is with one worker.
OneWorker == \A v, w \in Workers : conn[v] = conn[w] /\ conn[w] # NoClient => v = w
QueueOnce == \A i, j \in 1 .. Len(backlog) : backlog[i] = backlog[j] => i = j
QueueFree == \A i \in 1 .. Len(backlog), w \in Workers : backlog[i] # conn[w]

\* Nobody is ahead of its commands by more than the welcome, and by nothing
\* while one of them is still to be read.
NoneAhead == \A c \in Clients :
                 /\ replies[c] <= cmds[c] + 1
                 /\ inbox[c] # <<>> => replies[c] <= cmds[c] /\ cmds[c] >= 1

\* Whoever has not been accepted has no reply, and cannot have waited for one
\* if it has sent a command.
QueuedInv == \A i \in 1 .. Len(backlog) :
                 /\ replies[backlog[i]] = 0
                 /\ backlog[i] \notin pipelined => cmds[backlog[i]] = 0
                 /\ backlog[i] \notin skipped

\* The replies of a client that waits for each, while it is served.
Due(c) == IF inbox[c] = <<>> /\ c \notin skipped THEN cmds[c] + 1 ELSE cmds[c]

\* Such a client has one command to be read, or none; and none any more when
\* it waits for the reply to one that was skipped.
WaitingInv == \A w \in Workers, c \in Clients :
                 conn[w] = c /\ c \notin pipelined
                    => replies[c] = Due(c) /\ (c \in skipped => inbox[c] = <<>>)

\* Who has a command that was skipped has sent one.
SkippedInv == \A c \in skipped : cmds[c] >= 1

LockInv == OneWorker /\ QueueOnce /\ QueueFree /\ NoneAhead /\ QueuedInv /\ WaitingInv /\ SkippedInv

LEMMA InitLock == Init => LockInv
  <1> SUFFICES ASSUME Init PROVE LockInv
    OBVIOUS
  <1>1. Len(backlog) = 0 /\ \A w \in Workers : conn[w] \notin Clients
    BY NoClientIsNone DEF Init
  <1>2. (\A c \in Clients : replies[c] = 0 /\ cmds[c] = 0 /\ inbox[c] = <<>>) /\ skipped = {}
    BY DEF Init
  <1>3. OneWorker /\ QueueOnce /\ QueueFree /\ QueuedInv
    BY <1>1 DEF Init, OneWorker, QueueOnce, QueueFree, QueuedInv
  <1>4. NoneAhead
    BY <1>2 DEF NoneAhead
  <1>5. WaitingInv /\ SkippedInv
    BY <1>1, <1>2 DEF WaitingInv, SkippedInv
  <1> QED  BY <1>3, <1>4, <1>5 DEF LockInv

\* Counts are numbers.
LEMMA Counts ==
  ASSUME TypeInv, NEW c \in Clients
  PROVE  replies[c] \in Nat /\ cmds[c] \in Nat
  BY DEF TypeInv, TypeOK

\* Sessions may end, and nothing else happens to anybody.
LEMMA SessionsEnd ==
  ASSUME LockInv, UNCHANGED <<backlog, inbox, cmds, replies, pipelined, skipped>>,
         \A w \in Workers : conn'[w] = conn[w] \/ conn'[w] = NoClient,
         backlog \in Seq(Clients)
  PROVE  LockInv'
  <1>1. \A i \in 1 .. Len(backlog) : backlog[i] # NoClient
    BY NoClientIsNone
  <1>2. OneWorker' /\ QueueFree'
    BY <1>1 DEF LockInv, OneWorker, QueueFree
  <1>3. WaitingInv'
    BY NoClientIsNone DEF LockInv, WaitingInv, Due
  <1> QED  BY <1>2, <1>3 DEF LockInv, QueueOnce, NoneAhead, QueuedInv, SkippedInv

\* A worker reads a command of its client and answers it, or ends the session.
LEMMA CommandServed ==
  ASSUME TypeInv, LockInv, NEW w \in Workers, NEW cmd, Reads(w, cmd),
         \A v \in Workers : conn'[v] = conn[v] \/ conn'[v] = NoClient,
         \/ ToClient(conn[w])
         \/ replies' = replies /\ conn'[w] = NoClient
  PROVE  LockInv'
  <1> DEFINE c == conn[w]
  <1>1. c \in Clients /\ inbox[c] # <<>>
    BY DEF Reads, TypeInv, ClientInv
  <1>2. /\ inbox'[c] = <<>> /\ \A d \in Clients : d # c => inbox'[d] = inbox[d]
        /\ UNCHANGED <<backlog, cmds, pipelined, skipped>>
    BY <1>1 DEF Reads, TypeInv, TypeOK
  <1>3. \A d \in Clients : d # c => replies'[d] = replies[d]
    BY <1>1 DEF ToClient, TypeInv, TypeOK
  <1>4. replies'[c] = replies[c] \/ replies'[c] = replies[c] + 1
    BY <1>1 DEF ToClient, TypeInv, TypeOK
  <1>5. replies[c] <= cmds[c]
    BY <1>1 DEF LockInv, NoneAhead
  <1>6. \A i \in 1 .. Len(backlog) : backlog[i] # c /\ backlog[i] \in Clients /\ backlog[i] # NoClient
    BY NoClientIsNone DEF LockInv, QueueFree, TypeInv, TypeOK
  <1>a. OneWorker' /\ QueueOnce' /\ QueueFree'
    BY <1>2, <1>6 DEF LockInv, OneWorker, QueueOnce, QueueFree
  <1>b. NoneAhead'
    <2> SUFFICES ASSUME NEW d \in Clients
                 PROVE  /\ replies'[d] <= cmds'[d] + 1
                        /\ inbox'[d] # <<>> => replies'[d] <= cmds'[d] /\ cmds'[d] >= 1
      BY DEF NoneAhead
    <2>1. CASE d = c
      <3>1. replies[c] \in Nat /\ cmds[c] \in Nat
        BY <1>1, Counts
      <3>2. replies'[c] <= cmds[c] + 1
        BY <3>1, <1>4, <1>5
      <3> QED  BY <3>2, <2>1, <1>2
    <2>2. CASE d # c
      BY <2>2, <1>2, <1>3 DEF LockInv, NoneAhead
    <2> QED  BY <2>1, <2>2
  <1>c. QueuedInv'
    BY <1>2, <1>3, <1>6 DEF LockInv, QueuedInv
  <1>d. WaitingInv'
    <2> SUFFICES ASSUME NEW v \in Workers, NEW d \in Clients, conn'[v] = d, d \notin pipelined
                 PROVE  replies'[d] = Due(d)' /\ (d \in skipped => inbox'[d] = <<>>)
      BY <1>2 DEF WaitingInv
    <2>1. conn[v] = d
      BY NoClientIsNone
    <2>2. replies[d] = Due(d) /\ (d \in skipped => inbox[d] = <<>>)
      BY <2>1, <1>2 DEF LockInv, WaitingInv
    <2>3. CASE d = c
      <3>1. ToClient(conn[w])
        BY <2>1, <2>3, NoClientIsNone DEF LockInv, OneWorker
      <3>2. replies'[c] = replies[c] + 1
        BY <3>1, <1>1 DEF ToClient, TypeInv, TypeOK
      <3> QED  BY <2>2, <2>3, <3>2, <1>1, <1>2 DEF Due
    <2>4. CASE d # c
      BY <2>2, <2>4, <1>2, <1>3 DEF Due
    <2> QED  BY <2>3, <2>4
  <1>e. SkippedInv'
    BY <1>2 DEF LockInv, SkippedInv
  <1> QED  BY <1>a, <1>b, <1>c, <1>d, <1>e DEF LockInv

\* A command that fills the buffer leaves its client without a reply to it, or
\* with one to what is left of it.
LEMMA LongServed ==
  ASSUME TypeInv, LockInv, NEW w \in Workers, Long(w)
  PROVE  LockInv'
  <1> DEFINE c == conn[w]
  <1>1. c \in Clients /\ inbox[c] # <<>>
    BY DEF Long, TypeInv, ClientInv
  <1>2. /\ \A d \in Clients : d # c => inbox'[d] = inbox[d]
        /\ UNCHANGED <<backlog, cmds, pipelined, replies, conn>>
    BY <1>1 DEF Long, TypeInv, TypeOK, workerVars
  <1>3. \/ inbox'[c] = <<>> /\ skipped' = skipped \cup {c}
        \/ inbox'[c] # <<>> /\ skipped' = skipped
    <2>1. \A cmd \in Shorts : <<cmd>> # <<>>
      OBVIOUS
    <2> QED  BY <1>1, <2>1 DEF Long, TypeInv, TypeOK
  <1>4. replies[c] <= cmds[c] /\ cmds[c] >= 1
    BY <1>1 DEF LockInv, NoneAhead
  <1>5. \A i \in 1 .. Len(backlog) : backlog[i] # c
    BY <1>1 DEF LockInv, QueueFree
  <1>a. OneWorker' /\ QueueOnce' /\ QueueFree'
    BY <1>2 DEF LockInv, OneWorker, QueueOnce, QueueFree
  <1>b. NoneAhead'
    <2> SUFFICES ASSUME NEW d \in Clients
                 PROVE  /\ replies[d] <= cmds[d] + 1
                        /\ inbox'[d] # <<>> => replies[d] <= cmds[d] /\ cmds[d] >= 1
      BY <1>2 DEF NoneAhead
    <2>1. replies[d] <= cmds[d] + 1
      BY DEF LockInv, NoneAhead
    <2>2. CASE d = c
      BY <2>1, <2>2, <1>4
    <2>3. CASE d # c
      BY <2>3, <1>2 DEF LockInv, NoneAhead
    <2> QED  BY <2>2, <2>3
  <1>c. QueuedInv'
    BY <1>2, <1>3, <1>5 DEF LockInv, QueuedInv
  <1>d. WaitingInv'
    <2> SUFFICES ASSUME NEW v \in Workers, NEW d \in Clients, conn[v] = d, d \notin pipelined
                 PROVE  replies[d] = Due(d)' /\ (d \in skipped' => inbox'[d] = <<>>)
      BY <1>2 DEF WaitingInv
    <2>1. replies[d] = Due(d) /\ (d \in skipped => inbox[d] = <<>>)
      BY DEF LockInv, WaitingInv
    <2>2. CASE d = c
      BY <2>1, <2>2, <1>1, <1>2, <1>3 DEF Due
    <2>3. CASE d # c
      BY <2>1, <2>3, <1>2, <1>3 DEF Due
    <2> QED  BY <2>2, <2>3
  <1>e. SkippedInv'
    BY <1>2, <1>3, <1>4 DEF LockInv, SkippedInv
  <1> QED  BY <1>a, <1>b, <1>c, <1>d, <1>e DEF LockInv

\* The welcome of a client that has waited: its first reply.
LEMMA AcceptLock ==
  ASSUME TypeInv, LockInv, NEW w \in Workers, Accept(w)
  PROVE  LockInv'
  <1> DEFINE h == Head(backlog)
  <1>1. /\ Len(backlog) \in Nat \ {0} /\ h = backlog[1] /\ h \in Clients
        /\ Len(backlog') = Len(backlog) - 1
        /\ \A i \in 1 .. Len(backlog') : backlog'[i] = backlog[i + 1] /\ i + 1 \in 2 .. Len(backlog)
    BY DEF Accept, TypeInv, TypeOK
  <1>2. /\ UNCHANGED <<inbox, cmds, pipelined, skipped>>
        /\ conn'[w] = h /\ \A v \in Workers : v # w => conn'[v] = conn[v]
    BY <1>1 DEF Accept, TypeInv, TypeOK
  <1>3. /\ replies[h] = 0 /\ (h \notin pipelined => cmds[h] = 0) /\ h \notin skipped
        /\ \A v \in Workers : conn[v] # h
    BY <1>1 DEF LockInv, QueuedInv, QueueFree
  <1>4. replies'[h] = 1 /\ \A c \in Clients : c # h => replies'[c] = replies[c]
    BY <1>1, <1>3 DEF Accept, ToClient, TypeInv, TypeOK
  <1>5. \A i \in 1 .. Len(backlog') : backlog'[i] # h /\ backlog'[i] \in Clients
    <2> SUFFICES ASSUME NEW i \in 1 .. Len(backlog')
                 PROVE  backlog'[i] # h /\ backlog'[i] \in Clients
      OBVIOUS
    <2>1. i + 1 \in 1 .. Len(backlog) /\ i + 1 # 1 /\ backlog'[i] = backlog[i + 1] /\ 1 \in 1 .. Len(backlog)
      BY <1>1
    <2>2. backlog[i + 1] \in Clients
      BY <2>1 DEF TypeInv, TypeOK
    <2> QED  BY <2>1, <2>2, <1>1 DEF LockInv, QueueOnce
  <1>a. QueueOnce' /\ OneWorker'
    BY <1>1, <1>2, <1>3 DEF LockInv, QueueOnce, OneWorker
  <1>b. QueueFree'
    <2> SUFFICES ASSUME NEW i \in 1 .. Len(backlog'), NEW v \in Workers PROVE backlog'[i] # conn'[v]
      BY DEF QueueFree
    <2>1. i + 1 \in 1 .. Len(backlog) /\ backlog'[i] = backlog[i + 1]
      BY <1>1
    <2> QED  BY <2>1, <1>2, <1>5 DEF LockInv, QueueFree
  <1>c. NoneAhead'
    <2> SUFFICES ASSUME NEW c \in Clients
                 PROVE  /\ replies'[c] <= cmds[c] + 1
                        /\ inbox[c] # <<>> => replies'[c] <= cmds[c] /\ cmds[c] >= 1
      BY <1>2 DEF NoneAhead
    <2>1. CASE c = h
      <3>1. cmds[h] \in Nat /\ (inbox[h] # <<>> => cmds[h] >= 1)
        BY <1>1, Counts DEF LockInv, NoneAhead
      <3> QED  BY <3>1, <2>1, <1>4
    <2>2. CASE c # h
      BY <2>2, <1>4 DEF LockInv, NoneAhead
    <2> QED  BY <2>1, <2>2
  <1>d. QueuedInv'
    <2> SUFFICES ASSUME NEW i \in 1 .. Len(backlog')
                 PROVE  /\ replies'[backlog'[i]] = 0 /\ backlog'[i] \notin skipped
                        /\ backlog'[i] \notin pipelined => cmds[backlog'[i]] = 0
      BY <1>2 DEF QueuedInv
    <2>1. i + 1 \in 1 .. Len(backlog) /\ backlog'[i] = backlog[i + 1]
      BY <1>1
    <2> QED  BY <2>1, <1>4, <1>5 DEF LockInv, QueuedInv
  <1>e. WaitingInv'
    <2> SUFFICES ASSUME NEW v \in Workers, NEW c \in Clients, conn'[v] = c, c \notin pipelined
                 PROVE  replies'[c] = Due(c) /\ (c \in skipped => inbox[c] = <<>>)
      BY <1>2 DEF WaitingInv, Due
    <2>1. CASE v = w
      <3>1. c = h /\ cmds[h] = 0
        BY <2>1, <1>2, <1>3
      <3>2. inbox[h] = <<>>
        BY <3>1, <1>1 DEF LockInv, NoneAhead
      <3> QED  BY <3>1, <3>2, <1>3, <1>4 DEF Due
    <2>2. CASE v # w
      <3>1. conn[v] = c /\ c # h
        BY <2>2, <1>2, <1>3
      <3> QED  BY <3>1, <1>4 DEF LockInv, WaitingInv
    <2> QED  BY <2>1, <2>2
  <1>f. SkippedInv'
    BY <1>2 DEF LockInv, SkippedInv
  <1> QED  BY <1>a, <1>b, <1>c, <1>d, <1>e, <1>f DEF LockInv

\* A command makes the replies fall behind by one, and a client that sends it
\* with a reply outstanding is one that does not wait.
LEMMA SendLock ==
  ASSUME TypeInv, LockInv, NEW c \in Clients, Send(c)
  PROVE  LockInv'
  <1>1. UNCHANGED <<backlog, replies, conn, skipped>>
    BY DEF Send, workerVars
  <1>2. cmds'[c] = cmds[c] + 1 /\ inbox'[c] # <<>>
    <2>1. PICK cmd \in Commands : inbox' = [inbox EXCEPT ![c] = IF @ = <<>> \/ cmd = "long" THEN <<cmd>> ELSE @]
      BY DEF Send
    <2>2. <<cmd>> # <<>>
      OBVIOUS
    <2>3. inbox'[c] = IF inbox[c] = <<>> \/ cmd = "long" THEN <<cmd>> ELSE inbox[c]
      BY <2>1 DEF TypeInv, TypeOK
    <2>4. cmds'[c] = cmds[c] + 1
      BY DEF Send, TypeInv, TypeOK
    <2> QED  BY <2>2, <2>3, <2>4
  <1>3. \A d \in Clients : d # c => cmds'[d] = cmds[d] /\ inbox'[d] = inbox[d]
    BY DEF Send, TypeInv, TypeOK
  <1>4. /\ \A d \in Clients : d # c => (d \in pipelined' <=> d \in pipelined)
        /\ c \notin pipelined' => c \notin pipelined /\ replies[c] = cmds[c] + 1
    BY DEF Send
  <1>5. replies[c] \in Nat /\ cmds[c] \in Nat /\ replies[c] <= cmds[c] + 1
    BY Counts DEF LockInv, NoneAhead
  <1>6. \A i \in 1 .. Len(backlog) : backlog[i] \in Clients
    BY DEF TypeInv, TypeOK
  <1>a. OneWorker' /\ QueueOnce' /\ QueueFree'
    BY <1>1 DEF LockInv, OneWorker, QueueOnce, QueueFree
  <1>b. NoneAhead'
    <2> SUFFICES ASSUME NEW d \in Clients
                 PROVE  /\ replies[d] <= cmds'[d] + 1
                        /\ inbox'[d] # <<>> => replies[d] <= cmds'[d] /\ cmds'[d] >= 1
      BY <1>1 DEF NoneAhead
    <2>1. CASE d = c
      BY <2>1, <1>2, <1>5
    <2>2. CASE d # c
      BY <2>2, <1>3 DEF LockInv, NoneAhead
    <2> QED  BY <2>1, <2>2
  <1>c. QueuedInv'
    <2> SUFFICES ASSUME NEW i \in 1 .. Len(backlog)
                 PROVE  /\ replies[backlog[i]] = 0 /\ backlog[i] \notin skipped
                        /\ backlog[i] \notin pipelined' => cmds'[backlog[i]] = 0
      BY <1>1 DEF QueuedInv
    <2>1. /\ replies[backlog[i]] = 0 /\ backlog[i] \notin skipped
          /\ backlog[i] \notin pipelined => cmds[backlog[i]] = 0
      BY DEF LockInv, QueuedInv
    <2>2. CASE backlog[i] = c
      BY <2>1, <2>2, <1>4, <1>5
    <2>3. CASE backlog[i] # c
      BY <2>1, <2>3, <1>3, <1>4, <1>6
    <2> QED  BY <2>2, <2>3
  <1>d. WaitingInv'
    <2> SUFFICES ASSUME NEW v \in Workers, NEW d \in Clients, conn[v] = d, d \notin pipelined'
                 PROVE  replies[d] = Due(d)' /\ (d \in skipped => inbox'[d] = <<>>)
      BY <1>1 DEF WaitingInv
    <2>1. CASE d = c
      <3>1. d \notin pipelined /\ replies[d] = cmds[d] + 1
        BY <2>1, <1>4
      <3>2. replies[d] = Due(d)
        BY <3>1 DEF LockInv, WaitingInv
      <3>3. d \notin skipped
        BY <3>1, <3>2, <2>1, <1>5 DEF Due
      <3> QED  BY <2>1, <3>1, <3>3, <1>1, <1>2 DEF Due
    <2>2. CASE d # c
      <3>1. d \notin pipelined
        BY <2>2, <1>4
      <3> QED  BY <3>1, <2>2, <1>1, <1>3 DEF LockInv, WaitingInv, Due
    <2> QED  BY <2>1, <2>2
  <1>e. SkippedInv'
    <2>1. skipped \subseteq Clients
      BY DEF TypeInv, TypeOK
    <2> QED  BY <2>1, <1>1, <1>2, <1>3, <1>5 DEF LockInv, SkippedInv
  <1> QED  BY <1>a, <1>b, <1>c, <1>d, <1>e DEF LockInv

LEMMA ConnectLock ==
  ASSUME TypeInv, LockInv, NEW c \in Clients, Connect(c)
  PROVE  LockInv'
  <1>1. UNCHANGED <<replies, conn, inbox, cmds, pipelined, skipped>>
    BY DEF Connect, workerVars
  <1>2. replies[c] = 0 /\ cmds[c] = 0 /\ ~InQueue(c) /\ \A w \in Workers : conn[w] # c
    BY DEF Connect, New, Connected
  <1>3. /\ Len(backlog) \in Nat /\ Len(backlog') = Len(backlog) + 1
        /\ backlog'[Len(backlog) + 1] = c
        /\ \A i \in 1 .. Len(backlog) : backlog'[i] = backlog[i]
    BY DEF Connect, TypeInv, TypeOK
  <1>4. \A i \in 1 .. Len(backlog') : i \in 1 .. Len(backlog) \/ i = Len(backlog) + 1
    BY <1>3
  <1>5. \A i \in 1 .. Len(backlog) : backlog[i] # c
    BY <1>2 DEF InQueue
  <1>a. QueueOnce'
    BY <1>3, <1>4, <1>5 DEF LockInv, QueueOnce
  <1>b. QueueFree'
    BY <1>1, <1>2, <1>3, <1>4 DEF LockInv, QueueFree
  <1>6. c \notin skipped
    BY <1>2 DEF LockInv, SkippedInv
  <1>c. QueuedInv'
    BY <1>1, <1>2, <1>3, <1>4, <1>6 DEF LockInv, QueuedInv
  <1>d. OneWorker' /\ NoneAhead' /\ WaitingInv' /\ SkippedInv'
    BY <1>1 DEF LockInv, OneWorker, NoneAhead, WaitingInv, SkippedInv, Due
  <1> QED  BY <1>a, <1>b, <1>c, <1>d DEF LockInv

LEMMA LockInvStep == TypeInv /\ LockInv /\ [Next]_vars => LockInv'
  <1> SUFFICES ASSUME TypeInv, LockInv, [Next]_vars PROVE LockInv'
    OBVIOUS
  <1>t. backlog \in Seq(Clients) /\ conn \in [Workers -> Clients \cup {NoClient}]
    BY DEF TypeInv, TypeOK
  <1>s. ASSUME UNCHANGED <<backlog, inbox, cmds, replies, pipelined, skipped, conn>> PROVE LockInv'
    BY <1>s, <1>t, SessionsEnd
  <1>1. CASE Fork \/ InstallHandler \/ WaitReturns \/ Tick \/ UNCHANGED vars
    BY <1>1, <1>s DEF Fork, InstallHandler, WaitReturns, Tick, vars, workerVars, clientVars
  <1>2. CASE Sigint
    <2>1. UNCHANGED <<backlog, inbox, cmds, replies, pipelined, skipped>>
      BY <1>2 DEF Sigint, clientVars
    <2>2. \A w \in Workers : conn'[w] = conn[w] \/ conn'[w] = NoClient
      BY <1>2 DEF Sigint, Killed, workerVars
    <2> QED  BY <2>1, <2>2, <1>t, SessionsEnd
  <1>3. ASSUME NEW w \in Workers, AcceptFails(w) PROVE LockInv'
    BY <1>3, <1>s DEF AcceptFails, workerVars, clientVars
  <1>4. ASSUME NEW w \in Workers, NEW cmd, Reads(w, cmd), ToClient(conn[w]), UNCHANGED conn PROVE LockInv'
    BY <1>4, CommandServed
  <1>5. ASSUME NEW w \in Workers, Simple(w) \/ Pwd(w) \/ Cwd(w) PROVE LockInv'
    BY <1>5, <1>4 DEF Simple, Pwd, Cwd, workerVars
  <1>6. ASSUME NEW w \in Workers, NEW cmd, Reads(w, cmd), Exit(w) \/ EndSession(w), UNCHANGED replies
        PROVE  LockInv'
    BY <1>6, <1>t, CommandServed DEF Exit, EndSession
  <1>7. ASSUME NEW w \in Workers, Pasv(w) PROVE LockInv'
    BY <1>7, <1>4, <1>6 DEF Pasv
  <1>8. ASSUME NEW w \in Workers, NEW cmd, Reads(w, cmd), Transfer(w) PROVE LockInv'
    BY <1>8, <1>6 DEF Transfer, SockPasv
  <1>9. ASSUME NEW w \in Workers, List(w) \/ Retr(w) PROVE LockInv'
    BY <1>9, <1>4, <1>8 DEF List, Retr, workerVars
  <1>10. ASSUME NEW w \in Workers, RetrMissing(w) PROVE LockInv'
    BY <1>10, <1>4, <1>6 DEF RetrMissing
  <1>11. ASSUME NEW w \in Workers, Quit(w) PROVE LockInv'
    BY <1>11, <1>t, CommandServed DEF Quit, EndSession
  <1>12. ASSUME NEW w \in Workers, Eof(w) PROVE LockInv'
    BY <1>12, <1>t, SessionsEnd DEF Eof, EndSession, clientVars
  <1>13. ASSUME NEW c \in Clients, Close(c) PROVE LockInv'
    BY <1>13, <1>s DEF Close, workerVars
  <1>14. ASSUME NEW d \in Losable, Lose(d) PROVE LockInv'
    BY <1>14, <1>s DEF Lose, clientVars
  <1> QED
    BY <1>1, <1>2, <1>3, <1>5, <1>7, <1>9, <1>10, <1>11, <1>12, <1>13, <1>14, AcceptLock, LongServed,
       SendLock, ConnectLock
       DEF Next, Master, Worker, Client

\* Replies and commands stay in step for any number of workers and clients:
\* no client gets more replies than it has sent commands, besides the welcome,
\* and one that waits for each finds none missing, or only that of a command
\* that fills the buffer, which the program reads and does not answer.
THEOREM InStep == Spec => []LockStep
  <1>1. LockInv => LockStep
    BY DEF LockInv, NoneAhead, WaitingInv, Due, LockStep
  <1> QED  BY <1>1, InitType, InitLock, StepType, LockInvStep, PTL DEF Spec

=============================================================================
