----------------------------- MODULE CtrlProofs -----------------------------
(***************************************************************************)
(* The control protocol for any clients, workers, packages and requests:   *)
(* packages have one owner, and requests are carried out and answered once.*)
(***************************************************************************)
EXTENDS Ctrl, FiniteSetTheorems, SequenceTheorems, TLAPS

Waiting == DOMAIN queue

\* The server has a package, be it only because it was cancelled with one.
Holding == srv \in {"recv", "submit", "wait", "lost"}

\* Who has a package: one entry of the queue, one worker, or the server.
OwnInv ==
  /\ \A m, n \in Waiting : queue[m] = queue[n] => m = n
  /\ \A w, x \in Workers : arg[w] = arg[x] /\ arg[w] # NoPkg => w = x
  /\ \A n \in Waiting : \A w \in Workers : queue[n] # arg[w]
  /\ \A n \in Waiting : queue[n] \in live
  /\ \A w \in Workers : arg[w] # NoPkg => arg[w] \in live
  /\ \A w \in Workers : wk[w] \in {"run", "send"} <=> arg[w] # NoPkg
  /\ Holding =>
       pkg \in live /\ (\A n \in Waiting : queue[n] # pkg) /\ \A w \in Workers : arg[w] # pkg
  /\ srv = "ended" => pkg = NoPkg
  /\ \A p \in live :
       \/ \E n \in Waiting : queue[n] = p
       \/ \E w \in Workers : arg[w] = p
       \/ p = pkg /\ Holding

\* A client's last request is known by its number.
AskInv ==
  /\ \A c \in Clients : ask[c] \in Request => ask[c].from = c
  /\ \A c, d \in Clients : ask[c].id = ask[d].id /\ ask[c] \in Request => c = d
  /\ \A n \in Ids : (\A c \in Clients : ask[c].id < n) => executed[n] = 0

\* The package holds a request.
Full(p) == p \in live /\ ~(p = pkg /\ srv = "recv")
Sending(p) == \E w \in Workers : arg[w] = p /\ wk[w] = "send"

\* A client's request is in one place: at the server's socket, in a package, or
\* answered -- and only after Execute is it carried out.
SockInv ==
  /\ \A m \in DOMAIN sock :
       /\ sock[m] = ask[sock[m].from] /\ cl[sock[m].from] # "idle"
       /\ inbox[sock[m].from] = <<>>
       /\ executed[sock[m].id] = 0
  /\ \A m, n \in DOMAIN sock : sock[m].from = sock[n].from => m = n
  /\ \A m \in DOMAIN sock : \A p \in Pkgs : Full(p) => content[p].from # sock[m].from

FullInv ==
  /\ \A p \in Pkgs : Full(p) =>
       /\ content[p] \in Request
       /\ content[p] = ask[content[p].from] /\ cl[content[p].from] # "idle"
       /\ inbox[content[p].from] = <<>>
       /\ executed[content[p].id] = IF Sending(p) THEN 1 ELSE 0
  /\ \A p, q \in Pkgs : Full(p) /\ Full(q) /\ content[p].from = content[q].from => p = q

InboxInv ==
  /\ \A c \in Clients : inbox[c] # <<>> =>
       /\ ask[c] \in Request /\ inbox[c] = <<ask[c].id>>
       /\ executed[ask[c].id] = 1
       /\ cl[c] # "idle"
  /\ \A n \in Ids : executed[n] \in {0, 1}

IInv ==
  /\ TypeOK
  /\ OwnInv
  /\ AskInv
  /\ SockInv
  /\ FullInv
  /\ InboxInv

-----------------------------------------------------------------------------
(* Requests and sequences *)

LEMMA RequestFields ==
  ASSUME NEW r \in Request
  PROVE  r.id \in Ids /\ r.from \in Clients /\ r.type \in AllTypes /\ r.id \in Nat /\ r.id # 0
  BY CtrlAssumption DEF Request, Ids

LEMMA AskFields ==
  ASSUME TypeOK, NEW c \in Clients
  PROVE  ask[c].id \in Nat /\ (ask[c] \in Request <=> ask[c].id # 0)
  <1>1. ask[c] \in Request \/ ask[c] = NoAsk
    BY DEF TypeOK
  <1>2. NoAsk.id = 0
    BY DEF NoAsk
  <1>3. QED
    BY <1>1, <1>2, RequestFields

\* A new request gets a number above those of all others.
LEMMA FreshNumber ==
  ASSUME TypeOK, Calls < MaxCalls
  PROVE  /\ Calls + 1 \in Ids
         /\ \A c \in Clients : ask[c].id < Calls + 1
  <1>1. PICK N : N = {n \in Ids : \E c \in Clients : n <= ask[c].id}
    OBVIOUS
  <1>2. IsFiniteSet(Ids) /\ N \subseteq Ids
    BY <1>1, FS_Interval, CtrlAssumption DEF Ids
  <1>3. IsFiniteSet(N) /\ Cardinality(N) \in Nat /\ Calls = Cardinality(N)
    BY <1>1, <1>2, FS_Subset, FS_CardinalityType DEF Calls
  <1>4. ASSUME NEW c \in Clients PROVE ask[c].id <= Calls
    <2>1. ask[c].id \in Nat /\ ask[c].id <= MaxCalls
      <3>1. CASE ask[c] \in Request
        BY <3>1, RequestFields, CtrlAssumption DEF Ids
      <3>2. CASE ask[c] \notin Request
        BY <3>2, AskFields, CtrlAssumption
      <3>3. QED
        BY <3>1, <3>2
    <2>2. 1 .. ask[c].id \subseteq N
      BY <1>1, <2>1, CtrlAssumption DEF Ids
    <2>3. Cardinality(1 .. ask[c].id) = ask[c].id
      BY <2>1, FS_Interval
    <2>4. QED
      BY <1>3, <2>2, <2>3, FS_Subset
  <1>5. Calls + 1 \in Ids
    BY <1>3, CtrlAssumption DEF Ids
  <1>6. QED
    BY <1>3, <1>4, <1>5, AskFields

LEMMA TailOf ==
  ASSUME NEW S, NEW s \in Seq(S), s # <<>>
  PROVE  /\ Head(s) \in S /\ Head(s) = s[1] /\ 1 \in DOMAIN s
         /\ Tail(s) \in Seq(S)
         /\ \A n \in DOMAIN Tail(s) : n + 1 \in DOMAIN s /\ Tail(s)[n] = s[n + 1]
         /\ \A n \in DOMAIN s : n # 1 => n - 1 \in DOMAIN Tail(s) /\ Tail(s)[n - 1] = s[n]
         /\ \A n \in DOMAIN s : n \in Nat /\ n >= 1
         /\ \A n \in DOMAIN Tail(s) : n \in Nat /\ n >= 1
  <1>1. Len(s) \in Nat /\ DOMAIN s = 1 .. Len(s)
    BY LenProperties
  <1>2. Head(s) \in S /\ Head(s) = s[1] /\ Tail(s) \in Seq(S)
    BY HeadTailProperties
  <1>3. Len(s) # 0
    BY EmptySeq
  <1>4. Len(Tail(s)) = Len(s) - 1 /\ \A n \in 1 .. Len(s) - 1 : Tail(s)[n] = s[n + 1]
    BY HeadTailProperties
  <1>5. DOMAIN Tail(s) = 1 .. Len(s) - 1
    BY <1>2, <1>4, LenProperties
  <1>6. ASSUME NEW n \in DOMAIN s, n # 1 PROVE n - 1 \in DOMAIN Tail(s) /\ Tail(s)[n - 1] = s[n]
    <2>1. PICK m : m = n - 1
      OBVIOUS
    <2>2. m \in 1 .. Len(s) - 1 /\ n = m + 1
      BY <1>1, <1>6, <2>1
    <2>3. QED
      BY <1>4, <1>5, <2>1, <2>2
  <1>7. QED
    BY <1>1, <1>2, <1>3, <1>4, <1>5, <1>6

LEMMA AppendTo ==
  ASSUME NEW S, NEW s \in Seq(S), NEW e \in S
  PROVE  /\ Append(s, e) \in Seq(S)
         /\ Append(s, e)[Len(s) + 1] = e /\ Len(s) + 1 \in DOMAIN Append(s, e)
         /\ Len(s) + 1 \notin DOMAIN s
         /\ DOMAIN Append(s, e) = DOMAIN s \cup {Len(s) + 1}
         /\ \A n \in DOMAIN s : Append(s, e)[n] = s[n]
  <1>1. Len(s) \in Nat /\ DOMAIN s = 1 .. Len(s)
    BY LenProperties
  <1>2. /\ Append(s, e) \in Seq(S) /\ Len(Append(s, e)) = Len(s) + 1
        /\ \A n \in 1 .. Len(s) : Append(s, e)[n] = s[n]
        /\ Append(s, e)[Len(s) + 1] = e
    BY AppendProperties
  <1>3. DOMAIN Append(s, e) = 1 .. Len(s) + 1
    BY <1>2, LenProperties
  <1>4. QED
    BY <1>1, <1>2, <1>3
-----------------------------------------------------------------------------
(* Types *)

LEMMA NoSeq == \A S : <<>> \in Seq(S)
  OBVIOUS

LEMMA InitType == Init => TypeOK
  BY CtrlAssumption, NoSeq DEF Init, TypeOK, AfterRecv

LEMMA ClientType ==
  ASSUME TypeOK, NEW c \in Clients,
         (\E t \in Types, e \in 0 .. MaxEntries : Send(c, t, e)) \/ ClientStep(c) \/ Kill(c)
  PROVE  TypeOK'
  <1>1. ASSUME NEW t \in Types, NEW e \in 0 .. MaxEntries, Send(c, t, e) PROVE TypeOK'
    <2>1. PICK r \in Request : r = [id |-> Calls + 1, from |-> c, type |-> t, entries |-> e]
      BY <1>1, FreshNumber DEF Request, Send
    <2>2. ask' = [ask EXCEPT ![c] = r] /\ sock' = Append(sock, ask'[c])
      BY <1>1, <2>1 DEF Send
    <2>3. ask'[c] = r
      BY <2>2 DEF TypeOK
    <2>4. sock' \in Seq(Request)
      BY <2>2, <2>3, AppendTo DEF TypeOK
    <2>5. ask' \in [Clients -> Request \cup {NoAsk}]
      BY <2>2 DEF TypeOK
    <2>6. QED
      BY <1>1, <2>4, <2>5 DEF TypeOK, Send, heap, worker
  <1>2. CASE ReadType(c)
    <2>1. PICK x \in {"result", "length", "crashed"} : cl' = [cl EXCEPT ![c] = x]
      BY <1>2 DEF ReadType
    <2>2. QED
      BY <1>2, <2>1 DEF TypeOK, ReadType, server, heap, worker, AfterRecv
  <1>3. CASE RecvAnswer(c)
    <2>1. cl[c] \in DOMAIN AfterRecv => AfterRecv[cl[c]] \in {"idle"} \cup DOMAIN AfterRecv
      BY DEF AfterRecv
    <2>2. inbox[c] \in Seq(Ids) /\ inbox[c] # <<>>
      BY <1>3 DEF TypeOK, RecvAnswer
    <2>3. Tail(inbox[c]) \in Seq(Ids)
      BY <2>2, TailOf
    <2>4. QED
      BY <1>3, <2>1, <2>3 DEF TypeOK, RecvAnswer, server, heap, worker
  <1>4. CASE Kill(c)
    BY <1>4 DEF TypeOK, Kill, server, heap, worker
  <1>5. QED
    BY <1>1, <1>2, <1>3, <1>4 DEF ClientStep

LEMMA ServerType ==
  ASSUME TypeOK, OwnInv, ServerStep \/ Stop \/ Down
  PROVE  TypeOK'
  <1>1. CASE Alloc
    <2>1. \A p \in Fresh : p \in Pkgs
      BY DEF Fresh
    <2>2. /\ sock' \in Seq(Request) /\ live' \subseteq Pkgs /\ pkg' \in Pkgs \cup {NoPkg}
          /\ srv' \in {"alloc", "recv", "submit", "wait", "ended", "lost"}
      BY <1>1, <2>1, NoSeq DEF TypeOK, Alloc, Ends
    <2>3. QED
      BY <1>1, <2>2 DEF TypeOK, Alloc, client, worker
  <1>2. CASE Recv
    <2>1. Head(sock) \in Request /\ Tail(sock) \in Seq(Request)
      BY <1>2, TailOf DEF TypeOK, Recv
    <2>2. QED
      BY <1>2, <2>1 DEF TypeOK, Recv, client, worker
  <1>3. CASE Submit
    <2>1. queue \in Seq(Pkgs) /\ pkg \in Pkgs /\ queue' = Append(queue, pkg)
      BY <1>3 DEF TypeOK, Submit, OwnInv, Holding
    <2>2. queue' \in Seq(Pkgs)
      BY <2>1, AppendTo
    <2>3. QED
      BY <1>3, <2>2 DEF TypeOK, Submit, AfterPop, client, worker
  <1>4. CASE Wait
    BY <1>4 DEF TypeOK, Wait, client, heap, worker
  <1>5. CASE Stop
    BY <1>5, NoSeq DEF TypeOK, Stop, Ends, client, worker
  <1>6. CASE Down
    BY <1>6 DEF TypeOK, Down, client, server, heap, worker
  <1>7. QED
    BY <1>1, <1>2, <1>3, <1>4, <1>5, <1>6 DEF ServerStep

LEMMA WorkerType ==
  ASSUME TypeOK, FullInv, OwnInv, NEW w \in Workers, WorkerStep(w) \/ CancelWorker(w)
  PROVE  TypeOK'
  <1>1. CASE Take(w)
    <2>1. Head(queue) \in Pkgs /\ Tail(queue) \in Seq(Pkgs)
      BY <1>1, TailOf DEF TypeOK, Take
    <2>2. QED
      BY <1>1, <2>1 DEF TypeOK, Take, client, server, heap
  <1>2. ASSUME wk[w] \in {"run", "send"} PROVE arg[w] \in Pkgs /\ Full(arg[w]) /\ content[arg[w]] \in Request
    <2>1. arg[w] # NoPkg /\ arg[w] \in live /\ arg[w] \in Pkgs
      BY <1>2 DEF OwnInv, TypeOK
    <2>2. Full(arg[w])
      BY <2>1 DEF OwnInv, Holding, Full
    <2>3. QED
      BY <2>1, <2>2 DEF FullInv
  <1>3. CASE Execute(w)
    <2>1. PICK r \in Request : r = content[arg[w]]
      BY <1>2, <1>3 DEF Execute
    <2>2. r.id \in Ids
      BY RequestFields
    <2>3. executed' \in [Ids -> Nat]
      <3>1. executed' = executed \/ executed' = [executed EXCEPT ![r.id] = @ + 1]
        BY <1>3, <2>1 DEF Execute
      <3>2. QED
        <4>1. executed \in [Ids -> Nat]
          BY DEF TypeOK
        <4>2. executed[r.id] \in Nat
          BY <2>2, <4>1
        <4>3. QED
          BY <2>2, <3>1, <4>1, <4>2
    <2>4. QED
      BY <1>3, <2>3 DEF TypeOK, Execute, Finish, client, server
  <1>4. CASE Answer(w)
    <2>1. PICK r \in Request : r = content[arg[w]]
      BY <1>2, <1>4 DEF Answer
    <2>2. r.id \in Ids /\ r.from \in Clients
      BY RequestFields
    <2>3. Append(inbox[r.from], r.id) \in Seq(Ids)
      BY <2>2, AppendTo DEF TypeOK
    <2>4. inbox' \in [Clients -> Seq(Ids)]
      BY <1>4, <2>1, <2>2, <2>3 DEF TypeOK, Answer
    <2>5. QED
      BY <1>4, <2>4 DEF TypeOK, Answer, Finish, server
  <1>5. CASE CancelWorker(w)
    BY <1>5 DEF TypeOK, CancelWorker, Finish, client, server
  <1>6. QED
    BY <1>1, <1>3, <1>4, <1>5 DEF WorkerStep

-----------------------------------------------------------------------------
(* Packages *)

\* What a step that has nothing to do with packages leaves alone.
own == <<queue, arg, wk, live, pkg, srv>>

LEMMA OwnSame == OwnInv /\ UNCHANGED own => OwnInv'
  BY DEF OwnInv, Holding, own, Waiting

LEMMA InitOwn == Init => OwnInv
  BY DEF Init, OwnInv, Holding, Waiting

LEMMA ServerOwn ==
  ASSUME TypeOK, OwnInv, ServerStep \/ Stop
  PROVE  OwnInv'
  <1> USE CtrlAssumption
  <1>1. CASE Alloc
    <2>1. UNCHANGED <<queue, arg, wk>>
      BY <1>1 DEF Alloc, worker
    <2>2. ASSUME NEW p \in Fresh, live' = live \cup {p}, pkg' = p, srv' = "recv" PROVE OwnInv'
      <3>1. p \in Pkgs /\ p \notin live /\ p # NoPkg
        BY DEF Fresh
      <3>2. (\A n \in Waiting : queue[n] # p) /\ \A w \in Workers : arg[w] # p
        BY <3>1 DEF OwnInv
      <3>3. QED
        BY <1>1, <2>1, <2>2, <3>1, <3>2 DEF OwnInv, Holding, Alloc, Waiting
    <2>3. ASSUME Ends, UNCHANGED live PROVE OwnInv'
      BY <1>1, <2>1, <2>3 DEF OwnInv, Holding, Ends, Alloc, Waiting
    <2>4. QED
      BY <1>1, <2>2, <2>3 DEF Alloc
  <1>2. CASE Recv
    BY <1>2 DEF Recv, OwnInv, Holding, Waiting, worker
  <1>3. CASE Submit
    <2>1. UNCHANGED <<arg, wk, pkg, live>> /\ srv \in {"submit", "wait"} /\ srv' = "alloc"
      BY <1>3 DEF Submit, worker, AfterPop
    <2>2. queue \in Seq(Pkgs) /\ pkg \in Pkgs /\ pkg \in live /\ queue' = Append(queue, pkg)
      BY <1>3, <2>1 DEF Submit, TypeOK, OwnInv, Holding
    <2>3. PICK l : l = Len(queue) + 1
      OBVIOUS
    <2>4. /\ Waiting' = Waiting \cup {l} /\ l \notin Waiting /\ queue'[l] = pkg
          /\ \A n \in Waiting : queue'[n] = queue[n]
      BY <2>2, <2>3, AppendTo DEF Waiting
    <2>5. Holding /\ ~Holding' /\ srv' # "ended"
      BY <2>1 DEF Holding
    <2>6. (\A n \in Waiting : queue[n] # pkg) /\ \A w \in Workers : arg[w] # pkg
      BY <2>5 DEF OwnInv
    <2>7. /\ \A m, n \in Waiting' : queue'[m] = queue'[n] => m = n
          /\ \A n \in Waiting' : queue'[n] \in live /\ \A w \in Workers : queue'[n] # arg[w]
      <3>1. \A m, n \in Waiting : queue'[m] = queue'[n] => m = n
        BY <2>4 DEF OwnInv
      <3>2. \A n \in Waiting : queue'[n] # queue'[l]
        BY <2>4, <2>6
      <3>3. \A m, n \in Waiting' : queue'[m] = queue'[n] => m = n
        BY <2>4, <3>1, <3>2
      <3>4. \A n \in Waiting : queue'[n] \in live /\ \A w \in Workers : queue'[n] # arg[w]
        BY <2>4 DEF OwnInv
      <3>5. \A n \in Waiting' : queue'[n] \in live /\ \A w \in Workers : queue'[n] # arg[w]
        BY <2>2, <2>4, <2>6, <3>4
      <3>6. QED
        BY <3>3, <3>5
    <2>8. \A p \in live : (\E n \in Waiting' : queue'[n] = p) \/ \E w \in Workers : arg[w] = p
      BY <2>4 DEF OwnInv
    <2>9. QED
      BY <2>1, <2>5, <2>7, <2>8 DEF OwnInv
  <1>4. CASE Wait
    BY <1>4 DEF Wait, OwnInv, Holding, Waiting, heap, worker
  <1>5. CASE Stop
    <2>1. UNCHANGED <<queue, arg, wk>>
      BY <1>5 DEF Stop, worker
    <2>2. CASE srv \in {"recv", "ended"} /\ live' = live \ {pkg} /\ srv' = "ended" /\ pkg' = NoPkg
      <3>1. NoPkg \notin live
        BY DEF TypeOK
      <3>2. QED
        BY <2>1, <2>2, <3>1 DEF OwnInv, Holding, Waiting
    <2>3. CASE srv = "wait" /\ srv' = "lost" /\ UNCHANGED <<live, pkg>>
      BY <2>1, <2>3 DEF OwnInv, Holding, Waiting
    <2>4. QED
      BY <1>5, <2>2, <2>3 DEF Stop, Ends
  <1>6. QED
    BY <1>1, <1>2, <1>3, <1>4, <1>5 DEF ServerStep

\* worker_cleanup gives the package back.
LEMMA FinishOwn ==
  ASSUME TypeOK, OwnInv, NEW w \in Workers, Finish(w), UNCHANGED <<queue, pkg, srv>>,
         NEW x \in {"idle", "gone"}, wk' = [wk EXCEPT ![w] = x]
  PROVE  OwnInv'
  <1> USE CtrlAssumption
  <1>1. /\ arg'[w] = NoPkg /\ wk'[w] \notin {"run", "send"}
        /\ \A v \in Workers : v # w => arg'[v] = arg[v] /\ wk'[v] = wk[v]
        /\ live' = live \ {arg[w]} /\ Waiting' = Waiting
    BY DEF Finish, TypeOK, Waiting
  <1>2. /\ \A n \in Waiting : queue'[n] = queue[n] /\ queue[n] # arg[w]
        /\ pkg' = pkg /\ srv' = srv
    BY DEF OwnInv
  <1>3. \A v, u \in Workers : arg'[v] = arg'[u] /\ arg'[v] # NoPkg => v = u
    BY <1>1 DEF OwnInv
  <1>4. \A v \in Workers : (arg'[v] # NoPkg => arg'[v] \in live') /\ (wk'[v] \in {"run", "send"} <=> arg'[v] # NoPkg)
    BY <1>1 DEF OwnInv
  <1>5. \A n \in Waiting : queue[n] \in live' /\ \A v \in Workers : queue[n] # arg'[v]
    <2>1. NoPkg \notin live
      BY DEF TypeOK
    <2>2. QED
      BY <1>1, <1>2, <2>1 DEF OwnInv
  <1>6. Holding => pkg \in live'
    BY <1>1 DEF OwnInv
  <1>7. Holding => (\A n \in Waiting : queue[n] # pkg) /\ \A v \in Workers : arg'[v] # pkg
    <2>1. pkg \in live => pkg # NoPkg
      BY DEF TypeOK
    <2>2. QED
      BY <1>1, <2>1 DEF OwnInv
  <1>8. \A p \in live' :
       \/ \E n \in Waiting : queue[n] = p
       \/ \E v \in Workers : arg'[v] = p
       \/ p = pkg /\ Holding
    BY <1>1 DEF OwnInv
  <1>9. srv = "ended" => pkg = NoPkg
    BY DEF OwnInv
  <1>10. \A m, n \in Waiting : queue[m] = queue[n] => m = n
    BY DEF OwnInv
  <1>11. QED
    BY <1>1, <1>2, <1>3, <1>4, <1>5, <1>6, <1>7, <1>8, <1>9, <1>10 DEF OwnInv, Holding

LEMMA WorkerOwn ==
  ASSUME TypeOK, OwnInv, NEW w \in Workers, WorkerStep(w) \/ CancelWorker(w)
  PROVE  OwnInv'
  <1> USE CtrlAssumption
  <1>1. CASE Take(w)
    <2>1. /\ queue \in Seq(Pkgs) /\ queue # <<>> /\ queue' = Tail(queue) /\ wk[w] = "idle"
          /\ UNCHANGED <<live, pkg, srv>>
      BY <1>1 DEF Take, TypeOK, server, heap
    <2>2. PICK p \in Pkgs : p = Head(queue)
      BY <2>1, TailOf
    <2>3. /\ p = queue[1] /\ 1 \in Waiting
          /\ \A n \in Waiting' : n + 1 \in Waiting /\ queue'[n] = queue[n + 1] /\ n \in Nat /\ n >= 1
          /\ \A n \in Waiting : n # 1 => n - 1 \in Waiting' /\ queue'[n - 1] = queue[n]
      BY <2>1, <2>2, TailOf DEF Waiting
    <2>4. arg'[w] = p /\ wk'[w] = "run" /\ \A v \in Workers : v # w => arg'[v] = arg[v] /\ wk'[v] = wk[v]
      BY <1>1, <2>2 DEF Take, TypeOK
    <2>5. arg[w] = NoPkg
      BY <2>1 DEF OwnInv
    <2>6. ASSUME NEW n \in Waiting' PROVE \E m \in Waiting : m = n + 1 /\ m # 1 /\ queue'[n] = queue[m]
      BY <2>3
    <2>7. \A m, n \in Waiting' : queue'[m] = queue'[n] => m = n
      BY <2>3, <2>6 DEF OwnInv
    <2>8. \A n \in Waiting' : queue'[n] # p /\ queue'[n] \in live
      BY <2>3, <2>6 DEF OwnInv
    <2>9. \A n \in Waiting' : \A v \in Workers : queue'[n] # arg'[v]
      BY <2>4, <2>6, <2>8 DEF OwnInv
    <2>10. \A v, x \in Workers : arg'[v] = arg'[x] /\ arg'[v] # NoPkg => v = x
      BY <2>2, <2>3, <2>4 DEF OwnInv
    <2>11. \A v \in Workers : (arg'[v] # NoPkg => arg'[v] \in live) /\ (wk'[v] \in {"run", "send"} <=> arg'[v] # NoPkg)
      BY <2>2, <2>3, <2>4 DEF OwnInv
    <2>12. Holding =>
             pkg \in live /\ (\A n \in Waiting' : queue'[n] # pkg) /\ \A v \in Workers : arg'[v] # pkg
      BY <2>3, <2>4, <2>6 DEF OwnInv
    <2>13. ASSUME NEW q \in live
           PROVE  \/ \E n \in Waiting' : queue'[n] = q
                  \/ \E v \in Workers : arg'[v] = q
                  \/ q = pkg /\ Holding
      <3>1. ASSUME NEW n \in Waiting, queue[n] = q PROVE (\E m \in Waiting' : queue'[m] = q) \/ q = p
        BY <2>3, <3>1
      <3>2. ASSUME NEW v \in Workers, arg[v] = q PROVE arg'[v] = q
        <4>1. q # NoPkg
          BY DEF TypeOK
        <4>2. v # w
          BY <2>5, <3>2, <4>1
        <4>3. QED
          BY <2>4, <3>2, <4>2
      <3>3. QED
        BY <2>4, <3>1, <3>2 DEF OwnInv
    <2>14. QED
      BY <2>1, <2>7, <2>8, <2>9, <2>10, <2>11, <2>12, <2>13 DEF OwnInv, Holding
  <1>2. CASE Execute(w)
    <2>1. UNCHANGED <<queue, pkg, srv>>
      BY <1>2 DEF Execute, server
    <2>2. CASE Finish(w) /\ wk' = [wk EXCEPT ![w] = "idle"]
      BY <2>1, <2>2, FinishOwn
    <2>3. CASE UNCHANGED <<wk, arg, live>>
      BY <2>1, <2>3, OwnSame DEF own
    <2>4. CASE wk[w] = "run" /\ wk' = [wk EXCEPT ![w] = "send"] /\ UNCHANGED <<arg, live>>
      <3>1. \A v \in Workers : wk'[v] \in {"run", "send"} <=> wk[v] \in {"run", "send"}
        BY <2>4 DEF TypeOK
      <3>2. QED
        BY <2>1, <2>4, <3>1 DEF OwnInv, Holding, Waiting
    <2>5. QED
      BY <1>2, <2>2, <2>3, <2>4 DEF Execute
  <1>3. CASE Answer(w)
    <2>1. UNCHANGED <<queue, pkg, srv>>
      BY <1>3 DEF Answer, server
    <2>2. CASE Finish(w) /\ wk' = [wk EXCEPT ![w] = "idle"]
      BY <2>1, <2>2, FinishOwn
    <2>3. CASE UNCHANGED <<wk, arg, live>>
      BY <2>1, <2>3, OwnSame DEF own
    <2>4. QED
      BY <1>3, <2>2, <2>3 DEF Answer
  <1>4. CASE CancelWorker(w)
    <2>1. UNCHANGED <<queue, pkg, srv>> /\ wk' = [wk EXCEPT ![w] = "gone"]
      BY <1>4 DEF CancelWorker, server
    <2>2. CASE wk[w] = "idle" /\ UNCHANGED <<live, arg>>
      <3>1. \A v \in Workers : wk'[v] \in {"run", "send"} <=> wk[v] \in {"run", "send"}
        BY <2>1, <2>2 DEF TypeOK
      <3>2. QED
        BY <2>1, <2>2, <3>1 DEF OwnInv, Holding, Waiting
    <2>3. CASE Finish(w)
      BY <2>1, <2>3, FinishOwn
    <2>4. QED
      BY <1>4, <2>2, <2>3 DEF CancelWorker
  <1>5. QED
    BY <1>1, <1>2, <1>3, <1>4 DEF WorkerStep

\* The owners of a package, counted.
LEMMA OwnedOnce == TypeOK /\ OwnInv => PackageOwned
  <1> SUFFICES ASSUME TypeOK, OwnInv, NEW p \in Pkgs
               PROVE  /\ Owners(p) <= 1
                      /\ Owners(p) = 1 => p \in live
                      /\ p \in live /\ Owners(p) = 0 => p = pkg /\ Holding
    BY DEF PackageOwned, Holding
  <1> USE CtrlAssumption
  <1>1. PICK Q : Q = {n \in 1 .. Len(queue) : queue[n] = p}
    OBVIOUS
  <1>2. PICK A : A = {w \in Workers : arg[w] = p}
    OBVIOUS
  <1>3. Owners(p) = Cardinality(Q) + Cardinality(A)
    BY <1>1, <1>2 DEF Owners
  <1>4. Waiting = 1 .. Len(queue)
    BY LenProperties DEF TypeOK, Waiting
  <1>5. Cardinality(Q) = IF Q = {} THEN 0 ELSE 1
    <2>1. \A m, n \in Q : m = n
      BY <1>1, <1>4 DEF OwnInv
    <2>2. Q # {} => \E n : Q = {n}
      BY <2>1
    <2>3. QED
      BY <2>2, FS_EmptySet, FS_Singleton
  <1>6. Cardinality(A) = IF A = {} THEN 0 ELSE 1
    <2>1. \A v, w \in A : v = w
      BY <1>2 DEF OwnInv
    <2>2. A # {} => \E w : A = {w}
      BY <2>1
    <2>3. QED
      BY <2>2, FS_EmptySet, FS_Singleton
  <1>7. Q = {} \/ A = {}
    BY <1>1, <1>2, <1>4 DEF OwnInv
  <1>8. Q # {} \/ A # {} => p \in live
    BY <1>1, <1>2, <1>4 DEF OwnInv
  <1>9. p \in live /\ Q = {} /\ A = {} => p = pkg /\ Holding
    BY <1>1, <1>2, <1>4 DEF OwnInv
  <1>10. QED
    BY <1>3, <1>5, <1>6, <1>7, <1>8, <1>9

-----------------------------------------------------------------------------
(* Requests *)

MsgInv == AskInv /\ SockInv /\ FullInv /\ InboxInv

LEMMA InitMsg == Init => MsgInv
  <1> SUFFICES ASSUME Init PROVE MsgInv
    OBVIOUS
  <1>1. \A c \in Clients : ask[c] = NoAsk /\ NoAsk.id = 0 /\ ask[c] \notin Request
    <2>1. NoAsk.id = 0
      BY DEF NoAsk
    <2>2. NoAsk \notin Request
      BY <2>1, RequestFields
    <2>3. QED
      BY <2>1, <2>2 DEF Init
  <1>2. AskInv
    BY <1>1 DEF Init, AskInv
  <1>3. SockInv
    BY DEF Init, SockInv
  <1>4. FullInv
    BY DEF Init, FullInv, Full
  <1>5. InboxInv
    BY DEF Init, InboxInv
  <1>6. QED
    BY <1>2, <1>3, <1>4, <1>5 DEF MsgInv

LEMMA SockTyped ==
  ASSUME TypeOK
  PROVE  \A m \in DOMAIN sock : sock[m] \in Request /\ sock[m].from \in Clients
  <1>1. sock \in Seq(Request)
    BY DEF TypeOK
  <1>2. sock \in [1 .. Len(sock) -> Request]
    BY <1>1, LenProperties
  <1>3. \A m \in DOMAIN sock : sock[m] \in Request
    BY <1>2
  <1>4. QED
    BY <1>3, RequestFields

\* Steps that carry out, answer and send nothing: requests may only get lost.
Quiet ==
  /\ UNCHANGED <<ask, executed, content, inbox>>
  /\ \A c \in Clients : cl'[c] = "idle" => cl[c] = "idle"
  /\ sock' = sock \/ sock' = <<>>
  /\ \A p \in Pkgs : Full(p)' => Full(p) /\ (Sending(p)' <=> Sending(p))

LEMMA QuietMsg ==
  ASSUME TypeOK, MsgInv, Quiet
  PROVE  MsgInv'
  <1>1. \A m \in DOMAIN sock' : m \in DOMAIN sock /\ sock'[m] = sock[m] /\ sock[m].from \in Clients
    BY SockTyped DEF Quiet
  <1>2. AskInv'
    BY DEF MsgInv, AskInv, Quiet
  <1>3. SockInv'
    BY <1>1 DEF MsgInv, SockInv, Quiet
  <1>4. FullInv'
    <2>1. \A p \in Pkgs : Full(p) => content[p].from \in Clients
      BY RequestFields DEF MsgInv, FullInv
    <2>2. QED
      BY <2>1 DEF MsgInv, FullInv, Quiet
  <1>5. InboxInv'
    BY DEF MsgInv, InboxInv, Quiet
  <1>6. QED
    BY <1>2, <1>3, <1>4, <1>5 DEF MsgInv

LEMMA ServerMsg ==
  ASSUME TypeOK, OwnInv, MsgInv, Alloc \/ Submit \/ Wait \/ Stop \/ Down \/ UNCHANGED vars
  PROVE  MsgInv'
  <1>1. UNCHANGED <<ask, cl, inbox, executed, content, arg, wk>>
    BY DEF Alloc, Submit, Wait, Stop, Down, vars, client, server, worker, heap
  <1>2. sock' = sock \/ sock' = <<>>
    BY DEF Alloc, Submit, Wait, Stop, Down, vars, server, Ends
  <1>3. ASSUME NEW p \in Pkgs, Full(p)' PROVE Full(p)
    <2>1. p \in live' /\ ~(p = pkg' /\ srv' = "recv")
      BY <1>3 DEF Full
    <2>2. CASE Alloc
      BY <2>1, <2>2 DEF Full, Alloc, Ends
    <2>3. CASE Submit
      BY <2>1, <2>3 DEF Full, Submit, AfterPop
    <2>4. CASE Wait
      BY <2>1, <2>4 DEF Full, Wait, heap
    <2>5. CASE Stop
      BY <2>1, <2>5 DEF Full, Stop, Ends
    <2>6. CASE Down \/ UNCHANGED vars
      BY <2>1, <2>6 DEF Full, Down, vars, server, heap
    <2>7. QED
      BY <2>2, <2>3, <2>4, <2>5, <2>6
  <1>4. \A p \in Pkgs : Sending(p)' <=> Sending(p)
    BY <1>1 DEF Sending
  <1>5. QED
    BY <1>1, <1>2, <1>3, <1>4, QuietMsg DEF Quiet

\* A package that is given back.
LEMMA FinishFull ==
  ASSUME TypeOK, OwnInv, NEW w \in Workers, Finish(w), UNCHANGED <<pkg, srv>>,
         NEW x \in {"idle", "gone"}, wk' = [wk EXCEPT ![w] = x], NEW p \in Pkgs, Full(p)'
  PROVE  Full(p) /\ p # arg[w] /\ (Sending(p)' <=> Sending(p))
  <1>1. Full(p) /\ p # arg[w]
    BY DEF Full, Finish
  <1>2. \A v \in Workers : v # w => arg'[v] = arg[v] /\ wk'[v] = wk[v]
    BY DEF Finish, TypeOK
  <1>3. arg'[w] # p
    BY CtrlAssumption DEF Finish, TypeOK
  <1>4. QED
    BY <1>1, <1>2, <1>3 DEF Sending

LEMMA TakeMsg ==
  ASSUME TypeOK, OwnInv, MsgInv, NEW w \in Workers, Take(w) \/ CancelWorker(w)
  PROVE  MsgInv'
  <1>1. UNCHANGED <<ask, cl, inbox, executed, content, sock, pkg, srv>>
    BY DEF Take, CancelWorker, client, server, heap
  <1>2. ASSUME NEW p \in Pkgs, Full(p)' PROVE Full(p) /\ (Sending(p)' <=> Sending(p))
    <2>1. CASE Take(w)
      <3>1. Full(p) /\ wk[w] = "idle" /\ wk'[w] = "run" /\ \A v \in Workers : v # w => arg'[v] = arg[v] /\ wk'[v] = wk[v]
        BY <1>1, <1>2, <2>1 DEF Take, Full, TypeOK, heap
      <3>2. QED
        BY <3>1 DEF Sending
    <2>2. CASE CancelWorker(w)
      <3>1. CASE Finish(w)
        BY <1>1, <1>2, <2>2, <3>1, FinishFull DEF CancelWorker
      <3>2. CASE wk[w] = "idle" /\ UNCHANGED <<live, arg>>
        <4>1. wk'[w] = "gone" /\ \A v \in Workers : v # w => wk'[v] = wk[v]
          BY <2>2 DEF CancelWorker, TypeOK
        <4>2. QED
          BY <1>1, <1>2, <3>2, <4>1 DEF Full, Sending
      <3>3. QED
        BY <2>2, <3>1, <3>2 DEF CancelWorker
    <2>3. QED
      BY <2>1, <2>2
  <1>3. QED
    BY <1>1, <1>2, QuietMsg DEF Quiet

LEMMA ClientMsg ==
  ASSUME TypeOK, MsgInv, NEW c \in Clients, ReadType(c) \/ Kill(c)
  PROVE  MsgInv'
  <1>1. UNCHANGED <<ask, inbox, executed, content, sock, pkg, srv, live, arg, wk>>
    BY DEF ReadType, Kill, server, heap, worker
  <1>2. cl'[c] # "idle" /\ \A d \in Clients : d # c => cl'[d] = cl[d]
    <2>1. PICK x : x # "idle" /\ cl' = [cl EXCEPT ![c] = x]
      BY DEF ReadType, Kill
    <2>2. QED
      BY <2>1 DEF TypeOK
  <1>3. \A p \in Pkgs : (Full(p)' <=> Full(p)) /\ (Sending(p)' <=> Sending(p))
    BY <1>1 DEF Full, Sending
  <1>4. QED
    BY <1>1, <1>2, <1>3, QuietMsg DEF Quiet

LEMMA RecvAnswerMsg ==
  ASSUME TypeOK, MsgInv, NEW c \in Clients, RecvAnswer(c)
  PROVE  MsgInv'
  <1>1. UNCHANGED <<ask, executed, content, sock, pkg, srv, live, arg, wk>>
    BY DEF RecvAnswer, server, heap, worker
  <1>2. inbox[c] # <<>> /\ inbox[c] = <<ask[c].id>>
    BY DEF RecvAnswer, MsgInv, InboxInv
  <1>3. inbox'[c] = <<>>
    <2>1. inbox'[c] = Tail(inbox[c])
      BY DEF RecvAnswer, TypeOK
    <2>2. PICK n : inbox[c] = <<n>>
      BY <1>2
    <2>3. Tail(<<n>>) = <<>>
      OBVIOUS
    <2>4. QED
      BY <2>1, <2>2, <2>3
  <1>4. \A d \in Clients : d # c => inbox'[d] = inbox[d] /\ cl'[d] = cl[d]
    BY DEF RecvAnswer, TypeOK
  <1>5. \A p \in Pkgs : (Full(p)' <=> Full(p)) /\ (Sending(p)' <=> Sending(p))
    BY <1>1 DEF Full, Sending
  <1>6. \A m \in DOMAIN sock : sock[m].from \in Clients /\ sock[m].from # c
    BY <1>2, SockTyped DEF MsgInv, SockInv
  <1>7. \A p \in Pkgs : Full(p) => content[p].from \in Clients /\ content[p].from # c
    BY <1>2, RequestFields DEF MsgInv, FullInv
  <1>8. AskInv'
    BY <1>1 DEF MsgInv, AskInv
  <1>9. SockInv'
    BY <1>1, <1>4, <1>5, <1>6 DEF MsgInv, SockInv
  <1>10. FullInv'
    BY <1>1, <1>4, <1>5, <1>7 DEF MsgInv, FullInv
  <1>11. InboxInv'
    BY <1>1, <1>3, <1>4 DEF MsgInv, InboxInv
  <1>12. QED
    BY <1>8, <1>9, <1>10, <1>11 DEF MsgInv

LEMMA SendMsg ==
  ASSUME TypeOK, MsgInv, NEW c \in Clients, NEW t \in Types, NEW e \in 0 .. MaxEntries, Send(c, t, e)
  PROVE  MsgInv'
  <1>1. UNCHANGED <<inbox, executed, content, pkg, srv, live, arg, wk>>
    BY DEF Send, heap, worker
  <1>2. Calls + 1 \in Ids /\ \A d \in Clients : ask[d].id < Calls + 1
    BY FreshNumber DEF Send
  <1>3. PICK r \in Request : /\ r = [id |-> Calls + 1, from |-> c, type |-> t, entries |-> e]
                             /\ r.id = Calls + 1 /\ r.from = c
    <2>1. [id |-> Calls + 1, from |-> c, type |-> t, entries |-> e] \in Request
      BY <1>2 DEF Request
    <2>2. QED
      BY <2>1
  <1>4. ask'[c] = r /\ \A d \in Clients : d # c => ask'[d] = ask[d]
    BY <1>3 DEF Send, TypeOK
  <1>5. cl[c] = "idle" /\ cl'[c] # "idle" /\ \A d \in Clients : d # c => cl'[d] = cl[d]
    BY DEF Send, TypeOK
  <1>6. sock \in Seq(Request) /\ sock' = Append(sock, r)
    BY <1>4 DEF Send, TypeOK
  <1>7. PICK l : l = Len(sock) + 1
    OBVIOUS
  <1>8. /\ DOMAIN sock' = DOMAIN sock \cup {l} /\ l \notin DOMAIN sock /\ sock'[l] = r
        /\ \A m \in DOMAIN sock : sock'[m] = sock[m] /\ sock[m] \in Request /\ sock[m].from \in Clients
    BY <1>6, <1>7, SockTyped, AppendTo
  <1>9. \A p \in Pkgs : (Full(p)' <=> Full(p)) /\ (Sending(p)' <=> Sending(p))
    BY <1>1 DEF Full, Sending
  <1>10. inbox[c] = <<>>
    BY <1>5 DEF MsgInv, InboxInv
  <1>11. \A m \in DOMAIN sock : sock[m].from # c
    BY <1>5 DEF MsgInv, SockInv
  <1>12. \A p \in Pkgs : Full(p) => content[p].from \in Clients /\ content[p].from # c
    BY <1>5, RequestFields DEF MsgInv, FullInv
  <1>13. r.id \in Nat /\ r.id \in Ids /\ executed[r.id] = 0 /\ \A d \in Clients : ask[d].id < r.id
    BY <1>2, <1>3, RequestFields DEF MsgInv, AskInv
  <1>14. AskInv'
    <2>1. \A d \in Clients : ask'[d] \in Request => ask'[d].from = d
      BY <1>3, <1>4 DEF MsgInv, AskInv
    <2>2. \A d \in Clients : ask[d].id \in Nat /\ ask[d].id # r.id
      BY <1>13, AskFields
    <2>3. ASSUME NEW d \in Clients, NEW f \in Clients, ask'[d].id = ask'[f].id, ask'[d] \in Request PROVE d = f
      BY <1>4, <2>2, <2>3 DEF MsgInv, AskInv
    <2>4. ASSUME NEW n \in Ids, \A d \in Clients : ask'[d].id < n PROVE executed[n] = 0
      <3>1. ask'[c].id < n /\ n \in Nat
        BY <2>4, CtrlAssumption DEF Ids
      <3>2. ask[c].id < n
        BY <1>4, <1>13, <2>2, <3>1
      <3>3. \A d \in Clients : ask[d].id < n
        BY <1>4, <2>4, <3>2
      <3>4. QED
        BY <3>3 DEF MsgInv, AskInv
    <2>5. QED
      BY <1>1, <2>1, <2>3, <2>4 DEF AskInv
  <1>15. SockInv'
    <2>1. ASSUME NEW m \in DOMAIN sock'
          PROVE  /\ sock'[m] = ask'[sock'[m].from] /\ cl'[sock'[m].from] # "idle"
                 /\ inbox[sock'[m].from] = <<>>
                 /\ executed[sock'[m].id] = 0
                 /\ \A p \in Pkgs : Full(p) => content[p].from # sock'[m].from
      <3>1. CASE m = l
        BY <1>3, <1>4, <1>5, <1>8, <1>10, <1>12, <1>13, <3>1
      <3>2. CASE m \in DOMAIN sock
        BY <1>4, <1>5, <1>8, <1>11, <3>2 DEF MsgInv, SockInv
      <3>3. QED
        BY <1>8, <3>1, <3>2
    <2>2. \A m, n \in DOMAIN sock' : sock'[m].from = sock'[n].from => m = n
      BY <1>3, <1>8, <1>11 DEF MsgInv, SockInv
    <2>3. QED
      BY <1>1, <1>9, <2>1, <2>2 DEF SockInv
  <1>16. FullInv'
    BY <1>1, <1>4, <1>5, <1>9, <1>12 DEF MsgInv, FullInv
  <1>17. InboxInv'
    BY <1>1, <1>4, <1>5, <1>10 DEF MsgInv, InboxInv
  <1>18. QED
    BY <1>14, <1>15, <1>16, <1>17 DEF MsgInv

LEMMA RecvMsg ==
  ASSUME TypeOK, OwnInv, MsgInv, Recv
  PROVE  MsgInv'
  <1>1. UNCHANGED <<cl, ask, inbox, executed, pkg, live, arg, wk>> /\ srv = "recv" /\ srv' = "submit"
    BY DEF Recv, client, worker
  <1>2. sock \in Seq(Request) /\ sock # <<>> /\ sock' = Tail(sock)
    BY DEF Recv, TypeOK
  <1>3. PICK r \in Request : r = sock[1] /\ r = Head(sock)
    BY <1>2, TailOf
  <1>4. /\ 1 \in DOMAIN sock
        /\ \A m \in DOMAIN sock' : m + 1 \in DOMAIN sock /\ sock'[m] = sock[m + 1] /\ m \in Nat /\ m >= 1
    BY <1>2, TailOf
  <1>5. ASSUME NEW m \in DOMAIN sock' PROVE \E n \in DOMAIN sock : n = m + 1 /\ n # 1 /\ sock'[m] = sock[n]
    BY <1>4
  <1>6. pkg \in Pkgs /\ pkg \in live
    BY <1>1 DEF OwnInv, Holding, TypeOK
  <1>7. content'[pkg] = r /\ \A p \in Pkgs : p # pkg => content'[p] = content[p]
    BY <1>3, <1>6 DEF Recv, TypeOK
  <1>8. /\ \A p \in Pkgs : p # pkg => (Full(p)' <=> Full(p))
        /\ Full(pkg)' /\ ~Full(pkg)
        /\ \A p \in Pkgs : Sending(p)' <=> Sending(p)
    BY <1>1, <1>6 DEF Full, Sending
  <1>9. ~Sending(pkg)
    BY <1>1 DEF OwnInv, Holding, Sending
  <1>10. r = ask[r.from] /\ cl[r.from] # "idle" /\ inbox[r.from] = <<>> /\ executed[r.id] = 0
    BY <1>3, <1>4 DEF MsgInv, SockInv
  <1>11. \A p \in Pkgs : Full(p) => content[p].from # r.from
    BY <1>3, <1>4 DEF MsgInv, SockInv
  <1>12. AskInv'
    BY <1>1 DEF MsgInv, AskInv
  <1>13. SockInv'
    <2>1. ASSUME NEW m \in DOMAIN sock'
          PROVE  /\ sock'[m] = ask[sock'[m].from] /\ cl[sock'[m].from] # "idle"
                 /\ inbox[sock'[m].from] = <<>>
                 /\ executed[sock'[m].id] = 0
                 /\ sock'[m].from # r.from
                 /\ \A p \in Pkgs : Full(p) => content[p].from # sock'[m].from
      BY <1>3, <1>4, <1>5 DEF MsgInv, SockInv
    <2>2. ASSUME NEW m \in DOMAIN sock', NEW n \in DOMAIN sock', sock'[m].from = sock'[n].from PROVE m = n
      <3>1. m + 1 = n + 1
        BY <1>4, <2>2 DEF MsgInv, SockInv
      <3>2. QED
        BY <1>4, <3>1
    <2>3. \A m \in DOMAIN sock' : \A p \in Pkgs : Full(p)' => content'[p].from # sock'[m].from
      BY <1>7, <1>8, <2>1
    <2>4. QED
      BY <1>1, <2>1, <2>2, <2>3 DEF SockInv
  <1>14. FullInv'
    <2>1. ASSUME NEW p \in Pkgs, Full(p)'
          PROVE  /\ content'[p] \in Request
                 /\ content'[p] = ask[content'[p].from] /\ cl[content'[p].from] # "idle"
                 /\ inbox[content'[p].from] = <<>>
                 /\ executed[content'[p].id] = IF Sending(p) THEN 1 ELSE 0
      <3>1. CASE p = pkg
        BY <1>7, <1>9, <1>10, <3>1
      <3>2. CASE p # pkg
        BY <1>7, <1>8, <2>1, <3>2 DEF MsgInv, FullInv
      <3>3. QED
        BY <3>1, <3>2
    <2>2. \A p, q \in Pkgs : Full(p)' /\ Full(q)' /\ content'[p].from = content'[q].from => p = q
      BY <1>7, <1>8, <1>11 DEF MsgInv, FullInv
    <2>3. QED
      BY <1>1, <1>8, <2>1, <2>2 DEF FullInv
  <1>15. InboxInv'
    BY <1>1 DEF MsgInv, InboxInv
  <1>16. QED
    BY <1>12, <1>13, <1>14, <1>15 DEF MsgInv

\* The package of a worker holds a request.
LEMMA WorkHeld ==
  ASSUME TypeOK, OwnInv, MsgInv, NEW w \in Workers, wk[w] \in {"run", "send"}
  PROVE  /\ arg[w] \in Pkgs /\ Full(arg[w]) /\ content[arg[w]] \in Request
         /\ Sending(arg[w]) <=> wk[w] = "send"
  <1>1. arg[w] # NoPkg /\ arg[w] \in live /\ arg[w] \in Pkgs
    BY DEF OwnInv, TypeOK
  <1>2. Full(arg[w])
    BY <1>1 DEF OwnInv, Holding, Full
  <1>3. Sending(arg[w]) <=> wk[w] = "send"
    BY <1>1 DEF Sending, OwnInv
  <1>4. QED
    BY <1>1, <1>2, <1>3 DEF MsgInv, FullInv

LEMMA ExecuteMsg ==
  ASSUME TypeOK, OwnInv, MsgInv, NEW w \in Workers, Execute(w)
  PROVE  MsgInv'
  <1>1. UNCHANGED <<cl, ask, inbox, content, sock, pkg, srv>> /\ wk[w] = "run"
    BY DEF Execute, client, server
  <1>2. CASE Finish(w) /\ wk' = [wk EXCEPT ![w] = "idle"] /\ UNCHANGED executed
    <2>1. \A p \in Pkgs : Full(p)' => Full(p) /\ (Sending(p)' <=> Sending(p))
      BY <1>1, <1>2, FinishFull
    <2>2. QED
      BY <1>1, <1>2, <2>1, QuietMsg DEF Quiet
  <1>3. CASE UNCHANGED <<executed, wk, arg, live>>
    <2>1. \A p \in Pkgs : Full(p)' => Full(p) /\ (Sending(p)' <=> Sending(p))
      BY <1>1, <1>3 DEF Full, Sending
    <2>2. QED
      BY <1>1, <1>3, <2>1, QuietMsg DEF Quiet
  <1>4. CASE /\ executed' = [executed EXCEPT ![content[arg[w]].id] = @ + 1]
             /\ wk' = [wk EXCEPT ![w] = "send"]
             /\ UNCHANGED <<arg, live>>
    <2>1. PICK p \in Pkgs : p = arg[w] /\ Full(p) /\ ~Sending(p)
      BY <1>1, WorkHeld
    <2>2. PICK r \in Request : r = content[p]
      BY <1>1, <2>1, WorkHeld
    <2>3. r.id \in Ids /\ r.from \in Clients
      BY RequestFields
    <2>4. r = ask[r.from] /\ cl[r.from] # "idle" /\ inbox[r.from] = <<>> /\ executed[r.id] = 0
      BY <2>1, <2>2 DEF MsgInv, FullInv
    <2>5. executed'[r.id] = 1 /\ \A n \in Ids : n # r.id => executed'[n] = executed[n]
      <3>1. executed \in [Ids -> Nat] /\ executed' = [executed EXCEPT ![r.id] = executed[r.id] + 1]
        BY <1>4, <2>1, <2>2 DEF TypeOK
      <3>2. QED
        BY <2>3, <2>4, <3>1
    <2>6. \A q \in Pkgs : Full(q)' <=> Full(q)
      BY <1>1, <1>4 DEF Full
    <2>7. wk'[w] = "send" /\ \A v \in Workers : v # w => wk'[v] = wk[v]
      BY <1>4 DEF TypeOK
    <2>8. Sending(p)' /\ \A q \in Pkgs : q # p => (Sending(q)' <=> Sending(q))
      BY <1>4, <2>1, <2>7 DEF Sending
    <2>9. ASSUME NEW d \in Clients, ask[d] \in Request, d # r.from
          PROVE  ask[d].id # r.id /\ ask[d].id \in Ids /\ executed'[ask[d].id] = executed[ask[d].id]
      <3>1. ask[d].id # r.id
        BY <2>3, <2>4, <2>9 DEF MsgInv, AskInv
      <3>2. QED
        BY <2>5, <2>9, <3>1, RequestFields
    <2>10. AskInv'
      <3>1. ASSUME NEW n \in Ids, \A d \in Clients : ask[d].id < n PROVE executed'[n] = 0
        <4>1. r.id < n /\ r.id \in Nat /\ n \in Nat
          BY <2>3, <2>4, <3>1, RequestFields, CtrlAssumption DEF Ids
        <4>2. n # r.id
          BY <4>1
        <4>3. executed[n] = 0
          BY <3>1 DEF MsgInv, AskInv
        <4>4. QED
          BY <2>5, <4>2, <4>3
      <3>2. QED
        BY <1>1, <3>1 DEF MsgInv, AskInv
    <2>11. SockInv'
      <3>1. ASSUME NEW m \in DOMAIN sock PROVE executed'[sock[m].id] = 0
        <4>1. sock[m].from \in Clients /\ sock[m].from # r.from /\ ask[sock[m].from] = sock[m] /\ sock[m] \in Request
          BY <2>1, <2>2, SockTyped DEF MsgInv, SockInv
        <4>2. executed'[sock[m].id] = executed[sock[m].id]
          BY <2>9, <4>1
        <4>3. QED
          BY <4>2 DEF MsgInv, SockInv
      <3>2. QED
        BY <1>1, <2>6, <3>1 DEF MsgInv, SockInv
    <2>12. FullInv'
      <3>1. ASSUME NEW q \in Pkgs, Full(q) PROVE executed'[content[q].id] = IF Sending(q)' THEN 1 ELSE 0
        <4>1. CASE q = p
          BY <2>2, <2>5, <2>8, <4>1
        <4>2. CASE q # p
          <5>1. content[q] \in Request /\ content[q].from # r.from /\ ask[content[q].from] = content[q]
            BY <2>1, <2>2, <3>1, <4>2 DEF MsgInv, FullInv
          <5>2. executed'[content[q].id] = executed[content[q].id]
            BY <2>9, <5>1, RequestFields
          <5>3. QED
            BY <2>8, <3>1, <4>2, <5>2 DEF MsgInv, FullInv
        <4>3. QED
          BY <4>1, <4>2
      <3>2. QED
        BY <1>1, <2>6, <3>1 DEF MsgInv, FullInv
    <2>13. InboxInv'
      <3>1. ASSUME NEW c \in Clients, inbox[c] # <<>> PROVE executed'[ask[c].id] = 1
        <4>1. ask[c] \in Request /\ c # r.from /\ executed[ask[c].id] = 1
          BY <2>4, <3>1 DEF MsgInv, InboxInv
        <4>2. QED
          BY <2>9, <4>1
      <3>2. \A n \in Ids : executed'[n] \in {0, 1}
        BY <2>5 DEF MsgInv, InboxInv
      <3>3. QED
        BY <1>1, <3>1, <3>2 DEF MsgInv, InboxInv
    <2>14. QED
      BY <2>10, <2>11, <2>12, <2>13 DEF MsgInv
  <1>5. QED
    BY <1>2, <1>3, <1>4 DEF Execute

LEMMA AnswerMsg ==
  ASSUME TypeOK, OwnInv, MsgInv, NEW w \in Workers, Answer(w)
  PROVE  MsgInv'
  <1>1. UNCHANGED <<cl, ask, executed, content, sock, pkg, srv>> /\ wk[w] = "send"
    BY DEF Answer, server
  <1>2. CASE UNCHANGED <<inbox, live, arg, wk>>
    <2>1. \A p \in Pkgs : Full(p)' => Full(p) /\ (Sending(p)' <=> Sending(p))
      BY <1>1, <1>2 DEF Full, Sending
    <2>2. QED
      BY <1>1, <1>2, <2>1, QuietMsg DEF Quiet
  <1>3. CASE UNCHANGED inbox /\ Finish(w) /\ wk' = [wk EXCEPT ![w] = "idle"]
    <2>1. \A p \in Pkgs : Full(p)' => Full(p) /\ (Sending(p)' <=> Sending(p))
      BY <1>1, <1>3, FinishFull
    <2>2. QED
      BY <1>1, <1>3, <2>1, QuietMsg DEF Quiet
  <1>4. CASE /\ inbox' = [inbox EXCEPT ![content[arg[w]].from] = Append(@, content[arg[w]].id)]
             /\ Finish(w) /\ wk' = [wk EXCEPT ![w] = "idle"]
    <2>1. PICK p \in Pkgs : p = arg[w] /\ Full(p) /\ Sending(p)
      BY <1>1, WorkHeld
    <2>2. PICK r \in Request : r = content[p]
      BY <1>1, <2>1, WorkHeld
    <2>3. r.id \in Ids /\ r.from \in Clients
      BY RequestFields
    <2>4. r = ask[r.from] /\ cl[r.from] # "idle" /\ inbox[r.from] = <<>> /\ executed[r.id] = 1
      BY <2>1, <2>2 DEF MsgInv, FullInv
    <2>5. inbox'[r.from] = <<r.id>> /\ \A d \in Clients : d # r.from => inbox'[d] = inbox[d]
      <3>1. inbox' = [inbox EXCEPT ![r.from] = Append(inbox[r.from], r.id)]
        BY <1>4, <2>1, <2>2
      <3>2. Append(<<>>, r.id) = <<r.id>>
        OBVIOUS
      <3>3. QED
        BY <2>3, <2>4, <3>1, <3>2 DEF TypeOK
    <2>6. \A q \in Pkgs : Full(q)' => Full(q) /\ q # p /\ (Sending(q)' <=> Sending(q))
      BY <1>1, <1>4, <2>1, FinishFull
    <2>7. \A q \in Pkgs : Full(q) /\ q # p => content[q].from # r.from /\ content[q].from \in Clients
      BY <2>1, <2>2, RequestFields DEF MsgInv, FullInv
    <2>8. \A m \in DOMAIN sock : sock[m].from # r.from /\ sock[m].from \in Clients
      BY <2>1, <2>2, SockTyped DEF MsgInv, SockInv
    <2>9. AskInv'
      BY <1>1 DEF MsgInv, AskInv
    <2>10. SockInv'
      BY <1>1, <2>5, <2>6, <2>8 DEF MsgInv, SockInv
    <2>11. FullInv'
      BY <1>1, <2>5, <2>6, <2>7 DEF MsgInv, FullInv
    <2>12. InboxInv'
      BY <1>1, <2>4, <2>5 DEF MsgInv, InboxInv
    <2>13. QED
      BY <2>9, <2>10, <2>11, <2>12 DEF MsgInv
  <1>5. QED
    BY <1>2, <1>3, <1>4 DEF Answer

-----------------------------------------------------------------------------
LEMMA InitInv == Init => IInv
  BY InitType, InitOwn, InitMsg DEF IInv, MsgInv

LEMMA NextInv == IInv /\ [Next]_vars => IInv'
  <1> SUFFICES ASSUME TypeOK, OwnInv, MsgInv, [Next]_vars PROVE TypeOK' /\ OwnInv' /\ MsgInv'
    BY DEF IInv, MsgInv
  <1>1. CASE \E c \in Clients : (\E t \in Types, e \in 0 .. MaxEntries : Send(c, t, e)) \/ ClientStep(c) \/ Kill(c)
    <2>1. PICK c \in Clients : (\E t \in Types, e \in 0 .. MaxEntries : Send(c, t, e)) \/ ClientStep(c) \/ Kill(c)
      BY <1>1
    <2>2. UNCHANGED own
      BY <2>1 DEF own, Send, ClientStep, ReadType, RecvAnswer, Kill, server, heap, worker
    <2>3. QED
      BY <2>1, <2>2, ClientType, OwnSame, SendMsg, ClientMsg, RecvAnswerMsg DEF ClientStep
  <1>2. CASE ServerStep \/ Stop
    BY <1>2, ServerType, ServerOwn, ServerMsg, RecvMsg DEF ServerStep
  <1>3. CASE \E w \in Workers : WorkerStep(w) \/ CancelWorker(w)
    <2>1. FullInv
      BY DEF MsgInv
    <2>2. QED
      BY <1>3, <2>1, WorkerType, WorkerOwn, TakeMsg, ExecuteMsg, AnswerMsg DEF WorkerStep
  <1>4. CASE Down
    <2>1. UNCHANGED own
      BY <1>4 DEF own, Down, server, heap, worker
    <2>2. QED
      BY <1>4, <2>1, ServerType, OwnSame, ServerMsg
  <1>5. CASE UNCHANGED vars
    <2>1. UNCHANGED own /\ TypeOK'
      BY <1>5 DEF own, vars, client, server, heap, worker, TypeOK
    <2>2. QED
      BY <1>5, <2>1, OwnSame, ServerMsg
  <1>6. QED
    BY <1>1, <1>2, <1>3, <1>4, <1>5 DEF Next

\* Type correctness, the owners of packages and the places of requests, which
\* the theorems below rest on.
THEOREM Invariance == Spec => []IInv
  BY InitInv, NextInv, PTL DEF Spec

\* As long as recvfrom does not fail, a package belongs to one task or to the
\* server that fills it or hands it over: no task finds its package freed or
\* taken, and what is leaked is at most the one package that the server was
\* waiting to hand over when it was cancelled.  For any number of clients and
\* workers, any supply of packages and length of the queue, kills and a stop.
THEOREM PackagesOwned == Spec => []PackageOwned
  <1>1. IInv => PackageOwned
    BY OwnedOnce DEF IInv
  <1>2. QED
    BY <1>1, Invariance, PTL

\* The datagram that a client reads answers the request it has made, and no
\* request is carried out twice.
THEOREM RequestsOnce == Spec => []AnsweredOnce
  <1>1. IInv => AnsweredOnce
    <2> SUFFICES ASSUME IInv PROVE AnsweredOnce
      OBVIOUS
    <2>1. ASSUME NEW c \in Clients, NEW n \in 1 .. Len(inbox[c])
          PROVE  inbox[c][n] = ask[c].id /\ executed[ask[c].id] = 1
      <3>1. inbox[c] # <<>>
        BY <2>1
      <3>2. inbox[c] = <<ask[c].id>> /\ executed[ask[c].id] = 1
        BY <3>1 DEF IInv, InboxInv
      <3>3. Len(<<ask[c].id>>) = 1 /\ <<ask[c].id>>[1] = ask[c].id
        OBVIOUS
      <3>4. n = 1
        BY <3>2, <3>3
      <3>5. QED
        BY <3>2, <3>3, <3>4
    <2>2. \A n \in Ids : executed[n] <= 1
      BY DEF IInv, InboxInv
    <2>3. QED
      BY <2>1, <2>2 DEF AnsweredOnce
  <1>2. QED
    BY <1>1, Invariance, PTL
=============================================================================
