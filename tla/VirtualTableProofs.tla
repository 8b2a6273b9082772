------------------------- MODULE VirtualTableProofs -------------------------
(***************************************************************************)
(* Theorems about VirtualTable, for every table, every command and every   *)
(* way the process and the pipe behave: no scan leaves a process behind.   *)
(***************************************************************************)
EXTENDS VirtualTable, TLAPS

-----------------------------------------------------------------------------
(* The inductive invariant                                                 *)

Fields == {"host", "out", "code", "st", "pipe", "fd"}

\* The processes are a sequence, and their records have the fields they had.
ProcsInv ==
    /\ procs \in Seq(ToSet(procs))
    /\ \A p \in DOMAIN procs : DOMAIN procs[p] = Fields
    /\ DOMAIN cur = {"proc", "rowid", "first"}

\* Only a scan that is under way has a process.
ScanInv == pc \in {"new", "connected", "open", "eof", "failed", "closed", "gone"} => cur.proc = 0

\* It is the only one that has not been waited for.
OthersInv ==
    \A p \in DOMAIN procs : p # cur.proc => procs[p].st = "reaped" /\ procs[p].fd = FALSE

IInv == ProcsInv /\ (~Forgets => ScanInv /\ OthersInv)

-----------------------------------------------------------------------------
(* The processes                                                           *)

\* A process that is started is a new one.
LEMMA Started ==
    ASSUME NEW s, s \in Seq(ToSet(s)), NEW x
    PROVE  LET t == Append(s, x)
           IN  /\ t \in Seq(ToSet(t))
               /\ DOMAIN t = DOMAIN s \cup {Len(t)} /\ Len(t) \notin DOMAIN s
               /\ t[Len(t)] = x /\ \A p \in DOMAIN s : t[p] = s[p]
<1> DEFINE t == Append(s, x)
           S == ToSet(s) \cup {x}
<1>1. s \in Seq(S) /\ x \in S
  BY DEF S
<1> HIDE DEF S
<1>2. /\ t \in Seq(S) /\ Len(s) \in Nat /\ Len(t) = Len(s) + 1
      /\ DOMAIN s = 1..Len(s) /\ DOMAIN t = 1..Len(t)
      /\ t[Len(t)] = x /\ \A p \in 1..Len(s) : t[p] = s[p]
  BY <1>1
<1> HIDE DEF t
<1>3. t = [p \in 1..Len(t) |-> t[p]]
  BY <1>2
<1>4. \A p \in 1..Len(t) : t[p] \in ToSet(t)
  BY <1>2 DEF ToSet
<1>5. t \in Seq(ToSet(t))
  BY <1>2, <1>3, <1>4
<1>6. DOMAIN t = DOMAIN s \cup {Len(t)} /\ Len(t) \notin DOMAIN s
  BY <1>2
<1> QED  BY <1>2, <1>5, <1>6 DEF t

\* What happens to one process leaves the others alone.
LEMMA Changed ==
    ASSUME NEW s, s \in Seq(ToSet(s)), NEW p \in DOMAIN s, NEW x
    PROVE  LET t == [s EXCEPT ![p] = x]
           IN  /\ t \in Seq(ToSet(t)) /\ DOMAIN t = DOMAIN s
               /\ t[p] = x /\ \A q \in DOMAIN s : q # p => t[q] = s[q]
<1> DEFINE t == [s EXCEPT ![p] = x]
<1>1. Len(s) \in Nat /\ DOMAIN s = 1..Len(s)
  OBVIOUS
<1>2. DOMAIN t = 1..Len(s) /\ t[p] = x /\ \A q \in DOMAIN s : q # p => t[q] = s[q]
  BY <1>1
<1>3. t = [q \in 1..Len(s) |-> t[q]]
  BY <1>2
<1> HIDE DEF t
<1>4. \A q \in 1..Len(s) : t[q] \in ToSet(t)
  BY <1>2 DEF ToSet
<1>5. t \in Seq(ToSet(t))
  BY <1>1, <1>3, <1>4
<1> QED  BY <1>1, <1>2, <1>5 DEF t

\* What a process does by itself: it is not one that has been waited for.
Moves(p, x) ==
    /\ procs[p].st # "reaped" /\ DOMAIN x = Fields
    /\ procs' = [procs EXCEPT ![p] = x]
    /\ UNCHANGED <<vt, pc, cur>>

LEMMA MoveStep ==
    ASSUME IInv, NEW p \in DOMAIN procs, NEW x, Moves(p, x)
    PROVE  IInv'
<1>1. /\ procs' \in Seq(ToSet(procs')) /\ DOMAIN procs' = DOMAIN procs
      /\ procs'[p] = x /\ \A q \in DOMAIN procs : q # p => procs'[q] = procs[q]
  BY Changed DEF IInv, ProcsInv, Moves
<1>2. ProcsInv'
  BY <1>1 DEF IInv, ProcsInv, Moves
<1>3. ASSUME ~Forgets' PROVE ScanInv' /\ OthersInv'
  <2>1. ~Forgets
    BY <1>3 DEF Forgets, Moves
  <2>2. p = cur.proc
    BY <2>1 DEF IInv, OthersInv, Moves
  <2> QED  BY <1>1, <2>1, <2>2 DEF IInv, ScanInv, OthersInv, Moves
<1> QED  BY <1>2, <1>3 DEF IInv

LEMMA ChildStep ==
    ASSUME IInv, NEW p \in DOMAIN procs, Child(p) \/ Dies(p)
    PROVE  IInv'
<1>1. DOMAIN procs[p] = Fields
  BY DEF IInv, ProcsInv
<1>2. CASE Exit(p)
  <2> DEFINE x == [procs[p] EXCEPT !.st = "exited"]
  <2>1. DOMAIN x = Fields
    BY <1>1
  <2>2. Moves(p, x)
    BY <1>2, <2>1 DEF Exit, Moves
  <2> QED  BY <2>2, MoveStep
<1>3. CASE Dies(p)
  <2> DEFINE x == [procs[p] EXCEPT !.st = "exited", !.code = 1, !.out = <<>>]
  <2>1. DOMAIN x = Fields
    BY <1>1
  <2>2. Moves(p, x)
    BY <1>3, <2>1 DEF Dies, Moves
  <2> QED  BY <2>2, MoveStep
<1>4. CASE Write(p)
  <2>1. PICK n \in 1..(vt.pipe - Len(procs[p].pipe)) :
           procs' = [procs EXCEPT ![p].pipe = @ \o SubSeq(procs[p].out, 1, n),
                                  ![p].out = SubSeq(@, n + 1, Len(@))]
    BY <1>4 DEF Write
  <2> DEFINE pipe == procs[p].pipe \o SubSeq(procs[p].out, 1, n)
             out == SubSeq(procs[p].out, n + 1, Len(procs[p].out))
             y == [procs[p] EXCEPT !.pipe = pipe]
             x == [y EXCEPT !.out = out]
             mid == [procs EXCEPT ![p] = y]
  <2>2. DOMAIN y = Fields /\ DOMAIN x = Fields /\ y.out = procs[p].out
    BY <1>1 DEF Fields
  <2>3. mid[p] = y
    OBVIOUS
  <2>4. procs' = [mid EXCEPT ![p].out = SubSeq(@, n + 1, Len(@))]
    BY <2>1
  <2>5. procs' = [mid EXCEPT ![p] = x]
    BY <2>2, <2>3, <2>4
  <2> HIDE DEF x, y
  <2>6. [mid EXCEPT ![p] = x] = [procs EXCEPT ![p] = x]
    OBVIOUS
  <2>7. Moves(p, x)
    BY <1>4, <2>2, <2>5, <2>6 DEF Write, Moves
  <2> QED  BY <2>7, MoveStep
<1> QED  BY <1>2, <1>3, <1>4 DEF Child

-----------------------------------------------------------------------------
(* The methods of the table                                                *)

\* Neither the processes nor the one of the scan change.
LEMMA QuietStep ==
    ASSUME IInv, UNCHANGED <<vt, procs, cur>>, pc' \in {"norow", "reading", "closing"} \/ ScanInv'
    PROVE  IInv'
<1>1. Forgets' = Forgets
  BY DEF Forgets
<1>2. ScanInv' \/ Forgets
  BY <1>1 DEF ScanInv
<1> QED  BY <1>1, <1>2 DEF IInv, ProcsInv, OthersInv

LEMMA InitIs == VInit => IInv
<1> SUFFICES ASSUME VInit PROVE IInv
  OBVIOUS
<1>1. procs = <<>> /\ cur = NoCursor
  BY DEF VInit
<1>2. DOMAIN procs = {} /\ procs \in Seq(ToSet(procs))
  BY <1>1
<1> QED  BY <1>1, <1>2 DEF IInv, ProcsInv, ScanInv, OthersInv, NoCursor

LEMMA ConnectStep == ASSUME IInv, Connect PROVE IInv'
<1>1. UNCHANGED <<vt, procs, cur>> /\ pc = "new"
  BY DEF Connect
<1>2. Forgets \/ cur.proc = 0
  BY <1>1 DEF IInv, ScanInv
<1> QED  BY <1>1, <1>2 DEF IInv, ProcsInv, OthersInv, ScanInv, Forgets

LEMMA OpenStep == ASSUME IInv, Open PROVE IInv'
<1>1. UNCHANGED <<vt, procs>> /\ cur' = NoCursor /\ pc \in {"connected", "closed"}
  BY DEF Open
<1>2. cur'.proc = 0 /\ DOMAIN cur' = {"proc", "rowid", "first"}
  BY <1>1 DEF NoCursor
<1>3. Forgets' = Forgets
  BY <1>1 DEF Forgets
<1>4. Forgets \/ cur.proc = 0
  BY <1>1 DEF IInv, ScanInv
<1> QED  BY <1>1, <1>2, <1>3, <1>4 DEF IInv, ProcsInv, OthersInv, ScanInv

LEMMA DisconnectStep == ASSUME IInv, Disconnect PROVE IInv'
<1>1. UNCHANGED <<vt, procs, cur>> /\ pc \in {"connected", "closed"}
  BY DEF Disconnect
<1> QED  BY <1>1 DEF IInv, ProcsInv, OthersInv, ScanInv, Forgets

\* The process that xFilter starts is that of the scan, and if there was
\* another one it was forgotten.
LEMMA FilterStep == ASSUME IInv, Filter PROVE IInv'
<1>1. vt' = vt /\ (pc \in {"open", "eof"} \/ "filter" \in vt.early)
  BY DEF Filter
<1>2. Forgets' = Forgets /\ (Forgets \/ cur.proc = 0)
  BY <1>1 DEF Forgets, IInv, ScanInv
<1>3. CASE pc' = "failed" /\ UNCHANGED <<procs, cur>>
  BY <1>2, <1>3 DEF IInv, ProcsInv, OthersInv, ScanInv
<1>4. CASE pc' = "reading" /\ \E x : procs' = Append(procs, x) /\ DOMAIN x = Fields
                                     /\ cur' = [proc |-> Len(procs'), rowid |-> 0, first |-> TRUE]
  <2>1. PICK x : procs' = Append(procs, x) /\ DOMAIN x = Fields
    BY <1>4
  <2>2. cur'.proc = Len(procs') /\ DOMAIN cur' = {"proc", "rowid", "first"}
    BY <1>4
  <2>3. /\ procs' \in Seq(ToSet(procs'))
        /\ DOMAIN procs' = DOMAIN procs \cup {Len(procs')} /\ Len(procs') \notin DOMAIN procs
        /\ procs'[Len(procs')] = x /\ \A p \in DOMAIN procs : procs'[p] = procs[p]
    BY <2>1, Started DEF IInv, ProcsInv
  <2>4. ProcsInv'
    BY <2>1, <2>2, <2>3 DEF IInv, ProcsInv
  <2>5. Forgets \/ OthersInv'
    <3> SUFFICES ASSUME ~Forgets, NEW p \in DOMAIN procs', p # cur'.proc
                 PROVE  procs'[p].st = "reaped" /\ procs'[p].fd = FALSE
      BY DEF OthersInv
    <3>1. p \in DOMAIN procs
      BY <2>2, <2>3
    <3>2. 0 \notin DOMAIN procs
      BY DEF IInv, ProcsInv
    <3> QED  BY <1>2, <2>3, <3>1, <3>2 DEF IInv, OthersInv
  <2> QED  BY <1>2, <1>4, <2>4, <2>5 DEF IInv, ScanInv
<1>5. DOMAIN RunProcess = Fields /\ \A c : DOMAIN Process(c) = Fields
  BY DEF RunProcess, Process, Fields
<1> QED  BY <1>3, <1>4, <1>5 DEF Filter

LEMMA ReadStep == ASSUME IInv, Read PROVE IInv'
<1>1. pc = "reading" /\ vt' = vt /\ Take(WantedBytes)
  BY DEF Read
<1> DEFINE p == cur.proc
           pipe == SubSeq(procs[p].pipe, WantedBytes + 1, Len(procs[p].pipe))
           x == [procs[p] EXCEPT !.pipe = pipe]
<1>2. procs' = [procs EXCEPT ![p] = x]
  BY <1>1 DEF Take
<1> HIDE DEF pipe
<1>3. cur'.proc = cur.proc /\ DOMAIN cur' = DOMAIN cur
  <2>1. \A r \in BOOLEAN : \A i :
          LET c == [cur EXCEPT !.first = r, !.rowid = i] IN c.proc = cur.proc /\ DOMAIN c = DOMAIN cur
    BY DEF IInv, ProcsInv
  <2>2. cur' = cur \/ \E i : cur' = [cur EXCEPT !.first = FALSE, !.rowid = i]
    BY <1>1 DEF Take
  <2> QED  BY <2>1, <2>2
<1>4. pc' \in {"reading", "row", "norow"}
  BY <1>1 DEF Take
<1>5. CASE p \in DOMAIN procs
  <2>1. DOMAIN x = Fields /\ x.st = procs[p].st
    BY <1>5 DEF IInv, ProcsInv, Fields
  <2> HIDE DEF x
  <2>2. /\ procs' \in Seq(ToSet(procs')) /\ DOMAIN procs' = DOMAIN procs
        /\ procs'[p] = x /\ \A q \in DOMAIN procs : q # p => procs'[q] = procs[q]
    BY <1>2, <1>5, Changed DEF IInv, ProcsInv
  <2>3. ProcsInv'
    BY <1>3, <2>1, <2>2 DEF IInv, ProcsInv
  <2>4. Forgets' = Forgets /\ (Forgets \/ (ScanInv' /\ OthersInv'))
    BY <1>1, <1>3, <1>4, <2>1, <2>2 DEF IInv, OthersInv, ScanInv, Forgets
  <2> QED  BY <2>3, <2>4 DEF IInv
<1>6. CASE p \notin DOMAIN procs
  <2>1. procs' = procs
    BY <1>2, <1>6 DEF IInv, ProcsInv
  <2> QED  BY <1>1, <1>3, <1>4, <2>1 DEF IInv, ProcsInv, OthersInv, ScanInv, Forgets
<1> QED  BY <1>5, <1>6

\* The process of the scan has been waited for, and the scan has none.
LEMMA Close0Step ==
    ASSUME IInv, NEW next, Close0(next), vt' = vt
    PROVE  IInv'
<1> DEFINE p == cur.proc
           x == [procs[p] EXCEPT !.st = "reaped", !.fd = FALSE]
<1>1. procs' = [procs EXCEPT ![p] = x] /\ cur' = [cur EXCEPT !.proc = 0]
  BY DEF Close0, Reap
<1>2. cur'.proc = 0 /\ DOMAIN cur' = DOMAIN cur
  BY <1>1 DEF IInv, ProcsInv
<1>3. Forgets' = Forgets
  BY DEF Forgets
<1>4. CASE p \in DOMAIN procs
  <2>1. DOMAIN x = Fields /\ x.st = "reaped" /\ x.fd = FALSE
    BY <1>4 DEF IInv, ProcsInv, Fields
  <2> HIDE DEF x
  <2>2. /\ procs' \in Seq(ToSet(procs')) /\ DOMAIN procs' = DOMAIN procs
        /\ procs'[p] = x /\ \A q \in DOMAIN procs : q # p => procs'[q] = procs[q]
    BY <1>1, <1>4, Changed DEF IInv, ProcsInv
  <2>3. ProcsInv'
    BY <1>2, <2>1, <2>2 DEF IInv, ProcsInv
  <2>4. Forgets \/ (ScanInv' /\ OthersInv')
    BY <1>2, <2>1, <2>2 DEF IInv, OthersInv, ScanInv
  <2> QED  BY <1>3, <2>3, <2>4 DEF IInv
<1>5. CASE p \notin DOMAIN procs
  <2>1. procs' = procs
    BY <1>1, <1>5 DEF IInv, ProcsInv
  <2> QED  BY <1>2, <1>3, <1>5, <2>1 DEF IInv, ProcsInv, OthersInv, ScanInv
<1> QED  BY <1>4, <1>5

LEMMA CloseStep == ASSUME IInv, Close PROVE IInv'
<1>1. UNCHANGED <<vt, procs>> /\ Forgets' = Forgets
  BY DEF Close, Forgets
<1>2. CASE cur.proc # 0 /\ vt.kind # "run"
  <2>1. pc' = "closing" /\ cur' = cur
    BY <1>2 DEF Close
  <2> QED  BY <1>1, <2>1 DEF IInv, ProcsInv, OthersInv, ScanInv
<1>3. CASE ~(cur.proc # 0 /\ vt.kind # "run")
  <2>1. pc' = "closed" /\ cur' = NoCursor
    BY <1>3 DEF Close
  <2>2. cur'.proc = 0 /\ DOMAIN cur' = {"proc", "rowid", "first"}
    BY <2>1 DEF NoCursor
  <2>3. Forgets \/ cur.proc = 0
    BY <1>3 DEF Close, Forgets, IInv, ScanInv
  <2> QED  BY <1>1, <2>1, <2>2, <2>3 DEF IInv, ProcsInv, OthersInv, ScanInv
<1> QED  BY <1>2, <1>3

-----------------------------------------------------------------------------
(* The theorems                                                            *)

LEMMA NextIs == IInv /\ [VNext]_vvars => IInv'
<1> SUFFICES ASSUME IInv, [VNext]_vvars PROVE IInv'
  OBVIOUS
<1>1. CASE ReadEof
  BY <1>1, QuietStep DEF ReadEof
<1>2. CASE NextRow
  BY <1>2, QuietStep DEF NextRow
<1>3. CASE NoRow
  <2>1. vt' = vt /\ \E next : Close0(next)
    BY <1>3 DEF NoRow
  <2> QED  BY <2>1, Close0Step
<1>4. CASE Closing
  BY <1>4, Close0Step DEF Closing
<1>5. CASE UNCHANGED vvars
  BY <1>5 DEF vvars, IInv, ProcsInv, OthersInv, ScanInv, Forgets
<1>6. CASE \E p \in DOMAIN procs : Child(p) \/ Dies(p)
  BY <1>6, ChildStep
<1>7. CASE Connect \/ Open \/ Disconnect \/ Filter \/ Read \/ Close
  BY <1>7, ConnectStep, OpenStep, DisconnectStep, FilterStep, ReadStep, CloseStep
<1> QED  BY <1>1, <1>2, <1>3, <1>4, <1>5, <1>6, <1>7 DEF VNext, Reader

\* In every state of a table a process that is not that of the scan under way
\* has been waited for (gufi_vtEof, gufi_vtClose).
THEOREM Invariant == VSpec => []IInv
<1>1. VInit => IInv
  BY InitIs
<1>2. IInv /\ [VNext]_vvars => IInv'
  BY NextIs
<1> QED  BY <1>1, <1>2, PTL DEF VSpec

\* A scan that is over has left no process and no open pipe, however often
\* the table is scanned and however the process ends (gufi_vtEof,
\* gufi_vtFilter, gufi_vtClose).
THEOREM LeavesNoProcess == VSpec => []NoProcessLeft
<1>1. IInv => NoProcessLeft
  <2> SUFFICES ASSUME IInv, ~Forgets, pc \in {"eof", "failed", "closed", "gone"},
                      NEW p \in DOMAIN procs
               PROVE  procs[p].st = "reaped" /\ ~procs[p].fd
    BY DEF NoProcessLeft
  <2>1. cur.proc = 0 /\ 0 \notin DOMAIN procs
    BY DEF IInv, ScanInv, ProcsInv
  <2> QED  BY <2>1 DEF IInv, OthersInv
<1> QED  BY <1>1, Invariant, PTL
=============================================================================
