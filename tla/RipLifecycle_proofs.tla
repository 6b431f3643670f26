------------------------- MODULE RipLifecycle_proofs -------------------------
(***************************************************************************)
(* Proofs about RipLifecycle, for any programs, files and bounds: type     *)
(* correctness; that the cache is sound and a row means what it says while *)
(* one connection, of whichever program, scans and identifies; and that no *)
(* closed attempt is touched again while one program's worker does.        *)
(***************************************************************************)
EXTENDS RipLifecycle, TLAPS

\* The row an identification works on exists and is of the file at hand, and
\* so is the one an upsert found, if it found one.
KnownRow(c) == local[c].id \in 1..Len(rows) /\ rows[local[c].id].file = local[c].file
IdsKnown ==
  \A c \in Conns :
    /\ pc[c] \in Identifying => KnownRow(c)
    /\ pc[c] = "upsert" /\ local[c].id # 0 => KnownRow(c)
    /\ pc[c] \in {"link", "unmark"} => local[c].copy.file = local[c].file

TypeInv == RipTypeOK /\ IdsKnown

LEMMA FoundByPath ==
  ASSUME RipTypeOK, NEW f \in Files
  PROVE  \/ FindByPath(f) = 0
         \/ FindByPath(f) \in 1..Len(rows) /\ rows[FindByPath(f)].file = f
<1>1. CASE RowsOf(f) = {}
  BY <1>1 DEF FindByPath
<1>2. CASE RowsOf(f) # {}
  <2>1. FindByPath(f) \in RowsOf(f)
    BY <1>2 DEF FindByPath
  <2>2. QED
    BY <2>1 DEF RowsOf
<1>3. QED
  BY <1>1, <1>2

LEMMA NoLocalsType == NoLocals \in Locals
<1>1. AnyFile \in Files /\ AnyToc \in Tocs
  BY DataAssumption DEF AnyFile, AnyToc
<1>2. NoRow \in RipFile
  BY <1>1 DEF NoRow, RipFile, IdentificationState
<1>3. QED
  BY <1>1, <1>2 DEF NoLocals, Locals

\* What the actions do to the typed parts of the state, one lemma each.
LEMMA RowUpdate ==
  ASSUME RipTypeOK, NEW i \in 1..Len(rows), NEW r \in RipFile,
         rows' = [rows EXCEPT ![i] = r]
  PROVE  /\ rows' \in Seq(RipFile) /\ Len(rows') = Len(rows)
         /\ rows'[i] = r
         /\ \A j \in 1..Len(rows) : j # i => rows'[j] = rows[j]
BY DEF RipTypeOK

LEMMA RowsAreFiles ==
  ASSUME RipTypeOK, NEW i \in 1..Len(rows)
  PROVE  rows[i] \in RipFile /\ rows[i].file \in Files /\ rows[i].stamp \in Nat
         /\ rows[i].disc \in Tocs \cup {None} /\ rows[i].state \in IdentificationState
<1>1. rows[i] \in RipFile
  BY DEF RipTypeOK
<1>2. QED
  BY <1>1 DEF RipFile

LEMMA LocalsAreTyped ==
  ASSUME RipTypeOK, NEW c \in Conns
  PROVE  /\ local[c] \in Locals /\ local[c].file \in Files /\ local[c].stamp \in Nat
         /\ local[c].id \in Nat /\ local[c].keep \in IdentificationState \cup {None}
         /\ local[c].copy \in RipFile /\ local[c].toc \in Tocs /\ local[c].attempt \in Nat
         /\ local[c].identify \in BOOLEAN /\ local[c].force \in BOOLEAN
<1>1. local[c] \in Locals
  BY DEF RipTypeOK
<1>2. QED
  BY <1>1 DEF Locals

LEMMA NewRowType ==
  ASSUME RipTypeOK, NEW c \in Conns
  PROVE  NewRow(local[c]) \in RipFile /\ NewRow(local[c]).file = local[c].file
<1>1. NewState(local[c]) \in IdentificationState
  BY LocalsAreTyped DEF NewState, IdentificationState
<1>2. QED
  BY <1>1, LocalsAreTyped DEF NewRow, RipFile

-----------------------------------------------------------------------------
\* A step that leaves the rows' number and files alone, and moves one
\* connection along without changing its file, keeps the ids known.
LEMMA RowsKeepIds ==
  ASSUME TypeInv, NEW c \in Conns,
         Len(rows') = Len(rows),
         \A i \in 1..Len(rows) : rows'[i].file = rows[i].file,
         \A d \in Conns : d # c => pc'[d] = pc[d] /\ local'[d] = local[d],
         pc'[c] \in Identifying => KnownRow(c)',
         pc'[c] = "upsert" /\ local'[c].id # 0 => KnownRow(c)',
         pc'[c] \in {"link", "unmark"} => local'[c].copy.file = local'[c].file
  PROVE  IdsKnown'
<1> SUFFICES ASSUME NEW d \in Conns
             PROVE  /\ pc'[d] \in Identifying => KnownRow(d)'
                    /\ pc'[d] = "upsert" /\ local'[d].id # 0 => KnownRow(d)'
                    /\ pc'[d] \in {"link", "unmark"} => local'[d].copy.file = local'[d].file
  BY DEF IdsKnown
<1>1. CASE d = c
  BY <1>1
<1>2. CASE d # c
  BY <1>2 DEF TypeInv, IdsKnown, KnownRow
<1>3. QED
  BY <1>1, <1>2

\* A statement that moves connection c along and may set its locals.
LEMMA PcMoves ==
  ASSUME RipTypeOK, NEW c \in Conns,
         NEW where \in {"down", "idle"} \cup Recovering \cup Ingesting \cup Identifying,
         Goto(c, where)
  PROVE  /\ pc' \in [Conns -> {"down", "idle"} \cup Recovering \cup Ingesting \cup Identifying]
         /\ pc'[c] = where
         /\ \A d \in Conns : d # c => pc'[d] = pc[d]
BY DEF RipTypeOK, Goto

LEMMA LocalsMove ==
  ASSUME RipTypeOK, NEW c \in Conns, NEW l \in Locals, local' = [local EXCEPT ![c] = l]
  PROVE  local' \in [Conns -> Locals] /\ local'[c] = l
         /\ \A d \in Conns : d # c => local'[d] = local[d]
BY DEF RipTypeOK

LEMMA Returning ==
  ASSUME RipTypeOK, NEW c \in Conns, Return(c)
  PROVE  /\ pc' \in [Conns -> {"down", "idle"} \cup Recovering \cup Ingesting \cup Identifying]
         /\ pc'[c] = "idle" /\ local' \in [Conns -> Locals] /\ local'[c] = NoLocals
         /\ \A d \in Conns : d # c => pc'[d] = pc[d] /\ local'[d] = local[d]
<1>1. Goto(c, "idle") /\ local' = [local EXCEPT ![c] = NoLocals]
  BY DEF Return
<1>2. /\ pc' \in [Conns -> {"down", "idle"} \cup Recovering \cup Ingesting \cup Identifying]
      /\ pc'[c] = "idle" /\ \A d \in Conns : d # c => pc'[d] = pc[d]
  BY <1>1, PcMoves
<1>3. QED
  BY <1>1, <1>2, LocalsMove, NoLocalsType

LEMMA RecoveredRows ==
  ASSUME RipTypeOK, NEW c \in Conns, RecoverRips(c)
  PROVE  /\ rows' \in Seq(RipFile) /\ Len(rows') = Len(rows)
         /\ \A i \in 1..Len(rows) : /\ rows'[i].file = rows[i].file
                                    /\ rows'[i].stamp = rows[i].stamp
                                    /\ rows'[i].disc = rows[i].disc
<1> DEFINE R(i) == IF rows[i].state = "working" THEN [rows[i] EXCEPT !.state = "queued"]
                   ELSE rows[i]
<1>1. \A i \in 1..Len(rows) : R(i) \in RipFile
  BY RowsAreFiles DEF RipFile, IdentificationState
<1>2. \A i \in 1..Len(rows) : /\ R(i).file = rows[i].file /\ R(i).stamp = rows[i].stamp
                              /\ R(i).disc = rows[i].disc
  BY RowsAreFiles DEF RipFile
<1>3. rows' = [i \in 1..Len(rows) |-> R(i)]
  BY DEF RecoverRips, RipTypeOK
<1> HIDE DEF R
<1>4. QED
  BY <1>1, <1>2, <1>3 DEF RipTypeOK

LEMMA CloseType ==
  ASSUME RipTypeOK, NEW a, NEW status \in {"resolved", "unidentified"}, Close(a, status)
  PROVE  attempts' \in Seq({"working", "resolved", "unidentified", "interrupted"})
<1> DEFINE T == {"working", "resolved", "unidentified", "interrupted"}
<1>1. attempts \in Seq(T) /\ status \in T
  BY DEF RipTypeOK
<1> HIDE DEF T
<1>2. [attempts EXCEPT ![a] = status] \in Seq(T)
  <2>1. Len(attempts) \in Nat /\ attempts \in [1..Len(attempts) -> T]
    BY <1>1
  <2>2. [attempts EXCEPT ![a] = status] \in [1..Len(attempts) -> T]
    BY <1>1, <2>1, Zenon
  <2>3. QED
    BY <2>1, <2>2
<1>3. QED
  BY <1>2 DEF Close, T

LEMMA TypeInvariant == Spec => []TypeInv
<1>1. Init => TypeInv
  <2> SUFFICES ASSUME Init PROVE TypeInv
    OBVIOUS
  <2>1. <<>> \in Seq(RipFile) /\ Len(<<>>) = 0
        /\ <<>> \in Seq({"working", "resolved", "unidentified", "interrupted"})
    OBVIOUS
  <2>2. \A c \in Conns : pc[c] = "down"
    BY DEF Init
  <2>3. RipTypeOK
    BY <2>1, NoLocalsType DEF Init, RipTypeOK
  <2>4. QED
    BY <2>2, <2>3 DEF TypeInv, IdsKnown, Identifying
<1>2. TypeInv /\ [Next]_vars => TypeInv'
  <2> SUFFICES ASSUME TypeInv, [Next]_vars PROVE TypeInv'
    OBVIOUS
  <2>0. RipTypeOK
    BY DEF TypeInv
  <2>1. CASE UNCHANGED vars
    BY <2>1 DEF vars, TypeInv, RipTypeOK, IdsKnown, KnownRow
  <2>2. ASSUME NEW f \in Files, Edit(f) PROVE TypeInv'
    <3>1. disk' \in [Files -> [stamp : Nat, toc : Tocs]]
      BY <2>0, <2>2 DEF Edit, RipTypeOK
    <3>2. QED
      BY <2>2, <3>1 DEF Edit, TypeInv, RipTypeOK, IdsKnown, KnownRow
  <2>3. ASSUME NEW p \in Programs, Crash(p) PROVE TypeInv'
    <3>1. local' \in [Conns -> Locals]
          /\ pc' \in [Conns -> {"down", "idle"} \cup Recovering \cup Ingesting \cup Identifying]
      BY <2>0, <2>3, NoLocalsType DEF Crash, RipTypeOK
    <3>2. \A c \in Conns : pc'[c] = "down" \/ (pc'[c] = pc[c] /\ local'[c] = local[c])
      BY <2>3 DEF Crash
    <3>3. RipTypeOK'
      BY <2>0, <2>3, <3>1 DEF Crash, RipTypeOK
    <3>4. IdsKnown'
      BY <2>3, <3>2 DEF Crash, TypeInv, IdsKnown, KnownRow, Identifying
    <3>5. QED
      BY <3>3, <3>4 DEF TypeInv
  <2>4. ASSUME NEW c \in Conns, Open(c) \/ RecoverAttempts(c) PROVE TypeInv'
    <3>1. UNCHANGED <<disk, rows, discs, local, crashes>>
      BY <2>4 DEF Open, RecoverAttempts
    <3>2. attempts' \in Seq({"working", "resolved", "unidentified", "interrupted"})
      <4> DEFINE A(a) == IF attempts[a] = "working" THEN "interrupted" ELSE attempts[a]
      <4>1. CASE Open(c)
        BY <2>0, <4>1 DEF Open, RipTypeOK
      <4>2. CASE RecoverAttempts(c)
        <5>1. attempts' = [a \in 1..Len(attempts) |-> A(a)]
          BY <2>0, <4>2 DEF RecoverAttempts, RipTypeOK
        <5>2. \A a \in 1..Len(attempts) :
                 A(a) \in {"working", "resolved", "unidentified", "interrupted"}
          BY <2>0 DEF RipTypeOK
        <5> HIDE DEF A
        <5>3. QED
          BY <2>0, <5>1, <5>2 DEF RipTypeOK
      <4>3. QED
        BY <2>4, <4>1, <4>2
    <3>3. PICK w \in {"recover", "idle"} : Goto(c, w)
      BY <2>4 DEF Open, RecoverAttempts, Goto
    <3>4. RipTypeOK'
      BY <2>0, <3>1, <3>2, <3>3, PcMoves DEF RipTypeOK, Recovering
    <3>5. IdsKnown'
      BY <2>0, <3>1, <3>3, PcMoves, RowsKeepIds DEF Recovering, Identifying
    <3>6. QED
      BY <3>4, <3>5 DEF TypeInv
  <2>5. ASSUME NEW c \in Conns, RecoverRips(c) PROVE TypeInv'
    <3>1. rows' \in Seq(RipFile) /\ Len(rows') = Len(rows)
          /\ \A i \in 1..Len(rows) : rows'[i].file = rows[i].file
      BY <2>0, <2>5, RecoveredRows
    <3>2. Goto(c, "recoverAttempts") /\ UNCHANGED <<disk, discs, attempts, local, crashes>>
      BY <2>5 DEF RecoverRips, Goto
    <3>3. RipTypeOK'
      BY <2>0, <3>1, <3>2, PcMoves DEF RipTypeOK, Recovering
    <3>4. IdsKnown'
      BY <2>0, <3>1, <3>2, PcMoves, RowsKeepIds DEF Recovering, Identifying
    <3>5. QED
      BY <3>3, <3>4 DEF TypeInv
  <2>6. ASSUME NEW c \in Conns, NEW f \in Files, NEW identify \in BOOLEAN,
               NEW force \in BOOLEAN, StatFile(c, f, identify, force)
        PROVE  TypeInv'
    <3> DEFINE l == [local[c] EXCEPT !.file = f, !.stamp = disk[f].stamp,
                                     !.identify = identify, !.force = force]
    <3>1. l \in Locals
      <4>1. disk[f].stamp \in Nat
        BY <2>0 DEF RipTypeOK
      <4>2. QED
        BY <2>0, <4>1, LocalsAreTyped DEF Locals
    <3>2. local' = [local EXCEPT ![c] = l] /\ Goto(c, "lookup")
          /\ UNCHANGED <<disk, rows, discs, attempts, crashes>>
      BY <2>0, <2>6 DEF StatFile, Database, RipTypeOK
    <3> HIDE DEF l
    <3>3. RipTypeOK'
      BY <2>0, <3>1, <3>2, PcMoves, LocalsMove DEF RipTypeOK, Ingesting
    <3>4. IdsKnown'
      BY <2>0, <3>1, <3>2, PcMoves, LocalsMove, RowsKeepIds DEF Ingesting, Identifying
    <3>5. QED
      BY <3>3, <3>4 DEF TypeInv
  <2>7. ASSUME NEW c \in Conns, NEW i \in 1..Len(rows), NEW force \in BOOLEAN,
               BeginIdentify(c, i, force)
        PROVE  TypeInv'
    <3> DEFINE l == [local[c] EXCEPT !.id = i, !.file = rows[i].file, !.force = force]
               r == [rows[i] EXCEPT !.state = "working"]
    <3>1. l \in Locals /\ l.id = i /\ l.file = rows[i].file
      <4>1. i \in Nat /\ rows[i].file \in Files
        BY <2>0, RowsAreFiles DEF RipTypeOK
      <4>2. l \in Locals
        BY <2>0, <4>1, LocalsAreTyped DEF Locals
      <4>3. l.id = i /\ l.file = rows[i].file
        BY <2>0, LocalsAreTyped DEF Locals
      <4>4. QED
        BY <4>2, <4>3
    <3>2. r \in RipFile /\ r.file = rows[i].file
      BY <2>0, RowsAreFiles DEF RipFile, IdentificationState
    <3>3. /\ local' = [local EXCEPT ![c] = l] /\ rows' = [rows EXCEPT ![i] = r]
          /\ Goto(c, "read") /\ UNCHANGED <<disk, discs, attempts, crashes>>
      BY <2>0, <2>7 DEF BeginIdentify, RipTypeOK
    <3> HIDE DEF l, r
    <3>4. RipTypeOK'
      BY <2>0, <3>1, <3>2, <3>3, PcMoves, LocalsMove, RowUpdate DEF RipTypeOK, Identifying
    <3>5. Len(rows') = Len(rows) /\ \A j \in 1..Len(rows) : rows'[j].file = rows[j].file
      BY <2>0, <3>2, <3>3, RowUpdate
    <3>6. local'[c] = l /\ \A d \in Conns : d # c => local'[d] = local[d]
      BY <2>0, <3>1, <3>3, LocalsMove
    <3>7. pc'[c] = "read" /\ \A d \in Conns : d # c => pc'[d] = pc[d]
      BY <2>0, <3>3, PcMoves DEF Identifying
    <3>8. KnownRow(c)'
      BY <2>0, <3>1, <3>5, <3>6 DEF KnownRow
    <3>9. IdsKnown'
      BY <3>5, <3>6, <3>7, <3>8, RowsKeepIds
    <3>10. QED
      BY <3>4, <3>9 DEF TypeInv
  <2>8. ASSUME NEW c \in Conns, Ingest(c) PROVE TypeInv'
    <3>1. CASE CacheHit(c) \/ (CacheMiss(c) /\ Return(c))
      <4>1. Return(c) /\ UNCHANGED <<disk, rows, discs, attempts, crashes>>
        BY <3>1 DEF CacheHit, CacheMiss, Database
      <4>2. RipTypeOK'
        BY <2>0, <4>1, Returning DEF RipTypeOK
      <4>3. IdsKnown'
        BY <2>0, <4>1, Returning, RowsKeepIds DEF Identifying
      <4>4. QED
        BY <4>2, <4>3 DEF TypeInv
    <3>2. CASE CacheMiss(c) /\ Continue(c, "keep")
      <4>1. Goto(c, "keep") /\ UNCHANGED <<disk, rows, discs, attempts, local, crashes>>
        BY <3>2 DEF CacheMiss, Database, Continue
      <4>2. RipTypeOK'
        BY <2>0, <4>1, PcMoves DEF RipTypeOK, Ingesting
      <4>3. IdsKnown'
        BY <2>0, <4>1, PcMoves, RowsKeepIds DEF Ingesting, Identifying
      <4>4. QED
        BY <4>2, <4>3 DEF TypeInv
    <3>3. CASE ReadExistingState(c)
      <4> DEFINE i == LookupCached(local[c].file, local[c].stamp)
                 k == IF i = 0 THEN None ELSE rows[i].state
                 l == [local[c] EXCEPT !.keep = k]
      <4>1. k \in IdentificationState \cup {None}
        BY <2>0, FoundByPath, LocalsAreTyped, RowsAreFiles DEF LookupCached
      <4>2. local' = [local EXCEPT ![c] = l] /\ Goto(c, "find")
            /\ UNCHANGED <<disk, rows, discs, attempts, crashes>>
        BY <2>0, <3>3 DEF ReadExistingState, Database, RipTypeOK
      <4> HIDE DEF k
      <4>3. l \in Locals
        BY <2>0, <4>1, LocalsAreTyped DEF Locals
      <4> HIDE DEF l
      <4>4. RipTypeOK'
        BY <2>0, <4>2, <4>3, PcMoves, LocalsMove DEF RipTypeOK, Ingesting
      <4>5. IdsKnown'
        BY <2>0, <4>2, <4>3, PcMoves, LocalsMove, RowsKeepIds DEF Ingesting, Identifying
      <4>6. QED
        BY <4>4, <4>5 DEF TypeInv
    <3>4. CASE FindRow(c)
      <4> DEFINE i == FindByPath(local[c].file)
                 l == [local[c] EXCEPT !.id = i]
      <4>1. i = 0 \/ (i \in 1..Len(rows) /\ rows[i].file = local[c].file)
        BY <2>0, FoundByPath, LocalsAreTyped
      <4>2. local' = [local EXCEPT ![c] = l] /\ Goto(c, "upsert")
            /\ UNCHANGED <<disk, rows, discs, attempts, crashes>>
        BY <2>0, <3>4 DEF FindRow, Database, RipTypeOK
      <4> HIDE DEF i
      <4>3. l \in Locals
        <5>1. i \in Nat
          BY <2>0, <4>1 DEF RipTypeOK
        <5>2. QED
          BY <2>0, <5>1, LocalsAreTyped DEF Locals
      <4>4. l.id = i /\ l.file = local[c].file
        BY <2>0, LocalsAreTyped DEF Locals
      <4> HIDE DEF l
      <4>5. RipTypeOK'
        BY <2>0, <4>2, <4>3, PcMoves, LocalsMove DEF RipTypeOK, Ingesting
      <4>6. local'[c] = l /\ \A d \in Conns : d # c => local'[d] = local[d]
        BY <2>0, <4>2, <4>3, LocalsMove
      <4>7. pc'[c] = "upsert" /\ \A d \in Conns : d # c => pc'[d] = pc[d]
        BY <2>0, <4>2, PcMoves DEF Ingesting
      <4>8. local'[c].id # 0 => KnownRow(c)'
        BY <4>1, <4>2, <4>4, <4>6 DEF KnownRow
      <4>9. IdsKnown'
        BY <4>2, <4>6, <4>7, <4>8, RowsKeepIds DEF Identifying
      <4>10. QED
        BY <4>5, <4>9 DEF TypeInv
    <3>5. CASE UpsertRow(c)
      <4> DEFINE r == NewRow(local[c])  i == local[c].id
      <4>1. r \in RipFile /\ r.file = local[c].file
        BY <2>0, NewRowType
      <4>2. pc[c] = "upsert" /\ Return(c) /\ UNCHANGED <<disk, discs, attempts, crashes>>
        BY <3>5 DEF UpsertRow
      <4> HIDE DEF r
      <4>3. CASE i = 0
        <5>1. rows' = Append(rows, r)
          BY <3>5, <4>3 DEF UpsertRow, r
        <5>2. /\ rows' \in Seq(RipFile) /\ Len(rows') = Len(rows) + 1
              /\ \A j \in 1..Len(rows) : rows'[j] = rows[j]
          BY <2>0, <4>1, <5>1 DEF RipTypeOK
        <5>3. RipTypeOK'
          BY <2>0, <4>2, <5>2, Returning DEF RipTypeOK
        <5>4. IdsKnown'
          <6>1. pc'[c] = "idle" /\ \A d \in Conns : d # c => pc'[d] = pc[d] /\ local'[d] = local[d]
            BY <2>0, <4>2, Returning
          <6>2. \A d \in Conns : d # c /\ KnownRow(d) => KnownRow(d)'
            BY <2>0, <5>2, <6>1 DEF KnownRow, RipTypeOK
          <6>3. QED
            BY <6>1, <6>2 DEF TypeInv, IdsKnown, Identifying
        <5>5. QED
          BY <5>3, <5>4 DEF TypeInv
      <4>4. CASE i # 0
        <5>1. i \in 1..Len(rows) /\ rows[i].file = local[c].file
          BY <4>2, <4>4 DEF TypeInv, IdsKnown, KnownRow
        <5>2. rows' = [rows EXCEPT ![i] = r]
          BY <3>5, <4>4 DEF UpsertRow, r
        <5>3. /\ rows' \in Seq(RipFile) /\ Len(rows') = Len(rows)
              /\ \A j \in 1..Len(rows) : rows'[j].file = rows[j].file
          BY <2>0, <4>1, <5>1, <5>2, RowUpdate
        <5>4. RipTypeOK'
          BY <2>0, <4>2, <5>3, Returning DEF RipTypeOK
        <5>5. IdsKnown'
          BY <2>0, <4>2, <5>3, Returning, RowsKeepIds DEF Identifying
        <5>6. QED
          BY <5>4, <5>5 DEF TypeInv
      <4>5. QED
        BY <4>3, <4>4
    <3>6. QED
      BY <2>8, <3>1, <3>2, <3>3, <3>4, <3>5 DEF Ingest, CacheMiss
  <2>9. ASSUME NEW c \in Conns, Identify(c) PROVE TypeInv'
    <3>1. pc[c] \in Identifying => KnownRow(c)
      BY DEF TypeInv, IdsKnown
    <3>2. ASSUME NEW where \in {"match", "ask", "copyLink", "commit", "copyUnmark", "close",
                                "sidecar", "identified", "unidentified", "failed"},
                 NEW l \in Locals, l.id = local[c].id, l.file = local[c].file,
                 pc[c] \in Identifying, Goto(c, where), local' = [local EXCEPT ![c] = l],
                 attempts' \in Seq({"working", "resolved", "unidentified", "interrupted"}),
                 discs' \subseteq Tocs, UNCHANGED <<disk, crashes>>,
                 rows' \in Seq(RipFile), Len(rows') = Len(rows),
                 \A j \in 1..Len(rows) : rows'[j].file = rows[j].file
          PROVE  TypeInv'
      <4>1. RipTypeOK'
        BY <2>0, <3>2, PcMoves, LocalsMove DEF RipTypeOK, Identifying
      <4>2. local'[c] = l /\ \A d \in Conns : d # c => local'[d] = local[d]
        BY <2>0, <3>2, LocalsMove
      <4>3. pc'[c] = where /\ \A d \in Conns : d # c => pc'[d] = pc[d]
        BY <2>0, <3>2, PcMoves DEF Identifying
      <4>4. KnownRow(c)'
        BY <2>0, <3>1, <3>2, <4>2 DEF KnownRow, RipTypeOK
      <4>5. IdsKnown'
        BY <3>2, <4>2, <4>3, <4>4, RowsKeepIds
      <4>6. QED
        BY <4>1, <4>5 DEF TypeInv
    <3>3. local[c] \in Locals /\ local = [local EXCEPT ![c] = local[c]]
      BY <2>0, LocalsAreTyped DEF RipTypeOK
    <3>4. /\ rows \in Seq(RipFile) /\ discs \subseteq Tocs
          /\ attempts \in Seq({"working", "resolved", "unidentified", "interrupted"})
      BY <2>0 DEF RipTypeOK
    <3>5. CASE ReadToc(c)
      <4> DEFINE l == [local[c] EXCEPT !.toc = disk[local[c].file].toc]
      <4>1. disk[local[c].file].toc \in Tocs
        BY <2>0, LocalsAreTyped DEF RipTypeOK
      <4>2. l \in Locals
        BY <2>0, <4>1, LocalsAreTyped DEF Locals
      <4>3. l.id = local[c].id /\ l.file = local[c].file
        BY <2>0, LocalsAreTyped DEF Locals
      <4>4. CASE Continue(c, "failed")
        BY <3>2, <3>3, <3>4, <3>5, <4>4 DEF ReadToc, Continue, Database, Identifying
      <4>5. CASE local' = [local EXCEPT ![c].toc = disk[local[c].file].toc] /\ Goto(c, "match")
        <5>1. local' = [local EXCEPT ![c] = l]
          BY <2>0, <4>5 DEF RipTypeOK
        <5> HIDE DEF l
        <5>2. QED
          BY <3>2, <3>4, <3>5, <4>2, <4>3, <4>5, <5>1 DEF ReadToc, Database, Identifying
      <4>6. QED
        BY <3>5, <4>4, <4>5 DEF ReadToc
    <3>6. CASE StartAttempt(c)
      <4> DEFINE l == [local[c] EXCEPT !.attempt = Len(attempts) + 1]
      <4>1. Len(attempts) + 1 \in Nat
        BY <3>4
      <4>2. l \in Locals
        BY <2>0, <4>1, LocalsAreTyped DEF Locals
      <4>3. l.id = local[c].id /\ l.file = local[c].file
        BY <2>0, LocalsAreTyped DEF Locals
      <4>4. attempts' \in Seq({"working", "resolved", "unidentified", "interrupted"})
        BY <3>4, <3>6 DEF StartAttempt
      <4>5. local' = [local EXCEPT ![c] = l]
        BY <2>0, <3>6 DEF StartAttempt, RipTypeOK
      <4> HIDE DEF l
      <4>6. QED
        BY <3>2, <3>4, <3>6, <4>2, <4>3, <4>4, <4>5 DEF StartAttempt, Identifying
    <3>7. CASE MatchCatalog(c) \/ Answer(c) \/ ApplySidecar(c)
      <4>1. PICK where \in {"copyLink", "commit", "copyUnmark", "failed", "identified"} :
              Continue(c, where) /\ UNCHANGED <<disk, Database, crashes>>
        BY <3>7 DEF MatchCatalog, Answer, ApplySidecar, Continue, Goto
      <4>2. pc[c] \in Identifying
        BY <3>7 DEF MatchCatalog, Answer, ApplySidecar, Identifying
      <4>3. QED
        BY <3>2, <3>3, <3>4, <4>1, <4>2 DEF Continue, Database
    <3>8. CASE CopyRow(c)
      <4> DEFINE l == [local[c] EXCEPT !.copy = rows[local[c].id]]
                 where == IF pc[c] = "copyLink" THEN "link" ELSE "unmark"
      <4>1. KnownRow(c) /\ rows[local[c].id] \in RipFile
        BY <2>0, <3>1, <3>8, RowsAreFiles DEF CopyRow, Identifying, KnownRow
      <4>2. l \in Locals
        BY <2>0, <4>1, LocalsAreTyped DEF Locals
      <4>3. l.id = local[c].id /\ l.file = local[c].file /\ l.copy = rows[local[c].id]
        BY <2>0, LocalsAreTyped DEF Locals
      <4>4. local' = [local EXCEPT ![c] = l] /\ Goto(c, where)
            /\ UNCHANGED <<disk, rows, discs, attempts, crashes>>
        BY <2>0, <3>8 DEF CopyRow, Database, RipTypeOK
      <4> HIDE DEF l
      <4>5. RipTypeOK'
        BY <2>0, <4>2, <4>4, PcMoves, LocalsMove DEF RipTypeOK, Identifying
      <4>6. local'[c] = l /\ \A d \in Conns : d # c => local'[d] = local[d]
        BY <2>0, <4>2, <4>4, LocalsMove
      <4>7. \A d \in Conns : d # c => pc'[d] = pc[d]
        BY <2>0, <4>4, PcMoves DEF Identifying
      <4>8. KnownRow(c)' /\ local'[c].copy.file = local'[c].file
        BY <4>1, <4>3, <4>4, <4>6 DEF KnownRow
      <4>9. IdsKnown'
        BY <4>4, <4>6, <4>7, <4>8, RowsKeepIds
      <4>10. QED
        BY <4>5, <4>9 DEF TypeInv
    <3>9. ASSUME NEW where \in {"close", "sidecar", "unidentified"}, Continue(c, where),
                 pc[c] \in Identifying, NEW r \in RipFile, r.file = local[c].file,
                 rows' = [rows EXCEPT ![local[c].id] = r],
                 attempts' \in Seq({"working", "resolved", "unidentified", "interrupted"}),
                 discs' \subseteq Tocs, UNCHANGED <<disk, crashes>>
          PROVE  TypeInv'
      <4>1. /\ rows' \in Seq(RipFile) /\ Len(rows') = Len(rows)
            /\ \A j \in 1..Len(rows) : rows'[j].file = rows[j].file
        BY <2>0, <3>1, <3>9, RowUpdate DEF KnownRow
      <4>2. QED
        BY <3>2, <3>3, <3>9, <4>1 DEF Continue
    <3>10. CASE LinkRow(c) \/ UnmarkRow(c)
      <4>1. local[c].copy \in RipFile /\ local[c].copy.file = local[c].file
            /\ local[c].toc \in Tocs
        BY <2>0, <3>10, LocalsAreTyped DEF TypeInv, IdsKnown, LinkRow, UnmarkRow
      <4>2. PICK d \in Tocs \cup {None}, where \in {"close", "sidecar"} :
              /\ rows' = [rows EXCEPT ![local[c].id] = [local[c].copy EXCEPT !.disc = d]]
              /\ Continue(c, where) /\ UNCHANGED <<disk, discs, attempts, crashes>>
        BY <3>10, <4>1 DEF LinkRow, UnmarkRow
      <4>3. [local[c].copy EXCEPT !.disc = d] \in RipFile
            /\ [local[c].copy EXCEPT !.disc = d].file = local[c].file
        BY <4>1 DEF RipFile
      <4>4. pc[c] \in Identifying
        BY <3>10 DEF LinkRow, UnmarkRow, Identifying
      <4>5. QED
        BY <3>4, <3>9, <4>2, <4>3, <4>4
    <3>11. CASE CloseUnidentified(c)
      <4>1. attempts' \in Seq({"working", "resolved", "unidentified", "interrupted"})
        BY <2>0, <3>11, CloseType DEF CloseUnidentified
      <4>2. QED
        BY <3>2, <3>3, <3>4, <3>11, <4>1 DEF CloseUnidentified, Continue, Identifying
    <3>12. CASE Commit(c)
      <4>1. CASE UNCHANGED Database /\ Continue(c, "failed")
        BY <3>2, <3>3, <3>4, <3>12, <4>1 DEF Commit, Continue, Database, Identifying
      <4>2. CASE ~(UNCHANGED Database /\ Continue(c, "failed"))
        <5> DEFINE r == [rows[local[c].id] EXCEPT !.disc = local[c].toc]
        <5>1. attempts' \in Seq({"working", "resolved", "unidentified", "interrupted"})
          BY <2>0, <3>12, <4>2, CloseType DEF Commit
        <5>2. rows' = [rows EXCEPT ![local[c].id] = r] /\ discs' \subseteq Tocs
          BY <2>0, <3>4, <3>12, <4>2, LocalsAreTyped DEF Commit
        <5>3. rows[local[c].id] \in RipFile /\ rows[local[c].id].file = local[c].file
          BY <2>0, <3>1, <3>12, RowsAreFiles DEF Commit, KnownRow, Identifying
        <5>4. r \in RipFile /\ r.file = local[c].file
          BY <2>0, <5>3, LocalsAreTyped DEF RipFile
        <5> HIDE DEF r
        <5>5. Continue(c, "sidecar") /\ UNCHANGED <<disk, crashes>> /\ pc[c] \in Identifying
          BY <3>12, <4>2 DEF Commit, Identifying
        <5>6. QED
          BY <3>9, <5>1, <5>2, <5>4, <5>5
      <4>3. QED
        BY <4>1, <4>2
    <3>13. CASE FinishIdentify(c)
      <4> DEFINE r == [rows[local[c].id] EXCEPT !.state = pc[c]]
      <4>1. Return(c) /\ UNCHANGED <<disk, discs, attempts, crashes>>
            /\ pc[c] \in Identifying /\ pc[c] \in IdentificationState
        BY <3>13 DEF FinishIdentify, Outcomes, Identifying, IdentificationState
      <4>2. rows[local[c].id] \in RipFile /\ local[c].id \in 1..Len(rows)
        BY <2>0, <3>1, <4>1, RowsAreFiles DEF KnownRow
      <4>3. r \in RipFile /\ r.file = rows[local[c].id].file
        BY <4>1, <4>2 DEF RipFile
      <4>4. rows' = [rows EXCEPT ![local[c].id] = r]
        BY <3>13 DEF FinishIdentify
      <4> HIDE DEF r
      <4>5. /\ rows' \in Seq(RipFile) /\ Len(rows') = Len(rows)
            /\ \A j \in 1..Len(rows) : rows'[j].file = rows[j].file
        BY <2>0, <4>2, <4>3, <4>4, RowUpdate
      <4>6. RipTypeOK'
        BY <2>0, <4>1, <4>5, Returning DEF RipTypeOK
      <4>7. IdsKnown'
        BY <2>0, <4>1, <4>5, Returning, RowsKeepIds DEF Identifying
      <4>8. QED
        BY <4>6, <4>7 DEF TypeInv
    <3>14. QED
      BY <2>9, <3>5, <3>6, <3>7, <3>8, <3>10, <3>11, <3>12, <3>13 DEF Identify
  <2>10. QED
    BY <2>1, <2>2, <2>3, <2>4, <2>5, <2>6, <2>7, <2>8, <2>9 DEF Next, Recover, Request
<1>3. QED
  BY <1>1, <1>2, PTL DEF Spec

\* Every variable keeps to its type, whoever is killed or restarted when.
THEOREM RipTypeCorrect == Spec => []RipTypeOK
<1>1. TypeInv => RipTypeOK
  BY DEF TypeInv
<1>2. QED
  BY <1>1, TypeInvariant, PTL

-----------------------------------------------------------------------------
(* The cache. A row's stamp is never ahead of its file, because the file   *)
(* was looked at before; and while a TOC is being identified, the row's    *)
(* stamp is the file's only if the TOC was read from the file as it is.    *)

Fresh(c) ==
  rows[local[c].id].stamp = disk[local[c].file].stamp => local[c].toc = disk[local[c].file].toc

StampsBehind == \A i \in 1..Len(rows) : rows[i].stamp <= disk[rows[i].file].stamp

LocalsFresh(c) ==
  /\ pc[c] \in Ingesting \cup Identifying => c \in Ingesters
  /\ pc[c] \in Ingesting => local[c].stamp <= disk[local[c].file].stamp
  /\ pc[c] \in {"match", "ask", "copyLink", "link", "commit"} => Fresh(c)
  /\ pc[c] \in {"link", "unmark"} => local[c].copy.stamp = rows[local[c].id].stamp

CacheInv == StampsBehind /\ CacheSound /\ \A c \in Conns : LocalsFresh(c)

\* A step of c that leaves the files and what the rows link and stamp alone.
LEMMA QuietKeepsCache ==
  ASSUME TypeInv, CacheInv, NEW c \in Conns, UNCHANGED disk,
         Len(rows') = Len(rows),
         \A i \in 1..Len(rows) : /\ rows'[i].file = rows[i].file
                                 /\ rows'[i].stamp = rows[i].stamp
                                 /\ rows'[i].disc = rows[i].disc,
         \A d \in Conns : d # c => pc'[d] = pc[d] /\ local'[d] = local[d],
         LocalsFresh(c)'
  PROVE  CacheInv'
<1>1. StampsBehind' /\ CacheSound'
  BY DEF CacheInv, StampsBehind, CacheSound
<1>2. ASSUME NEW d \in Conns, d # c PROVE LocalsFresh(d)'
  <2>1. pc'[d] = pc[d] /\ local'[d] = local[d] /\ LocalsFresh(d)
    BY <1>2 DEF CacheInv
  <2>2. pc[d] \in Identifying => local[d].id \in 1..Len(rows)
    BY DEF TypeInv, IdsKnown, KnownRow
  <2>3. QED
    BY <2>1, <2>2 DEF LocalsFresh, Fresh, Identifying
<1>3. QED
  BY <1>1, <1>2 DEF CacheInv

\* A step of the one ingester that gives the row it works on a new content.
LEMMA WriteKeepsCache ==
  ASSUME TypeInv, CacheInv, \A d, e \in Ingesters : d = e,
         NEW c \in Ingesters, UNCHANGED disk,
         NEW i \in Nat,
         i \in 1..Len(rows'),
         \A j \in 1..Len(rows') : j # i => j \in 1..Len(rows) /\ rows'[j] = rows[j],
         rows'[i].stamp <= disk[rows'[i].file].stamp,
         rows'[i].disc # None /\ rows'[i].stamp = disk[rows'[i].file].stamp =>
           rows'[i].disc = disk[rows'[i].file].toc,
         \A d \in Conns : d # c => pc'[d] = pc[d] /\ local'[d] = local[d],
         pc'[c] \in {"idle", "close", "sidecar"}
  PROVE  CacheInv'
<1>0. StampsBehind'
  BY DEF CacheInv, StampsBehind
<1>1. CacheSound'
  BY DEF CacheInv, CacheSound
<1>2. ASSUME NEW d \in Conns PROVE LocalsFresh(d)'
  <2>1. CASE d = c
    BY <2>1 DEF LocalsFresh, Ingesting
  <2>2. CASE d # c
    <3>1. pc'[d] = pc[d] /\ LocalsFresh(d) /\ d \notin Ingesters
      BY <2>2 DEF CacheInv
    <3>2. pc[d] \notin Ingesting \cup Identifying
      BY <3>1 DEF LocalsFresh
    <3>3. QED
      BY <3>1, <3>2 DEF LocalsFresh, Identifying
  <2>3. QED
    BY <2>1, <2>2
<1>3. QED
  BY <1>0, <1>1, <1>2 DEF CacheInv

LEMMA CacheStep ==
  ASSUME \A c, d \in Ingesters : c = d
  PROVE  TypeInv /\ CacheInv /\ [Next]_vars => CacheInv'
<1> SUFFICES ASSUME TypeInv, CacheInv, [Next]_vars PROVE CacheInv'
  OBVIOUS
<1>0. RipTypeOK
  BY DEF TypeInv
<1>1. CASE UNCHANGED vars
  BY <1>1 DEF vars, CacheInv, StampsBehind, CacheSound, LocalsFresh, Fresh
<1>2. ASSUME NEW f \in Files, Edit(f) PROVE CacheInv'
  <2>1. /\ UNCHANGED <<rows, pc, local>>
        /\ \A g \in Files : g # f => disk'[g] = disk[g]
        /\ disk'[f].stamp = disk[f].stamp + 1
        /\ \A g \in Files : disk[g].stamp \in Nat
    BY <1>0, <1>2 DEF Edit, RipTypeOK
  <2>2. \A i \in 1..Len(rows) : rows[i].stamp \in Nat /\ rows[i].file \in Files
    BY <1>0, RowsAreFiles
  <2>3. \A i \in 1..Len(rows) : rows[i].stamp <= disk'[rows[i].file].stamp
                                /\ (rows[i].file = f => rows[i].stamp # disk'[f].stamp)
    BY <2>1, <2>2 DEF CacheInv, StampsBehind
  <2>4. StampsBehind' /\ CacheSound'
    BY <2>1, <2>2, <2>3 DEF CacheInv, StampsBehind, CacheSound
  <2>5. ASSUME NEW c \in Conns PROVE LocalsFresh(c)'
    <3>1. local[c].file \in Files /\ local[c].stamp \in Nat /\ LocalsFresh(c)
      BY <1>0, LocalsAreTyped DEF CacheInv
    <3>2. pc[c] \in Ingesting => local[c].stamp <= disk'[local[c].file].stamp
      BY <2>1, <3>1 DEF LocalsFresh
    <3>3. pc[c] \in Identifying => local[c].id \in 1..Len(rows)
                                   /\ rows[local[c].id].file = local[c].file
      BY DEF TypeInv, IdsKnown, KnownRow
    <3>4. pc[c] \in {"match", "ask", "copyLink", "link", "commit"} => Fresh(c)'
      BY <2>1, <2>3, <3>1, <3>3 DEF LocalsFresh, Fresh, Identifying
    <3>5. QED
      BY <2>1, <3>1, <3>2, <3>4 DEF LocalsFresh
  <2>6. QED
    BY <2>4, <2>5 DEF CacheInv
<1>3. ASSUME NEW p \in Programs, Crash(p) PROVE CacheInv'
  <2>1. UNCHANGED <<disk, rows>>
    BY <1>3 DEF Crash
  <2>2. \A c \in Conns : pc'[c] = "down" \/ (pc'[c] = pc[c] /\ local'[c] = local[c])
    BY <1>3 DEF Crash
  <2>3. ASSUME NEW c \in Conns PROVE LocalsFresh(c)'
    BY <2>1, <2>2 DEF CacheInv, LocalsFresh, Fresh, Ingesting, Identifying
  <2>4. QED
    BY <2>1, <2>3 DEF CacheInv, StampsBehind, CacheSound
<1>4. ASSUME NEW c \in Conns, Open(c) \/ Recover(c) PROVE CacheInv'
  <2>1. UNCHANGED <<disk, local>> /\ Len(rows') = Len(rows)
    BY <1>0, <1>4, RecoveredRows DEF Open, Recover, RecoverRips, RecoverAttempts
  <2>2. \A i \in 1..Len(rows) : /\ rows'[i].file = rows[i].file
                                /\ rows'[i].stamp = rows[i].stamp
                                /\ rows'[i].disc = rows[i].disc
    BY <1>0, <1>4, RecoveredRows DEF Open, Recover, RecoverAttempts
  <2>3. PICK w \in {"recover", "recoverAttempts", "idle"} : Goto(c, w)
    BY <1>4 DEF Open, Recover, RecoverRips, RecoverAttempts, Goto
  <2>4. pc'[c] = w /\ \A d \in Conns : d # c => pc'[d] = pc[d]
    BY <1>0, <2>3, PcMoves DEF Recovering
  <2>5. LocalsFresh(c)'
    BY <2>4 DEF LocalsFresh, Ingesting, Identifying
  <2>6. QED
    BY <2>1, <2>2, <2>4, <2>5, QuietKeepsCache
<1>5. ASSUME NEW c \in Conns, NEW f \in Files, NEW identify \in BOOLEAN,
             NEW force \in BOOLEAN, StatFile(c, f, identify, force)
      PROVE  CacheInv'
  <2>1. /\ local'[c].file = f /\ local'[c].stamp = disk[f].stamp /\ c \in Ingesters
        /\ \A d \in Conns : d # c => local'[d] = local[d]
        /\ Goto(c, "lookup") /\ UNCHANGED <<disk, rows>>
    BY <1>0, <1>5 DEF StatFile, Database, RipTypeOK, Locals
  <2>2. pc'[c] = "lookup" /\ \A d \in Conns : d # c => pc'[d] = pc[d]
    BY <1>0, <2>1, PcMoves DEF Ingesting
  <2>3. disk[f].stamp \in Nat
    BY <1>0 DEF RipTypeOK
  <2>4. LocalsFresh(c)'
    BY <2>1, <2>2, <2>3 DEF LocalsFresh, Ingesting
  <2>5. QED
    BY <2>1, <2>2, <2>4, QuietKeepsCache
<1>6. ASSUME NEW c \in Conns, NEW i \in 1..Len(rows), NEW force \in BOOLEAN,
             BeginIdentify(c, i, force)
      PROVE  CacheInv'
  <2>1. /\ rows' = [rows EXCEPT ![i].state = "working"] /\ UNCHANGED disk /\ c \in Ingesters
        /\ \A d \in Conns : d # c => local'[d] = local[d]
        /\ Goto(c, "read")
    BY <1>0, <1>6 DEF BeginIdentify, RipTypeOK
  <2>2. Len(rows') = Len(rows) /\ \A j \in 1..Len(rows) :
           rows'[j].file = rows[j].file /\ rows'[j].stamp = rows[j].stamp
           /\ rows'[j].disc = rows[j].disc
    BY <1>0, <2>1, RowsAreFiles DEF RipTypeOK, RipFile
  <2>3. pc'[c] = "read" /\ \A d \in Conns : d # c => pc'[d] = pc[d]
    BY <1>0, <2>1, PcMoves DEF Identifying
  <2>4. LocalsFresh(c)'
    BY <2>1, <2>3 DEF LocalsFresh, Ingesting
  <2>5. QED
    BY <2>1, <2>2, <2>3, <2>4, QuietKeepsCache
<1>7. ASSUME NEW c \in Conns, pc'[c] = "idle", UNCHANGED <<disk, rows>>,
             \A d \in Conns : d # c => pc'[d] = pc[d] /\ local'[d] = local[d]
      PROVE  CacheInv'
  <2>1. LocalsFresh(c)'
    BY <1>7 DEF LocalsFresh, Ingesting, Identifying
  <2>2. QED
    BY <1>7, <2>1, QuietKeepsCache
<1>8. ASSUME NEW c \in Conns, Ingest(c) PROVE CacheInv'
  <2>0. pc[c] \in Ingesting /\ c \in Ingesters
        /\ local[c].stamp <= disk[local[c].file].stamp
    BY <1>8 DEF Ingest, CacheHit, CacheMiss, ReadExistingState, FindRow, UpsertRow, Ingesting,
                CacheInv, LocalsFresh
  <2>1. CASE CacheHit(c) \/ (CacheMiss(c) /\ Return(c))
    <3>1. Return(c) /\ UNCHANGED <<disk, rows>>
      BY <2>1 DEF CacheHit, CacheMiss, Database
    <3>2. QED
      BY <1>0, <1>7, <3>1, Returning
  <2>2. CASE (CacheMiss(c) /\ Continue(c, "keep")) \/ ReadExistingState(c) \/ FindRow(c)
    <3>1. PICK w \in {"keep", "find", "upsert"} : Goto(c, w)
      BY <2>2 DEF ReadExistingState, FindRow, Goto, Continue
    <3>2. /\ UNCHANGED <<disk, rows>>
          /\ local'[c].file = local[c].file /\ local'[c].stamp = local[c].stamp
          /\ \A d \in Conns : d # c => local'[d] = local[d]
      BY <1>0, <2>2 DEF CacheMiss, ReadExistingState, FindRow, Continue, Database,
                        RipTypeOK, Locals
    <3>3. pc'[c] = w /\ \A d \in Conns : d # c => pc'[d] = pc[d]
      BY <1>0, <3>1, PcMoves DEF Ingesting
    <3>4. LocalsFresh(c)'
      BY <2>0, <3>2, <3>3 DEF LocalsFresh
    <3>5. QED
      BY <3>2, <3>3, <3>4, QuietKeepsCache
  <2>3. CASE UpsertRow(c)
    <3> DEFINE r == NewRow(local[c])
               i == IF local[c].id = 0 THEN Len(rows) + 1 ELSE local[c].id
    <3>1. r.stamp = local[c].stamp /\ r.file = local[c].file /\ r.disc = None
      BY DEF NewRow
    <3>2. local[c].id # 0 => local[c].id \in 1..Len(rows)
      BY <2>3 DEF TypeInv, IdsKnown, KnownRow, UpsertRow
    <3>3. Return(c) /\ UNCHANGED disk
      BY <2>3 DEF UpsertRow
    <3> HIDE DEF r
    <3>4. /\ i \in Nat /\ i \in 1..Len(rows') /\ rows'[i] = r
          /\ \A j \in 1..Len(rows') : j # i => j \in 1..Len(rows) /\ rows'[j] = rows[j]
      <4>1. CASE local[c].id = 0
        <5>1. rows' = Append(rows, r)
          BY <2>3, <4>1 DEF UpsertRow, r
        <5>2. QED
          BY <1>0, <4>1, <5>1 DEF RipTypeOK
      <4>2. CASE local[c].id # 0
        <5>1. rows' = [rows EXCEPT ![local[c].id] = r]
          BY <2>3, <4>2 DEF UpsertRow, r
        <5>2. QED
          BY <1>0, <3>2, <4>2, <5>1 DEF RipTypeOK
      <4>3. QED
        BY <4>1, <4>2
    <3> HIDE DEF i
    <3>5. QED
      BY <1>0, <2>0, <3>1, <3>3, <3>4, Returning, WriteKeepsCache
  <2>4. QED
    BY <1>8, <2>1, <2>2, <2>3 DEF Ingest, CacheMiss
<1>9. ASSUME NEW c \in Conns, Identify(c) PROVE CacheInv'
  <2>0. pc[c] \in Identifying
    BY <1>9 DEF Identify, ReadToc, MatchCatalog, StartAttempt, Answer, CopyRow, LinkRow,
                UnmarkRow, CloseUnidentified, Commit, ApplySidecar, FinishIdentify, Outcomes,
                Identifying
  <2>1. /\ c \in Ingesters /\ LocalsFresh(c) /\ local[c].id \in 1..Len(rows)
        /\ rows[local[c].id].file = local[c].file /\ local[c].id \in Nat
    BY <1>0, <2>0, LocalsAreTyped DEF CacheInv, LocalsFresh, TypeInv, IdsKnown, KnownRow
  <2>2. CASE ReadToc(c)
    <3>1. PICK w \in {"match", "failed"} : Goto(c, w) /\ UNCHANGED <<disk, rows>>
      BY <2>2 DEF ReadToc, Continue, Goto, Database
    <3>2. /\ local'[c].file = local[c].file /\ local'[c].id = local[c].id
          /\ \A d \in Conns : d # c => local'[d] = local[d]
      BY <1>0, <2>2 DEF ReadToc, Continue, RipTypeOK, Locals
    <3>3. pc'[c] = w /\ \A d \in Conns : d # c => pc'[d] = pc[d]
      BY <1>0, <3>1, PcMoves DEF Identifying
    <3>4. pc'[c] = "match" => local'[c].toc = disk[local[c].file].toc
      BY <1>0, <2>2, <3>3 DEF ReadToc, Continue, Goto, RipTypeOK, Locals
    <3>5. LocalsFresh(c)'
      BY <2>1, <3>1, <3>2, <3>3, <3>4 DEF LocalsFresh, Fresh, Ingesting
    <3>6. QED
      BY <3>1, <3>2, <3>3, <3>5, QuietKeepsCache
  <2>3. CASE \/ MatchCatalog(c) \/ StartAttempt(c) \/ Answer(c) \/ ApplySidecar(c)
             \/ CloseUnidentified(c) \/ (Commit(c) /\ UNCHANGED Database)
    <3>1. UNCHANGED <<disk, rows>>
      BY <2>3 DEF MatchCatalog, StartAttempt, Answer, ApplySidecar, CloseUnidentified, Commit,
                  Database
    <3>2. PICK w \in {"ask", "copyLink", "commit", "copyUnmark", "failed", "sidecar",
                      "identified", "unidentified"} :
            /\ Goto(c, w)
            /\ w \in {"ask", "copyLink", "commit"} => pc[c] \in {"match", "ask"}
      BY <2>3 DEF MatchCatalog, StartAttempt, Answer, ApplySidecar, CloseUnidentified, Commit,
                  Continue, Goto
    <3>3. /\ local'[c].file = local[c].file /\ local'[c].id = local[c].id
          /\ local'[c].toc = local[c].toc
          /\ \A d \in Conns : d # c => local'[d] = local[d]
      BY <1>0, <2>3 DEF MatchCatalog, StartAttempt, Answer, ApplySidecar, CloseUnidentified,
                        Commit, Continue, RipTypeOK, Locals
    <3>4. pc'[c] = w /\ \A d \in Conns : d # c => pc'[d] = pc[d]
      BY <1>0, <3>2, PcMoves DEF Identifying
    <3>5. LocalsFresh(c)'
      BY <2>1, <3>1, <3>2, <3>3, <3>4 DEF LocalsFresh, Fresh, Ingesting
    <3>6. QED
      BY <3>1, <3>3, <3>4, <3>5, QuietKeepsCache
  <2>4. CASE CopyRow(c)
    <3>1. PICK w \in {"link", "unmark"} : /\ Goto(c, w) /\ UNCHANGED <<disk, rows>>
                                          /\ w = "link" => pc[c] = "copyLink"
      BY <2>4 DEF CopyRow, Database, Goto
    <3>2. /\ local'[c].file = local[c].file /\ local'[c].id = local[c].id
          /\ local'[c].toc = local[c].toc /\ local'[c].copy = rows[local[c].id]
          /\ \A d \in Conns : d # c => local'[d] = local[d]
      BY <1>0, <2>4 DEF CopyRow, RipTypeOK, Locals
    <3>3. pc'[c] = w /\ \A d \in Conns : d # c => pc'[d] = pc[d]
      BY <1>0, <3>1, PcMoves DEF Identifying
    <3>4. LocalsFresh(c)'
      BY <2>1, <3>1, <3>2, <3>3 DEF LocalsFresh, Fresh, Ingesting
    <3>5. QED
      BY <3>1, <3>2, <3>3, <3>4, QuietKeepsCache
  <2>5. ASSUME NEW r \in RipFile, rows' = [rows EXCEPT ![local[c].id] = r], UNCHANGED disk,
               r.file = local[c].file, r.stamp = rows[local[c].id].stamp,
               r.disc # None => r.disc = local[c].toc /\ Fresh(c),
               NEW w \in {"close", "sidecar"}, Continue(c, w)
        PROVE  CacheInv'
    <3> DEFINE i == local[c].id
    <3>1. /\ i \in 1..Len(rows') /\ rows'[i] = r
          /\ \A j \in 1..Len(rows') : j # i => j \in 1..Len(rows) /\ rows'[j] = rows[j]
      BY <1>0, <2>1, <2>5 DEF RipTypeOK
    <3>2. rows[i].stamp <= disk[rows[i].file].stamp
      BY <2>1 DEF CacheInv, StampsBehind
    <3>3. /\ pc'[c] \in {"close", "sidecar"}
          /\ \A d \in Conns : d # c => pc'[d] = pc[d] /\ local'[d] = local[d]
      BY <1>0, <2>5, PcMoves DEF Continue, Identifying
    <3>4. r.disc # None /\ r.stamp = disk[r.file].stamp => r.disc = disk[r.file].toc
      BY <2>5 DEF Fresh
    <3>5. r.stamp <= disk[r.file].stamp
      BY <2>1, <2>5, <3>2
    <3> HIDE DEF i
    <3>6. QED
      BY <2>1, <2>5, <3>1, <3>3, <3>4, <3>5, WriteKeepsCache DEF i
  <2>6. CASE LinkRow(c)
    <3> DEFINE r == [local[c].copy EXCEPT !.disc = local[c].toc]
    <3>1. /\ local[c].copy \in RipFile /\ local[c].toc \in Tocs
          /\ local[c].copy.file = local[c].file
          /\ local[c].copy.stamp = rows[local[c].id].stamp /\ Fresh(c)
      BY <1>0, <2>1, <2>6, LocalsAreTyped DEF LinkRow, LocalsFresh, TypeInv, IdsKnown
    <3>2. /\ r \in RipFile /\ r.file = local[c].copy.file /\ r.disc = local[c].toc
          /\ r.stamp = local[c].copy.stamp
      BY <3>1 DEF RipFile
    <3>3. /\ rows' = [rows EXCEPT ![local[c].id] = r] /\ UNCHANGED disk
          /\ Continue(c, "sidecar")
      BY <2>6 DEF LinkRow
    <3> HIDE DEF r
    <3>4. QED
      BY <2>5, <3>1, <3>2, <3>3
  <2>7. CASE UnmarkRow(c)
    <3> DEFINE r == [local[c].copy EXCEPT !.disc = None]
    <3>1. /\ local[c].copy \in RipFile /\ local[c].copy.file = local[c].file
          /\ local[c].copy.stamp = rows[local[c].id].stamp
      BY <1>0, <2>1, <2>7, LocalsAreTyped DEF UnmarkRow, LocalsFresh, TypeInv, IdsKnown
    <3>2. /\ r \in RipFile /\ r.file = local[c].copy.file /\ r.disc = None
          /\ r.stamp = local[c].copy.stamp
      BY <3>1 DEF RipFile
    <3>3. /\ rows' = [rows EXCEPT ![local[c].id] = r] /\ UNCHANGED disk
          /\ Continue(c, "close")
      BY <2>7 DEF UnmarkRow
    <3> HIDE DEF r
    <3>4. QED
      BY <2>5, <3>1, <3>2, <3>3
  <2>8. CASE Commit(c) /\ ~UNCHANGED Database
    <3> DEFINE r == [rows[local[c].id] EXCEPT !.disc = local[c].toc]
    <3>1. rows[local[c].id] \in RipFile /\ local[c].toc \in Tocs /\ Fresh(c)
      BY <1>0, <2>1, <2>8, LocalsAreTyped, RowsAreFiles DEF Commit, LocalsFresh
    <3>2. /\ r \in RipFile /\ r.file = rows[local[c].id].file /\ r.disc = local[c].toc
          /\ r.stamp = rows[local[c].id].stamp
      BY <3>1 DEF RipFile
    <3>3. /\ rows' = [rows EXCEPT ![local[c].id] = r] /\ UNCHANGED disk
          /\ Continue(c, "sidecar")
      BY <2>8 DEF Commit
    <3> HIDE DEF r
    <3>4. QED
      BY <2>1, <2>5, <3>1, <3>2, <3>3
  <2>9. CASE FinishIdentify(c)
    <3>1. /\ rows' = [rows EXCEPT ![local[c].id].state = pc[c]] /\ UNCHANGED disk /\ Return(c)
      BY <2>9 DEF FinishIdentify
    <3>2. Len(rows') = Len(rows) /\ \A j \in 1..Len(rows) :
             rows'[j].file = rows[j].file /\ rows'[j].stamp = rows[j].stamp
             /\ rows'[j].disc = rows[j].disc
      BY <1>0, <3>1, RowsAreFiles DEF RipTypeOK, RipFile
    <3>3. LocalsFresh(c)'
      BY <1>0, <3>1, Returning DEF LocalsFresh, Ingesting, Identifying
    <3>4. QED
      BY <1>0, <3>1, <3>2, <3>3, Returning, QuietKeepsCache
  <2>10. QED
    BY <1>9, <2>2, <2>3, <2>4, <2>6, <2>7, <2>8, <2>9 DEF Identify
<1>10. QED
  BY <1>1, <1>2, <1>3, <1>4, <1>5, <1>6, <1>8, <1>9 DEF Next, Request

\* While one connection scans and identifies, whatever other connections open
\* the database and recover, and whenever programs are killed and files
\* edited: a row that the next scan takes for a cache hit links the disc that
\* the file holds.
THEOREM CacheIsSound ==
  ASSUME \A c, d \in Ingesters : c = d
  PROVE  Spec => []CacheSound
<1>1. Init => CacheInv
  <2> SUFFICES ASSUME Init PROVE CacheInv
    OBVIOUS
  <2>1. Len(rows) = 0 /\ \A c \in Conns : pc[c] = "down"
    BY DEF Init
  <2>2. QED
    BY <2>1 DEF CacheInv, StampsBehind, CacheSound, LocalsFresh, Ingesting, Identifying
<1>2. TypeInv /\ CacheInv /\ [Next]_vars => CacheInv'
  BY CacheStep
<1>3. CacheInv => CacheSound
  BY DEF CacheInv
<1>4. QED
  BY <1>1, <1>2, <1>3, TypeInvariant, PTL DEF Spec

-----------------------------------------------------------------------------
(* What a row says. A row is Working because of an ingesting connection    *)
(* that is identifying it, or was killed and has not recovered; while it   *)
(* is identified nobody gives it another state than Queued, which a        *)
(* recovery may; and a scan writes neither Identified nor Working.         *)

AtWork(c, i) == pc[c] \in {"down", "recover"} \/ (pc[c] \in Identifying /\ local[c].id = i)

WorkingIsAtWork ==
  \A i \in 1..Len(rows) : rows[i].state = "working" => \E c \in Ingesters : AtWork(c, i)

LocalsMean(c) ==
  /\ pc[c] \in Ingesting \cup Identifying => c \in Ingesters
  /\ pc[c] = "keep" /\ ~local[c].force =>
       LET i == LookupCached(local[c].file, local[c].stamp)
       IN  i # 0 => rows[i].disc = None
  /\ pc[c] \in {"find", "upsert"} => NewState(local[c]) \notin {"identified", "working"}
  /\ pc[c] = "upsert" /\ local[c].id = 0 => RowsOf(local[c].file) = {}
  /\ pc[c] \in Identifying => rows[local[c].id].state \in {"working", "queued"}
  /\ pc[c] \in {"link", "unmark"} => local[c].copy.state \in {"working", "queued"}
  /\ pc[c] \in {"sidecar", "identified"} => rows[local[c].id].disc # None

RowsInv ==
  OneRowPerFile /\ IdentifiedHasDisc /\ WorkingIsAtWork /\ \A c \in Conns : LocalsMean(c)

\* What a recovery, or a step that writes no row, may do to the rows.
RowsQuiet ==
  /\ Len(rows') = Len(rows)
  /\ \A i \in 1..Len(rows) :
       /\ rows'[i].file = rows[i].file /\ rows'[i].stamp = rows[i].stamp
       /\ rows'[i].disc = rows[i].disc
       /\ \/ rows'[i].state = rows[i].state
          \/ rows[i].state = "working" /\ rows'[i].state = "queued"

LEMMA QuietKeepsLookup ==
  ASSUME RipTypeOK, RowsQuiet, NEW f \in Files, NEW stamp
  PROVE  /\ RowsOf(f)' = RowsOf(f)
         /\ LookupCached(f, stamp)' = LookupCached(f, stamp)
         /\ LookupCached(f, stamp) \in {0} \cup 1..Len(rows)
<1>1. RowsOf(f)' = RowsOf(f)
  BY DEF RowsOf, RowsQuiet
<1>2. FindByPath(f)' = FindByPath(f)
  BY <1>1 DEF FindByPath
<1>3. QED
  BY <1>1, <1>2, FoundByPath DEF LookupCached, RowsQuiet

LEMMA QuietKeepsRows ==
  ASSUME TypeInv, RowsInv, NEW c \in Conns, RowsQuiet,
         \A d \in Conns : d # c => pc'[d] = pc[d] /\ local'[d] = local[d],
         \A i \in 1..Len(rows) : rows'[i].state = "working" /\ AtWork(c, i) => AtWork(c, i)',
         LocalsMean(c)'
  PROVE  RowsInv'
<1>0. RipTypeOK
  BY DEF TypeInv
<1>1. OneRowPerFile' /\ IdentifiedHasDisc'
  BY DEF RowsInv, RowsQuiet, OneRowPerFile, IdentifiedHasDisc
<1>2. WorkingIsAtWork'
  <2> SUFFICES ASSUME NEW i \in 1..Len(rows), rows'[i].state = "working"
               PROVE  \E d \in Ingesters : AtWork(d, i)'
    BY DEF WorkingIsAtWork, RowsQuiet
  <2>1. PICK d \in Ingesters : AtWork(d, i)
    BY DEF RowsQuiet, RowsInv, WorkingIsAtWork
  <2>2. d \in Conns
    BY IngestersAssumption
  <2>3. CASE d = c
    BY <2>1, <2>3
  <2>4. CASE d # c
    BY <2>1, <2>2, <2>4 DEF AtWork
  <2>5. QED
    BY <2>3, <2>4
<1>3. ASSUME NEW d \in Conns, d # c PROVE LocalsMean(d)'
  <2>1. pc'[d] = pc[d] /\ local'[d] = local[d] /\ LocalsMean(d)
    BY <1>3 DEF RowsInv
  <2>2. pc[d] \in Identifying => local[d].id \in 1..Len(rows)
    BY DEF TypeInv, IdsKnown, KnownRow
  <2>3. local[d].file \in Files
    BY <1>0, LocalsAreTyped
  <2>4. RowsOf(local[d].file)' = RowsOf(local[d].file)
    BY <1>0, <2>1, <2>3, QuietKeepsLookup DEF RowsOf, RowsQuiet
  <2>5. /\ LookupCached(local[d].file, local[d].stamp)' = LookupCached(local[d].file, local[d].stamp)
        /\ LookupCached(local[d].file, local[d].stamp) \in {0} \cup 1..Len(rows)
    <3>1. FindByPath(local[d].file)' = FindByPath(local[d].file)
      BY <2>4 DEF FindByPath
    <3>2. QED
      BY <1>0, <2>1, <2>3, <3>1, FoundByPath DEF LookupCached, RowsQuiet
  <2>6. NewState(local[d])' = NewState(local[d])
    BY <2>1 DEF NewState
  <2>7. pc[d] \in {"sidecar", "identified"} => pc[d] \in Identifying
    BY DEF Identifying
  <2>8. pc[d] \in Identifying => rows'[local[d].id].state \in {"working", "queued"}
    BY <2>1, <2>2 DEF LocalsMean, RowsQuiet
  <2>9. pc[d] \in {"sidecar", "identified"} => rows'[local[d].id].disc # None
    BY <2>1, <2>2, <2>7 DEF LocalsMean, RowsQuiet
  <2>10. pc[d] = "keep" /\ ~local[d].force =>
           (LookupCached(local[d].file, local[d].stamp) # 0 =>
              rows'[LookupCached(local[d].file, local[d].stamp)].disc = None)
    BY <2>1, <2>5 DEF LocalsMean, RowsQuiet
  <2>11. QED
    BY <2>1, <2>4, <2>5, <2>6, <2>8, <2>9, <2>10 DEF LocalsMean
<1>4. QED
  BY <1>1, <1>2, <1>3 DEF RowsInv

\* The one ingester writes the row i it works on: the other rows are at rest.
LEMMA WriteKeepsRows ==
  ASSUME TypeInv, RowsInv, \A d, e \in Ingesters : d = e,
         NEW c \in Ingesters, pc[c] \notin {"down", "recover"},
         NEW i \in 1..Len(rows'),
         pc[c] \in Identifying => local[c].id = i,
         \A j \in 1..Len(rows') : j # i =>
           j \in 1..Len(rows) /\ rows'[j] = rows[j] /\ rows[j].file # rows'[i].file,
         rows'[i].state = "identified" => rows'[i].disc # None,
         rows'[i].state = "working" => pc'[c] \in Identifying /\ local'[c].id = i,
         \A d \in Conns : d # c => pc'[d] = pc[d] /\ local'[d] = local[d],
         LocalsMean(c)'
  PROVE  RowsInv'
<1>1. OneRowPerFile'
  BY DEF RowsInv, OneRowPerFile
<1>2. IdentifiedHasDisc'
  BY DEF RowsInv, IdentifiedHasDisc
<1>3. WorkingIsAtWork'
  <2> SUFFICES ASSUME NEW j \in 1..Len(rows'), rows'[j].state = "working"
               PROVE  \E d \in Ingesters : AtWork(d, j)'
    BY DEF WorkingIsAtWork
  <2>1. CASE j = i
    BY <2>1 DEF AtWork
  <2>2. CASE j # i
    <3>1. PICK d \in Ingesters : AtWork(d, j)
      BY <2>2 DEF RowsInv, WorkingIsAtWork
    <3>2. QED
      BY <2>2, <3>1 DEF AtWork
  <2>3. QED
    BY <2>1, <2>2
<1>4. ASSUME NEW d \in Conns, d # c PROVE LocalsMean(d)'
  <2>1. pc'[d] = pc[d] /\ LocalsMean(d) /\ d \notin Ingesters
    BY <1>4 DEF RowsInv
  <2>2. pc[d] \notin Ingesting \cup Identifying
    BY <2>1 DEF LocalsMean
  <2>3. QED
    BY <2>1, <2>2 DEF LocalsMean, Ingesting, Identifying
<1>5. QED
  BY <1>1, <1>2, <1>3, <1>4 DEF RowsInv

LEMMA SameRowsAreQuiet == ASSUME RipTypeOK, UNCHANGED rows PROVE RowsQuiet
BY DEF RowsQuiet

\* Statements of an identification that write no row.
LEMMA IdentifyingKeepsRows ==
  ASSUME TypeInv, RowsInv, NEW c \in Conns, pc[c] \in Identifying, UNCHANGED rows,
         \A d \in Conns : d # c => pc'[d] = pc[d] /\ local'[d] = local[d],
         pc'[c] \in Identifying, local'[c].id = local[c].id,
         pc'[c] \in {"link", "unmark"} => local'[c].copy = rows[local[c].id],
         pc'[c] \in {"sidecar", "identified"} => pc[c] \in {"sidecar", "identified"}
  PROVE  RowsInv'
<1>1. RipTypeOK /\ LocalsMean(c)
  BY DEF TypeInv, RowsInv
<1>2. RowsQuiet
  BY <1>1, SameRowsAreQuiet
<1>3. \A i \in 1..Len(rows) : AtWork(c, i) => AtWork(c, i)'
  BY DEF AtWork, Identifying
<1>4. LocalsMean(c)'
  BY <1>1 DEF LocalsMean, Ingesting, Identifying
<1>5. QED
  BY <1>2, <1>3, <1>4, QuietKeepsRows

\* Statements of a scan, and of a request, that write no row: none is at work.
LEMMA ScanningKeepsRows ==
  ASSUME TypeInv, RowsInv, NEW c \in Conns, pc[c] \in {"idle"} \cup Ingesting,
         UNCHANGED rows,
         \A d \in Conns : d # c => pc'[d] = pc[d] /\ local'[d] = local[d],
         LocalsMean(c)'
  PROVE  RowsInv'
<1>1. RowsQuiet
  BY SameRowsAreQuiet DEF TypeInv
<1>2. \A i \in 1..Len(rows) : ~AtWork(c, i)
  BY DEF AtWork, Ingesting, Identifying
<1>3. QED
  BY <1>1, <1>2, QuietKeepsRows

LEMMA RecoveryKeepsRows ==
  ASSUME TypeInv, RowsInv, NEW c \in Conns, Open(c) \/ Recover(c)
  PROVE  RowsInv'
<1>0. RipTypeOK
  BY DEF TypeInv
<1>1. UNCHANGED local
  BY DEF Open, Recover, RecoverRips, RecoverAttempts
<1>2. PICK w \in {"recover", "recoverAttempts", "idle"} :
        Goto(c, w) /\ (Open(c) => w = "recover")
  BY DEF Open, Recover, RecoverRips, RecoverAttempts, Goto
<1>3. pc'[c] = w /\ \A d \in Conns : d # c => pc'[d] = pc[d]
  BY <1>0, <1>2, PcMoves DEF Recovering
<1>4. LocalsMean(c)'
  BY <1>3 DEF LocalsMean, Ingesting, Identifying
<1>5. RowsQuiet /\ (RecoverRips(c) => \A i \in 1..Len(rows) : rows'[i].state # "working")
  <2>1. CASE RecoverRips(c)
    <3> DEFINE R(i) == IF rows[i].state = "working" THEN [rows[i] EXCEPT !.state = "queued"]
                       ELSE rows[i]
    <3>1. rows' = [i \in 1..Len(rows) |-> R(i)] /\ Len(rows') = Len(rows)
      BY <1>0, <2>1, RecoveredRows DEF RecoverRips, RipTypeOK
    <3>2. \A i \in 1..Len(rows) :
             /\ R(i).file = rows[i].file /\ R(i).stamp = rows[i].stamp
             /\ R(i).disc = rows[i].disc /\ R(i).state # "working"
             /\ \/ R(i).state = rows[i].state
                \/ rows[i].state = "working" /\ R(i).state = "queued"
      BY <1>0, RowsAreFiles DEF RipFile
    <3> HIDE DEF R
    <3>3. QED
      BY <3>1, <3>2 DEF RowsQuiet
  <2>2. CASE ~RecoverRips(c)
    <3>1. UNCHANGED rows
      BY <2>2 DEF Open, Recover, RecoverAttempts
    <3>2. QED
      BY <1>0, <2>2, <3>1, SameRowsAreQuiet
  <2>3. QED
    BY <2>1, <2>2
<1>6. ASSUME NEW i \in 1..Len(rows), rows'[i].state = "working", AtWork(c, i)
      PROVE  AtWork(c, i)'
  <2>1. ~RecoverRips(c)
    BY <1>5, <1>6
  <2>2. Open(c)
    BY <1>6, <2>1 DEF Recover, RecoverAttempts, AtWork, Identifying
  <2>3. QED
    BY <1>2, <1>3, <2>2 DEF AtWork
<1>7. QED
  BY <1>1, <1>3, <1>4, <1>5, <1>6, QuietKeepsRows

LEMMA SameLocals ==
  ASSUME NEW c \in Conns, LocalsMean(c), UNCHANGED rows, pc'[c] = pc[c], local'[c] = local[c]
  PROVE  LocalsMean(c)'
<1> DEFINE f == local[c].file
<1>1. local'[c].file = f /\ RowsOf(f)' = RowsOf(f)
  BY DEF RowsOf
<1>2. FindByPath(f)' = FindByPath(f)
  BY <1>1 DEF FindByPath
<1>3. LookupCached(f, local[c].stamp)' = LookupCached(f, local[c].stamp)
  BY <1>2 DEF LookupCached
<1>4. NewState(local[c])' = NewState(local[c])
  BY DEF NewState
<1>5. QED
  BY <1>1, <1>3, <1>4 DEF LocalsMean

LEMMA CrashKeepsRows ==
  ASSUME TypeInv, RowsInv, NEW p \in Programs, Crash(p) PROVE RowsInv'
<1>1. UNCHANGED rows
  BY DEF Crash
<1>2. \A c \in Conns : pc'[c] = "down" \/ (pc'[c] = pc[c] /\ local'[c] = local[c])
  BY DEF Crash
<1>3. ASSUME NEW c \in Conns PROVE LocalsMean(c)'
  <2>1. CASE pc'[c] = "down"
    BY <2>1 DEF LocalsMean, Ingesting, Identifying
  <2>2. CASE pc'[c] = pc[c] /\ local'[c] = local[c]
    BY <1>1, <2>2, SameLocals DEF RowsInv
  <2>3. QED
    BY <1>2, <2>1, <2>2
<1>4. WorkingIsAtWork'
  BY <1>1, <1>2, IngestersAssumption DEF RowsInv, WorkingIsAtWork, AtWork
<1>5. QED
  BY <1>1, <1>3, <1>4 DEF RowsInv, OneRowPerFile, IdentifiedHasDisc

LEMMA ScanKeepsRows ==
  ASSUME TypeInv, RowsInv, \A d, e \in Ingesters : d = e, NEW c \in Conns, Ingest(c)
  PROVE  RowsInv'
<1>0. RipTypeOK /\ LocalsMean(c)
  BY DEF TypeInv, RowsInv
<1>1. pc[c] \in Ingesting /\ c \in Ingesters
  BY <1>0 DEF Ingest, CacheHit, CacheMiss, ReadExistingState, FindRow, UpsertRow, Ingesting,
              LocalsMean
<1>2. CASE Return(c) /\ UNCHANGED rows
  <2>1. LocalsMean(c)'
    BY <1>0, <1>2, Returning DEF LocalsMean, Ingesting, Identifying
  <2>2. QED
    BY <1>0, <1>1, <1>2, <2>1, Returning, ScanningKeepsRows
<1>3. CASE CacheMiss(c) /\ Continue(c, "keep")
  <2>1. UNCHANGED <<rows, local>> /\ pc'[c] = "keep"
        /\ \A d \in Conns : d # c => pc'[d] = pc[d]
    BY <1>0, <1>3, PcMoves DEF CacheMiss, Continue, Database, Ingesting
  <2>2. Hit(c) = 0
    BY <1>3 DEF CacheMiss
  <2>3. ~local[c].force =>
          LET i == LookupCached(local[c].file, local[c].stamp) IN i # 0 => rows[i].disc = None
    BY <2>2 DEF Hit
  <2>4. LookupCached(local[c].file, local[c].stamp)' = LookupCached(local[c].file, local[c].stamp)
    BY <2>1 DEF LookupCached, FindByPath, RowsOf
  <2>5. LocalsMean(c)'
    BY <1>1, <2>1, <2>3, <2>4 DEF LocalsMean, Identifying
  <2>6. QED
    BY <1>1, <2>1, <2>5, ScanningKeepsRows
<1>4. CASE ReadExistingState(c)
  <2> DEFINE i == LookupCached(local[c].file, local[c].stamp)
             keep == IF i = 0 THEN None ELSE rows[i].state
  <2>1. i \in {0} \cup 1..Len(rows)
    BY <1>0, LocalsAreTyped, FoundByPath DEF LookupCached
  <2>2. UNCHANGED rows /\ Goto(c, "find") /\ local' = [local EXCEPT ![c].keep = keep]
    BY <1>4 DEF ReadExistingState, Database
  <2>3. pc'[c] = "find" /\ \A d \in Conns : d # c => pc'[d] = pc[d]
    BY <1>0, <2>2, PcMoves DEF Ingesting
  <2>4. /\ local'[c].keep = keep /\ local'[c].force = local[c].force
        /\ local'[c].identify = local[c].identify
        /\ \A d \in Conns : d # c => local'[d] = local[d]
    BY <1>0, <2>2 DEF RipTypeOK, Locals
  <2>5. i # 0 => rows[i].state # "working"
    <3> SUFFICES ASSUME i # 0, rows[i].state = "working" PROVE FALSE
      OBVIOUS
    <3>1. PICK d \in Ingesters : AtWork(d, i)
      BY <2>1 DEF RowsInv, WorkingIsAtWork
    <3>2. d = c
      BY <1>1
    <3>3. QED
      BY <1>1, <3>1, <3>2 DEF AtWork, Ingesting, Identifying
  <2>6. ~local[c].force /\ i # 0 => rows[i].state # "identified"
    BY <1>0, <1>4, <2>1 DEF ReadExistingState, LocalsMean, RowsInv, IdentifiedHasDisc
  <2> HIDE DEF i
  <2>7. NewState(local'[c]) \notin {"identified", "working"}
    BY <2>4, <2>5, <2>6 DEF NewState
  <2>8. LocalsMean(c)'
    BY <1>1, <2>3, <2>7 DEF LocalsMean, Identifying, NewState
  <2>9. QED
    BY <1>1, <2>2, <2>3, <2>4, <2>8, ScanningKeepsRows
<1>5. CASE FindRow(c)
  <2>1. UNCHANGED rows /\ Goto(c, "upsert")
        /\ local' = [local EXCEPT ![c].id = FindByPath(local[c].file)]
    BY <1>5 DEF FindRow, Database
  <2>2. pc'[c] = "upsert" /\ \A d \in Conns : d # c => pc'[d] = pc[d]
    BY <1>0, <2>1, PcMoves DEF Ingesting
  <2>3. /\ local'[c].id = FindByPath(local[c].file) /\ local'[c].force = local[c].force
        /\ local'[c].identify = local[c].identify /\ local'[c].keep = local[c].keep
        /\ local'[c].file = local[c].file
        /\ \A d \in Conns : d # c => local'[d] = local[d]
    BY <1>0, <2>1 DEF RipTypeOK, Locals
  <2>4. FindByPath(local[c].file) = 0 => RowsOf(local[c].file) = {}
    <3> SUFFICES ASSUME RowsOf(local[c].file) # {} PROVE FindByPath(local[c].file) # 0
      OBVIOUS
    <3>1. FindByPath(local[c].file) \in RowsOf(local[c].file)
      BY DEF FindByPath
    <3>2. QED
      BY <3>1 DEF RowsOf
  <2>5. RowsOf(local[c].file)' = RowsOf(local[c].file)
    BY <2>1, <2>3 DEF RowsOf
  <2>6. NewState(local[c])' = NewState(local[c])
    BY <2>3 DEF NewState
  <2>7. LocalsMean(c)'
    BY <1>0, <1>1, <1>5, <2>2, <2>3, <2>4, <2>5, <2>6 DEF FindRow, LocalsMean, Identifying
  <2>8. QED
    BY <1>1, <2>1, <2>2, <2>3, <2>7, ScanningKeepsRows
<1>6. CASE UpsertRow(c)
  <2> DEFINE r == NewRow(local[c])
             i == IF local[c].id = 0 THEN Len(rows) + 1 ELSE local[c].id
  <2>1. /\ r.file = local[c].file /\ r.state = NewState(local[c])
        /\ NewState(local[c]) \notin {"identified", "working"}
    BY <1>0, <1>6 DEF NewRow, UpsertRow, LocalsMean
  <2>2. local[c].id # 0 => local[c].id \in 1..Len(rows) /\ rows[local[c].id].file = local[c].file
    BY <1>6 DEF TypeInv, IdsKnown, KnownRow, UpsertRow
  <2>3. Return(c)
    BY <1>6 DEF UpsertRow
  <2> HIDE DEF r
  <2>4. /\ i \in 1..Len(rows') /\ rows'[i] = r
        /\ \A j \in 1..Len(rows') : j # i =>
             j \in 1..Len(rows) /\ rows'[j] = rows[j] /\ rows[j].file # rows'[i].file
    <3>1. CASE local[c].id = 0
      <4>1. rows' = Append(rows, r)
        BY <1>6, <3>1 DEF UpsertRow, r
      <4>2. \A j \in 1..Len(rows) : rows[j].file # r.file
        BY <1>0, <1>6, <2>1, <3>1 DEF UpsertRow, LocalsMean, RowsOf
      <4>3. QED
        BY <1>0, <3>1, <4>1, <4>2 DEF RipTypeOK
    <3>2. CASE local[c].id # 0
      <4>1. rows' = [rows EXCEPT ![local[c].id] = r]
        BY <1>6, <3>2 DEF UpsertRow, r
      <4>2. \A j \in 1..Len(rows) : j # local[c].id => rows[j].file # r.file
        BY <2>1, <2>2, <3>2 DEF RowsInv, OneRowPerFile
      <4>3. QED
        BY <1>0, <2>2, <3>2, <4>1, <4>2 DEF RipTypeOK
    <3>3. QED
      BY <3>1, <3>2
  <2>5. LocalsMean(c)'
    BY <1>0, <2>3, Returning DEF LocalsMean, Ingesting, Identifying
  <2> HIDE DEF i
  <2>6. pc[c] \notin {"down", "recover"} /\ pc[c] \notin Identifying
    BY <1>1 DEF Ingesting, Identifying
  <2>7. QED
    BY <1>0, <1>1, <2>1, <2>3, <2>4, <2>5, <2>6, Returning, WriteKeepsRows
<1>7. QED
  BY <1>2, <1>3, <1>4, <1>5, <1>6 DEF Ingest, CacheHit, CacheMiss, Database

LEMMA RequestKeepsRows ==
  ASSUME TypeInv, RowsInv, \A d, e \in Ingesters : d = e, NEW c \in Conns, Request(c)
  PROVE  RowsInv'
<1>0. RipTypeOK /\ pc[c] = "idle" /\ c \in Ingesters
  BY DEF TypeInv, Request, StatFile, BeginIdentify
<1>1. ASSUME NEW f \in Files, NEW identify \in BOOLEAN, NEW force \in BOOLEAN,
             StatFile(c, f, identify, force)
      PROVE  RowsInv'
  <2>1. /\ \A d \in Conns : d # c => local'[d] = local[d]
        /\ Goto(c, "lookup") /\ UNCHANGED rows
    BY <1>0, <1>1 DEF StatFile, Database, RipTypeOK
  <2>2. pc'[c] = "lookup" /\ \A d \in Conns : d # c => pc'[d] = pc[d]
    BY <1>0, <2>1, PcMoves DEF Ingesting
  <2>3. LocalsMean(c)'
    BY <1>0, <2>2 DEF LocalsMean, Identifying
  <2>4. QED
    BY <1>0, <2>1, <2>2, <2>3, ScanningKeepsRows
<1>2. ASSUME NEW i \in 1..Len(rows), NEW force \in BOOLEAN, BeginIdentify(c, i, force)
      PROVE  RowsInv'
  <2> DEFINE r == [rows[i] EXCEPT !.state = "working"]
  <2>1. /\ rows' = [rows EXCEPT ![i] = r] /\ Goto(c, "read")
        /\ local'[c].id = i /\ \A d \in Conns : d # c => local'[d] = local[d]
    BY <1>0, <1>2 DEF BeginIdentify, RipTypeOK, Locals
  <2>2. r \in RipFile /\ r.file = rows[i].file /\ r.state = "working"
    BY <1>0, RowsAreFiles DEF RipFile, IdentificationState
  <2> HIDE DEF r
  <2>3. /\ Len(rows') = Len(rows) /\ rows'[i] = r
        /\ \A j \in 1..Len(rows) : j # i => rows'[j] = rows[j]
    BY <1>0, <2>1, <2>2, RowUpdate
  <2>4. \A j \in 1..Len(rows) : j # i => rows[j].file # rows'[i].file
    BY <2>2, <2>3 DEF RowsInv, OneRowPerFile
  <2>5. pc'[c] = "read" /\ \A d \in Conns : d # c => pc'[d] = pc[d]
    BY <1>0, <2>1, PcMoves DEF Identifying
  <2>6. LocalsMean(c)'
    BY <1>0, <2>1, <2>2, <2>3, <2>5 DEF LocalsMean
  <2>7. pc[c] \notin {"down", "recover"} /\ pc[c] \notin Identifying /\ pc'[c] \in Identifying
    BY <1>0, <2>5 DEF Identifying
  <2>8. i \in 1..Len(rows') /\ rows'[i].state # "identified"
    BY <2>2, <2>3
  <2>9. QED
    BY <1>0, <2>1, <2>3, <2>4, <2>5, <2>6, <2>7, <2>8, WriteKeepsRows
<1>3. QED
  BY <1>1, <1>2 DEF Request

LEMMA IdentifyKeepsRows ==
  ASSUME TypeInv, RowsInv, \A d, e \in Ingesters : d = e, NEW c \in Conns, Identify(c)
  PROVE  RowsInv'
<1>0. RipTypeOK /\ LocalsMean(c)
  BY DEF TypeInv, RowsInv
<1>1. pc[c] \in Identifying /\ pc[c] \notin {"down", "recover"}
  BY DEF Identify, ReadToc, MatchCatalog, StartAttempt, Answer, CopyRow, LinkRow,
         UnmarkRow, CloseUnidentified, Commit, ApplySidecar, FinishIdentify, Outcomes, Identifying
<1> DEFINE i == local[c].id
<1>2. /\ c \in Ingesters /\ i \in 1..Len(rows) /\ rows[i].file = local[c].file
      /\ rows[i] \in RipFile /\ rows[i].state \in {"working", "queued"}
      /\ local[c].toc \in Tocs
  BY <1>0, <1>1, LocalsAreTyped, RowsAreFiles DEF LocalsMean, TypeInv, IdsKnown, KnownRow
<1>3. CASE \/ ReadToc(c) \/ MatchCatalog(c) \/ StartAttempt(c) \/ Answer(c) \/ ApplySidecar(c)
           \/ CloseUnidentified(c)
           \/ (Commit(c) /\ UNCHANGED Database /\ Continue(c, "failed"))
  <2>1. UNCHANGED rows
    BY <1>3 DEF ReadToc, MatchCatalog, StartAttempt, Answer, ApplySidecar, CloseUnidentified,
                Commit, Database
  <2>2. PICK w \in {"match", "ask", "copyLink", "commit", "copyUnmark", "failed", "identified",
                    "unidentified"} :
          /\ Goto(c, w)
          /\ w = "identified" => pc[c] = "sidecar"
    BY <1>3 DEF ReadToc, MatchCatalog, StartAttempt, Answer, ApplySidecar, CloseUnidentified,
                Commit, Continue, Goto
  <2>3. local'[c].id = i /\ \A d \in Conns : d # c => local'[d] = local[d]
    BY <1>0, <1>3 DEF ReadToc, MatchCatalog, StartAttempt, Answer, ApplySidecar,
                      CloseUnidentified, Commit, Continue, RipTypeOK, Locals
  <2>4. pc'[c] = w /\ \A d \in Conns : d # c => pc'[d] = pc[d]
    BY <1>0, <2>2, PcMoves DEF Identifying
  <2>5. pc'[c] \in {"sidecar", "identified"} => pc[c] \in {"sidecar", "identified"}
    BY <2>2, <2>4
  <2>6. QED
    BY <1>1, <2>1, <2>3, <2>4, <2>5, IdentifyingKeepsRows DEF Identifying
<1>4. CASE CopyRow(c)
  <2>1. PICK w \in {"link", "unmark"} : Goto(c, w) /\ UNCHANGED rows
    BY <1>4 DEF CopyRow, Database, Goto
  <2>2. /\ local'[c].id = i /\ local'[c].copy = rows[i]
        /\ \A d \in Conns : d # c => local'[d] = local[d]
    BY <1>0, <1>4 DEF CopyRow, RipTypeOK, Locals
  <2>3. pc'[c] = w /\ \A d \in Conns : d # c => pc'[d] = pc[d]
    BY <1>0, <2>1, PcMoves DEF Identifying
  <2>4. QED
    BY <1>1, <2>1, <2>2, <2>3, IdentifyingKeepsRows DEF Identifying
\* The row is written whole, with its file.
<1>5. ASSUME NEW r \in RipFile, rows' = [rows EXCEPT ![i] = r], r.file = local[c].file,
             r.state = "identified" => r.disc # None,
             r.state = "working" => pc'[c] \in Identifying /\ local'[c].id = i,
             \A d \in Conns : d # c => pc'[d] = pc[d] /\ local'[d] = local[d],
             LocalsMean(c)'
      PROVE  RowsInv'
  <2>1. /\ Len(rows') = Len(rows) /\ rows'[i] = r
        /\ \A j \in 1..Len(rows) : j # i => rows'[j] = rows[j]
    BY <1>0, <1>2, <1>5, RowUpdate
  <2>2. \A j \in 1..Len(rows) : j # i => rows[j].file # rows'[i].file
    BY <1>2, <1>5, <2>1 DEF RowsInv, OneRowPerFile
  <2>3. i \in 1..Len(rows') /\ pc[c] \in Identifying => local[c].id = i
    BY <1>2, <2>1
  <2> HIDE DEF i
  <2>4. QED
    BY <1>1, <1>2, <1>5, <2>1, <2>2, <2>3, WriteKeepsRows DEF i
\* And the identification goes on.
<1>6. ASSUME NEW r \in RipFile, rows' = [rows EXCEPT ![i] = r], r.file = local[c].file,
             r.state \in {"working", "queued"},
             NEW w \in {"close", "sidecar"}, Continue(c, w), w = "sidecar" => r.disc # None
      PROVE  RowsInv'
  <2>1. rows'[i] = r
    BY <1>0, <1>2, <1>6, RowUpdate
  <2>2. /\ pc'[c] = w /\ UNCHANGED local
        /\ \A d \in Conns : d # c => pc'[d] = pc[d]
    BY <1>0, <1>6, PcMoves DEF Continue, Identifying
  <2>3. LocalsMean(c)'
    BY <1>2, <1>6, <2>1, <2>2 DEF LocalsMean, Ingesting
  <2>4. pc'[c] \in Identifying
    BY <2>2 DEF Identifying
  <2> HIDE DEF i
  <2>5. QED
    BY <1>5, <1>6, <2>2, <2>3, <2>4 DEF i
<1>7. CASE LinkRow(c)
  <2> DEFINE r == [local[c].copy EXCEPT !.disc = local[c].toc]
  <2>1. /\ local[c].copy \in RipFile /\ local[c].copy.file = local[c].file
        /\ local[c].copy.state \in {"working", "queued"}
    BY <1>0, <1>7, LocalsAreTyped DEF LinkRow, LocalsMean, TypeInv, IdsKnown
  <2>2. /\ r \in RipFile /\ r.file = local[c].copy.file /\ r.state = local[c].copy.state
        /\ r.disc # None
    BY <1>2, <2>1, DataAssumption DEF RipFile
  <2>3. rows' = [rows EXCEPT ![i] = r] /\ Continue(c, "sidecar")
    BY <1>7 DEF LinkRow
  <2> HIDE DEF r
  <2>4. QED
    BY <1>6, <2>1, <2>2, <2>3
<1>8. CASE UnmarkRow(c)
  <2> DEFINE r == [local[c].copy EXCEPT !.disc = None]
  <2>1. /\ local[c].copy \in RipFile /\ local[c].copy.file = local[c].file
        /\ local[c].copy.state \in {"working", "queued"}
    BY <1>0, <1>8, LocalsAreTyped DEF UnmarkRow, LocalsMean, TypeInv, IdsKnown
  <2>2. r \in RipFile /\ r.file = local[c].copy.file /\ r.state = local[c].copy.state
    BY <2>1 DEF RipFile
  <2>3. rows' = [rows EXCEPT ![i] = r] /\ Continue(c, "close")
    BY <1>8 DEF UnmarkRow
  <2> HIDE DEF r
  <2>4. QED
    BY <1>6, <2>1, <2>2, <2>3
<1>9. CASE Commit(c) /\ ~(UNCHANGED Database /\ Continue(c, "failed"))
  <2> DEFINE r == [rows[i] EXCEPT !.disc = local[c].toc]
  <2>1. r \in RipFile /\ r.file = rows[i].file /\ r.state = rows[i].state /\ r.disc # None
    BY <1>2, DataAssumption DEF RipFile
  <2>2. rows' = [rows EXCEPT ![i] = r] /\ Continue(c, "sidecar")
    BY <1>9 DEF Commit
  <2> HIDE DEF r
  <2>3. QED
    BY <1>2, <1>6, <2>1, <2>2
<1>10. CASE FinishIdentify(c)
  <2> DEFINE r == [rows[i] EXCEPT !.state = pc[c]]
  <2>1. rows' = [rows EXCEPT ![i] = r] /\ Return(c) /\ pc[c] \in Outcomes
    BY <1>10 DEF FinishIdentify
  <2>2. r \in RipFile /\ r.file = rows[i].file /\ r.state = pc[c] /\ r.disc = rows[i].disc
    BY <1>2, <2>1 DEF RipFile, Outcomes, IdentificationState
  <2>3. pc[c] = "identified" => rows[i].disc # None
    BY <1>0 DEF LocalsMean
  <2>4. LocalsMean(c)'
    BY <1>0, <2>1, Returning DEF LocalsMean, Ingesting, Identifying
  <2>5. r.state # "working"
    BY <2>1, <2>2 DEF Outcomes
  <2> HIDE DEF r
  <2>6. QED
    BY <1>0, <1>2, <1>5, <2>1, <2>2, <2>3, <2>4, <2>5, Returning
<1>11. QED
  BY <1>3, <1>4, <1>7, <1>8, <1>9, <1>10 DEF Identify

\* While one connection scans and identifies: an Identified row has its disc, a
\* Working one is being identified unless somebody was killed and has not
\* recovered yet, and a file has one row, however often programs are killed and
\* restarted, files edited, and other connections opened and recovered.
THEOREM RowsMean ==
  ASSUME \A c, d \in Ingesters : c = d
  PROVE  Spec => []RowsMeanWhatTheySay
<1>1. Init => RowsInv
  <2> SUFFICES ASSUME Init PROVE RowsInv
    OBVIOUS
  <2>1. Len(rows) = 0 /\ \A c \in Conns : pc[c] = "down"
    BY DEF Init
  <2>2. QED
    BY <2>1 DEF RowsInv, OneRowPerFile, IdentifiedHasDisc, WorkingIsAtWork, LocalsMean, Ingesting,
                Identifying
<1>2. TypeInv /\ RowsInv /\ [Next]_vars => RowsInv'
  <2> SUFFICES ASSUME TypeInv, RowsInv, [Next]_vars PROVE RowsInv'
    OBVIOUS
  <2>1. ASSUME UNCHANGED <<rows, pc, local>> PROVE RowsInv'
    <3>1. \A c \in Conns : LocalsMean(c)'
      BY <2>1, SameLocals DEF RowsInv
    <3>2. QED
      BY <2>1, <3>1 DEF RowsInv, OneRowPerFile, IdentifiedHasDisc, WorkingIsAtWork, AtWork
  <2>2. UNCHANGED vars \/ (\E f \in Files : Edit(f)) => UNCHANGED <<rows, pc, local>>
    BY DEF vars, Edit
  <2>3. QED
    BY <2>1, <2>2, CrashKeepsRows, RecoveryKeepsRows, RequestKeepsRows, ScanKeepsRows,
       IdentifyKeepsRows DEF Next
<1>3. RowsInv => RowsMeanWhatTheySay
  BY IngestersAssumption
     DEF RowsInv, RowsMeanWhatTheySay, WorkingMeansRunning, WorkingIsAtWork, AtWork, Running
<1>4. QED
  BY <1>1, <1>2, <1>3, TypeInvariant, PTL DEF Spec

-----------------------------------------------------------------------------
(* Attempts. Where one program has the database and ingests in its worker, *)
(* the session has recovered before the worker starts, and a worker's own  *)
(* recovery comes before its work: an attempt under way stays open.        *)

Asking == {"ask", "commit", "copyUnmark", "unmark", "close"}

AttemptsInv ==
  \A p \in Programs :
    /\ pc[<<p, "worker">>] # "down" => pc[<<p, "session">>] \notin {"down"} \cup Recovering
    /\ pc[<<p, "session">>] \notin Ingesting \cup Identifying
    /\ pc[<<p, "worker">>] \in Asking =>
         LET a == local[<<p, "worker">>].attempt
         IN  a \in DOMAIN attempts /\ attempts[a] = "working"

\* What an identification, or a scan, may do to the attempts.
ClosedStays == \A a \in DOMAIN attempts : attempts[a] # "working" => attempts'[a] = attempts[a]

LEMMA AtWorkWhere ==
  ASSUME NEW c \in Conns
  PROVE  /\ Ingest(c) => pc[c] \in Ingesting
         /\ Identify(c) => pc[c] \in Identifying
         /\ Request(c) => pc[c] = "idle"
<1>1. Ingest(c) => pc[c] \in Ingesting
  BY DEF Ingest, CacheHit, CacheMiss, ReadExistingState, FindRow, UpsertRow, Ingesting
<1>2. Identify(c) => pc[c] \in Identifying
  BY DEF Identify, ReadToc, MatchCatalog, StartAttempt, Answer, CopyRow, LinkRow, UnmarkRow,
         CloseUnidentified, Commit, ApplySidecar, FinishIdentify, Identifying, Outcomes
<1>3. Request(c) => pc[c] = "idle"
  BY DEF Request, StatFile, BeginIdentify
<1>4. QED
  BY <1>1, <1>2, <1>3

LEMMA IngestMoves ==
  ASSUME RipTypeOK, NEW c \in Conns, Request(c) \/ Ingest(c)
  PROVE  /\ UNCHANGED attempts /\ pc'[c] \notin Asking
         /\ \A d \in Conns : d # c => pc'[d] = pc[d] /\ local'[d] = local[d]
<1>1. /\ UNCHANGED attempts
      /\ \E where \in {"idle", "lookup", "keep", "find", "upsert", "read"} : Goto(c, where)
  BY DEF Request, Ingest, StatFile, BeginIdentify, CacheHit, CacheMiss, ReadExistingState, FindRow,
         UpsertRow, Return, Continue, Database
<1>2. pc'[c] \in {"idle", "lookup", "keep", "find", "upsert", "read"}
      /\ \A d \in Conns : d # c => pc'[d] = pc[d]
  BY <1>1, PcMoves DEF Ingesting, Identifying
<1>3. \A d \in Conns : d # c => local'[d] = local[d]
  BY DEF RipTypeOK, Request, Ingest, StatFile, BeginIdentify, CacheHit, CacheMiss,
         ReadExistingState, FindRow, UpsertRow, Return, Continue
<1>4. QED
  BY <1>1, <1>2, <1>3 DEF Asking

LEMMA IdentifyAttempts ==
  ASSUME RipTypeOK, AttemptsInv, NEW p \in Programs, NEW c \in Conns, c = <<p, "worker">>,
         Identify(c)
  PROVE  /\ \A d \in Conns : d # c => pc'[d] = pc[d] /\ local'[d] = local[d]
         /\ pc'[c] \in Asking => /\ local'[c].attempt \in DOMAIN attempts'
                                 /\ attempts'[local'[c].attempt] = "working"
         /\ ClosedStays
<1>1. \A d \in Conns : d # c => local'[d] = local[d]
  BY DEF RipTypeOK, Identify, ReadToc, MatchCatalog, StartAttempt, Answer, CopyRow, LinkRow,
         UnmarkRow, CloseUnidentified, Commit, ApplySidecar, FinishIdentify, Return, Continue
<1>2. pc[c] \in Asking => /\ local[c].attempt \in DOMAIN attempts
                          /\ attempts[local[c].attempt] = "working"
  BY DEF AttemptsInv
<1>3. CASE ReadToc(c) \/ MatchCatalog(c) \/ LinkRow(c) \/ ApplySidecar(c) \/ FinishIdentify(c)
  <2>1. /\ UNCHANGED attempts
        /\ \E where \in {"idle", "match", "failed", "copyLink", "sidecar", "identified"} : Goto(c, where)
    BY <1>3 DEF ReadToc, MatchCatalog, LinkRow, ApplySidecar, FinishIdentify, Return, Continue, Database
  <2>2. /\ pc'[c] \in {"idle", "match", "failed", "copyLink", "sidecar", "identified"}
        /\ \A d \in Conns : d # c => pc'[d] = pc[d]
    BY <2>1, PcMoves DEF Ingesting, Identifying
  <2>3. QED
    BY <1>1, <2>1, <2>2 DEF Asking, ClosedStays
<1>4. CASE Answer(c) \/ CopyRow(c) \/ UnmarkRow(c)
  <2>1. /\ UNCHANGED attempts /\ local'[c].attempt = local[c].attempt
    BY <1>4 DEF Answer, CopyRow, UnmarkRow, Continue, Database, RipTypeOK, Locals
  <2>2. \E where \in {"commit", "copyUnmark", "failed", "link", "unmark", "close"} :
          Goto(c, where) /\ (where \in Asking => pc[c] \in Asking)
    BY <1>4 DEF Answer, CopyRow, UnmarkRow, Continue, Asking
  <2>3. (pc'[c] \in Asking => pc[c] \in Asking) /\ \A d \in Conns : d # c => pc'[d] = pc[d]
    BY <2>2, PcMoves DEF Ingesting, Identifying
  <2>4. QED
    BY <1>1, <1>2, <2>1, <2>3 DEF ClosedStays
<1>5. CASE StartAttempt(c)
  <2> DEFINE a == Len(attempts) + 1  l == [local[c] EXCEPT !.attempt = a]
  <2>1. /\ attempts' = Append(attempts, "working") /\ Goto(c, "ask")
        /\ local' = [local EXCEPT ![c].attempt = a]
    BY <1>5 DEF StartAttempt
  <2>2. /\ attempts' \in Seq({"working", "resolved", "unidentified", "interrupted"})
        /\ a \in DOMAIN attempts' /\ attempts'[a] = "working"
        /\ \A b \in DOMAIN attempts : attempts'[b] = attempts[b]
    BY <2>1 DEF RipTypeOK
  <2>3. local'[c].attempt = a
    BY <2>1 DEF RipTypeOK, Locals
  <2>4. pc'[c] = "ask" /\ \A d \in Conns : d # c => pc'[d] = pc[d]
    BY <2>1, PcMoves DEF Identifying
  <2> HIDE DEF a
  <2>5. QED
    BY <1>1, <2>2, <2>3, <2>4 DEF ClosedStays
<1>6. ASSUME NEW status, NEW where \in {"unidentified", "sidecar"}, Close(local[c].attempt, status),
             Goto(c, where), pc[c] \in Asking
      PROVE  /\ \A d \in Conns : d # c => pc'[d] = pc[d]
             /\ pc'[c] \notin Asking /\ ClosedStays
  <2>1. /\ pc'[c] = where /\ \A d \in Conns : d # c => pc'[d] = pc[d]
    BY <1>6, PcMoves DEF Identifying
  <2>2. attempts' = [attempts EXCEPT ![local[c].attempt] = status]
    BY <1>6 DEF Close
  <2>3. QED
    BY <1>2, <1>6, <2>1, <2>2 DEF Asking, ClosedStays
<1>7. CASE CloseUnidentified(c)
  BY <1>1, <1>6, <1>7 DEF CloseUnidentified, Continue, Asking
<1>8. CASE Commit(c)
  <2>1. CASE Close(local[c].attempt, "resolved") /\ Continue(c, "sidecar")
    BY <1>1, <1>6, <1>8, <2>1 DEF Commit, Continue, Asking
  <2>2. CASE UNCHANGED Database /\ Continue(c, "failed")
    <3>1. UNCHANGED attempts /\ Goto(c, "failed")
      BY <2>2 DEF Database, Continue
    <3>2. pc'[c] = "failed" /\ \A d \in Conns : d # c => pc'[d] = pc[d]
      BY <3>1, PcMoves DEF Identifying
    <3>3. QED
      BY <1>1, <3>1, <3>2 DEF Asking, ClosedStays
  <2>3. QED
    BY <1>8, <2>1, <2>2 DEF Commit
<1>9. QED
  BY <1>3, <1>4, <1>5, <1>7, <1>8 DEF Identify

\* A step that leaves the attempts as they are and lets its connection come
\* to no question it was not asking, or only to one of an attempt under way.
LEMMA QuietKeepsAttempts ==
  ASSUME AttemptsInv, RipTypeOK, NEW c \in Conns, UNCHANGED attempts,
         \A d \in Conns : d # c => pc'[d] = pc[d] /\ local'[d] = local[d],
         c[2] = "session" =>
           /\ pc'[c] \notin Ingesting \cup Identifying
           /\ pc'[c] \in {"down"} \cup Recovering => pc[c] \in {"down"} \cup Recovering,
         c[2] = "worker" =>
           /\ pc'[c] # "down" =>
                pc[c] # "down" \/ pc[<<c[1], "session">>] \notin {"down"} \cup Recovering
           /\ pc'[c] \in Asking => pc[c] \in Asking /\ local'[c].attempt = local[c].attempt
  PROVE  AttemptsInv'
<1> SUFFICES ASSUME NEW p \in Programs
             PROVE  /\ pc'[<<p, "worker">>] # "down" =>
                         pc'[<<p, "session">>] \notin {"down"} \cup Recovering
                    /\ pc'[<<p, "session">>] \notin Ingesting \cup Identifying
                    /\ pc'[<<p, "worker">>] \in Asking =>
                         LET a == local'[<<p, "worker">>].attempt
                         IN  a \in DOMAIN attempts' /\ attempts'[a] = "working"
  BY DEF AttemptsInv
<1> DEFINE w == <<p, "worker">>  s == <<p, "session">>
<1>1. w \in Conns /\ s \in Conns /\ w # s /\ w[1] = p /\ w[2] = "worker" /\ s[2] = "session"
  BY DEF Conns
<1>2. /\ pc[w] # "down" => pc[s] \notin {"down"} \cup Recovering
      /\ pc[s] \notin Ingesting \cup Identifying
      /\ pc[w] \in Asking => /\ local[w].attempt \in DOMAIN attempts
                             /\ attempts[local[w].attempt] = "working"
  BY DEF AttemptsInv
<1> HIDE DEF w, s
<1>3. CASE c = w
  BY <1>1, <1>2, <1>3 DEF w, s
<1>4. CASE c = s
  BY <1>1, <1>2, <1>4 DEF w, s
<1>5. CASE c # w /\ c # s
  BY <1>1, <1>2, <1>5 DEF w, s
<1>6. QED
  BY <1>3, <1>4, <1>5

\* The only worker closes its attempt, or starts one.
LEMMA WorkerKeepsAttempts ==
  ASSUME \A p, q \in Programs : p = q,
         AttemptsInv, RipTypeOK, NEW p \in Programs, NEW c, c = <<p, "worker">>, pc[c] # "down",
         \A d \in Conns : d # c => pc'[d] = pc[d] /\ local'[d] = local[d],
         pc'[c] \in Asking => /\ local'[c].attempt \in DOMAIN attempts'
                              /\ attempts'[local'[c].attempt] = "working"
  PROVE  AttemptsInv'
<1>1. <<p, "session">> \in Conns /\ <<p, "session">> # c
  BY DEF Conns
<1>2. /\ pc[<<p, "session">>] \notin {"down"} \cup Recovering
      /\ pc[<<p, "session">>] \notin Ingesting \cup Identifying
  BY DEF AttemptsInv
<1>3. pc'[<<p, "session">>] = pc[<<p, "session">>]
  BY <1>1
<1>4. \A q \in Programs : q = p
  OBVIOUS
<1>5. QED
  BY <1>2, <1>3, <1>4 DEF AttemptsInv

LEMMA AttemptStep ==
  ASSUME \A p, q \in Programs : p = q, Ingesters \subseteq Programs \X {"worker"},
         TypeInv, AttemptsInv, [Next]_vars
  PROVE  AttemptsInv' /\ ClosedStays
<1>0. RipTypeOK
  BY DEF TypeInv
<1>1. CASE UNCHANGED vars \/ (\E f \in Files : Edit(f))
  BY <1>1 DEF vars, Edit, AttemptsInv, ClosedStays
<1>2. ASSUME NEW p \in Programs, Crash(p) PROVE AttemptsInv' /\ ClosedStays
  <2>1. UNCHANGED attempts /\ \A c \in Conns : pc'[c] = "down"
    BY <1>2 DEF Crash, Conns
  <2>2. \A q \in Programs : <<q, "worker">> \in Conns /\ <<q, "session">> \in Conns
    BY DEF Conns
  <2>3. QED
    BY <2>1, <2>2 DEF AttemptsInv, Asking, Ingesting, Identifying, ClosedStays
<1>3. ASSUME NEW c \in Conns, Open(c) \/ Recover(c) PROVE AttemptsInv' /\ ClosedStays
  <2>1. PICK p \in Programs : c \in {<<p, "session">>, <<p, "worker">>}
    BY DEF Conns
  <2>2. /\ pc[<<p, "worker">>] # "down" => pc[<<p, "session">>] \notin {"down"} \cup Recovering
        /\ \A q \in Programs : q = p
        /\ <<p, "worker">> \in Conns /\ <<p, "session">> \in Conns
    BY DEF AttemptsInv, Conns
  <2>3. CASE Open(c) \/ RecoverRips(c)
    <3>1. /\ UNCHANGED <<attempts, local>>
          /\ \E where \in Recovering : Goto(c, where)
      BY <2>3 DEF Open, RecoverRips, Recovering, Goto
    <3>2. pc'[c] \in Recovering /\ \A d \in Conns : d # c => pc'[d] = pc[d]
      BY <1>0, <3>1, PcMoves
    <3>3. pc[c] \in {"down", "recover"}
          /\ (c[2] = "worker" /\ pc[c] = "down" =>
                pc[<<c[1], "session">>] \notin {"down"} \cup Recovering)
      BY <2>3 DEF Open, RecoverRips
    <3>4. pc'[c] \notin Ingesting \cup Identifying \cup Asking \cup {"down"}
      BY <3>2 DEF Recovering, Ingesting, Identifying, Asking
    <3>5. AttemptsInv'
      BY <1>0, <3>1, <3>2, <3>3, <3>4, QuietKeepsAttempts DEF Recovering
    <3>6. QED
      BY <3>1, <3>5 DEF ClosedStays
  <2>4. CASE RecoverAttempts(c)
    <3>1. /\ pc[c] = "recoverAttempts" /\ Goto(c, "idle") /\ UNCHANGED local
          /\ attempts' = [a \in DOMAIN attempts |->
                            IF attempts[a] = "working" THEN "interrupted" ELSE attempts[a]]
      BY <2>4 DEF RecoverAttempts, Goto
    <3>2. pc'[c] = "idle" /\ \A d \in Conns : d # c => pc'[d] = pc[d]
      BY <1>0, <3>1, PcMoves
    <3>3. pc'[<<p, "worker">>] \notin Asking
      <4>1. CASE c = <<p, "worker">>
        BY <3>2, <4>1 DEF Asking
      <4>2. CASE c = <<p, "session">>
        BY <2>2, <3>1, <3>2, <4>2 DEF Recovering, Asking
      <4>3. QED
        BY <2>1, <4>1, <4>2
    <3>4. pc'[<<p, "session">>] \notin Ingesting \cup Identifying
      BY <2>2, <3>2 DEF AttemptsInv, Ingesting, Identifying
    <3>5. pc'[<<p, "worker">>] # "down" => pc'[<<p, "session">>] \notin {"down"} \cup Recovering
      BY <2>1, <2>2, <3>1, <3>2 DEF Recovering
    <3>6. AttemptsInv'
      BY <2>2, <3>3, <3>4, <3>5 DEF AttemptsInv
    <3>7. QED
      BY <3>1, <3>6 DEF ClosedStays
  <2>5. QED
    BY <1>3, <2>3, <2>4 DEF Recover
<1>4. ASSUME NEW c \in Conns, Request(c) \/ Ingest(c) \/ Identify(c)
      PROVE  AttemptsInv' /\ ClosedStays
  <2>1. PICK p \in Programs : c = <<p, "worker">>
    <3>1. CASE Request(c)
      <4>1. c \in Programs \X {"worker"}
        BY <3>1 DEF Request, StatFile, BeginIdentify
      <4>2. QED
        BY <4>1
    <3>2. CASE Ingest(c) \/ Identify(c)
      <4>1. pc[c] \in Ingesting \cup Identifying
        BY <1>0, <3>2, AtWorkWhere
      <4>2. PICK p \in Programs, role \in {"session", "worker"} : c = <<p, role>>
        BY DEF Conns
      <4>3. role # "session"
        BY <4>1, <4>2 DEF AttemptsInv
      <4>4. QED
        BY <4>2, <4>3
    <3>3. QED
      BY <1>4, <3>1, <3>2
  <2>2. pc[c] # "down"
    BY <1>4, AtWorkWhere DEF Request, StatFile, BeginIdentify, Ingesting, Identifying
  <2>3. CASE Request(c) \/ Ingest(c)
    <3>1. UNCHANGED attempts /\ pc'[c] \notin Asking
          /\ \A d \in Conns : d # c => pc'[d] = pc[d] /\ local'[d] = local[d]
      BY <1>0, <2>3, IngestMoves
    <3>2. AttemptsInv'
      BY <1>0, <2>1, <2>2, <3>1, WorkerKeepsAttempts
    <3>3. QED
      BY <3>1, <3>2 DEF ClosedStays
  <2>4. CASE Identify(c)
    <3>1. /\ \A d \in Conns : d # c => pc'[d] = pc[d] /\ local'[d] = local[d]
          /\ pc'[c] \in Asking => /\ local'[c].attempt \in DOMAIN attempts'
                                  /\ attempts'[local'[c].attempt] = "working"
          /\ ClosedStays
      BY <1>0, <2>1, <2>4, IdentifyAttempts
    <3>2. AttemptsInv'
      BY <1>0, <2>1, <2>2, <3>1, WorkerKeepsAttempts
    <3>3. QED
      BY <3>1, <3>2
  <2>5. QED
    BY <1>4, <2>3, <2>4
<1>5. QED
  BY <1>1, <1>2, <1>3, <1>4 DEF Next

\* While one program has the database and its worker scans and identifies, an
\* attempt that was closed is never touched again, whatever is killed when.
THEOREM EvidenceIsKept ==
  ASSUME \A p, q \in Programs : p = q, Ingesters \subseteq Programs \X {"worker"}
  PROVE  Spec => EvidenceAppendOnly
<1>1. Init => AttemptsInv
  <2> SUFFICES ASSUME Init PROVE AttemptsInv
    OBVIOUS
  <2>1. \A c \in Conns : pc[c] = "down"
    BY DEF Init
  <2>2. \A p \in Programs : <<p, "worker">> \in Conns /\ <<p, "session">> \in Conns
    BY DEF Conns
  <2>3. QED
    BY <2>1, <2>2 DEF AttemptsInv, Asking, Ingesting, Identifying
<1>2. TypeInv /\ AttemptsInv /\ [Next]_vars => AttemptsInv' /\ ClosedStays
  BY AttemptStep
<1>3. QED
  BY <1>1, <1>2, TypeInvariant, PTL DEF Spec, EvidenceAppendOnly, ClosedStays
==============================================================================
