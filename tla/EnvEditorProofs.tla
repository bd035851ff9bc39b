--------------------------- MODULE EnvEditorProofs ---------------------------
(***************************************************************************)
(* Proofs about the editor of .env, for every number of pages, saves and   *)
(* names.                                                                  *)
(*                                                                         *)
(* As long as two handlers never have .env.tmp open at a time, the file is *)
(* known to its handler all the time: empty after it was opened, and what  *)
(* the handler was to write after that; and that has the other lines as    *)
(* long as no handler has failed to read them (RestInv).  What a save      *)
(* writes is the file with one setting changed because its page shows what *)
(* is in the file (FreshInv), because its handler has read the file, and   *)
(* because nothing moves in between (SureInv).                             *)
(***************************************************************************)
EXTENDS EnvEditor, TLAPS

Holds(p) == task[p].at \in {"open", "written"}

\* A handler that has .env.tmp open finds it there.
TypeInv == TypeOK /\ \A p \in Page : task[p].fd = "tmp" => tmp # Gone

\* Of a file that its handlers have one at a time.
RestInv ==
    ~shared /\ ~unread =>
        /\ env.rest
        /\ \A p \in Page : Busy(p) => task[p].new.rest
        /\ \A p \in Page : task[p].fd = IF Holds(p) THEN "tmp" ELSE "none"
        /\ \A p, q \in Page : Holds(p) /\ Holds(q) => p = q
        /\ \A p \in Page : task[p].at = "open" => tmp = Empty
        /\ \A p \in Page : task[p].at = "written" => tmp # Gone /\ tmp.rest

\* Boxes that stand for what c has.
Posts(b, mask, c) ==
    /\ b.printer = c.value.printer
    /\ b.port = c.value.port
    /\ b.secret = c.value.secret \/ (b.secret = "" /\ mask)

Shows(p, c) == Posts(form[p], masked[p], c)

FreshInv == \A p \in Page : fresh[p] => Shows(p, env)

Changed(c, e) == [c EXCEPT !.value[e.key] = e.value]

\* The only handler there is has the file with one setting changed.
SureAt(p) ==
    /\ Busy(p)
    /\ \A q \in Page : Busy(q) => q = p
    /\ task[p].new = Changed(env, task[p].edit)
    /\ Shows(p, task[p].new)
    /\ task[p].at = "open" => task[p].fd = "tmp" /\ tmp = Empty
    /\ task[p].at = "written" => tmp = task[p].new

SureInv == \A p \in Page : task[p].sure => SureAt(p)

IInv == TypeInv /\ RestInv /\ FreshInv /\ SureInv
-----------------------------------------------------------------------------
(* The data *)

\* A typed value is one of its key.
LEMMA KeyTyped == ASSUME NEW k \in Key, NEW v \in Typed[k] \cup {""}
                  PROVE  \/ k = "secret" /\ v \in Secret \cup {""}
                         \/ k = "printer" /\ v \in PrinterName \cup {""}
                         \/ k = "port" /\ v \in Port \cup {""}
<1>1. Typed["secret"] = Secret /\ Typed["printer"] = PrinterName /\ Typed["port"] = Port
  BY DEF Typed
<1>2. k = "secret" \/ k = "printer" \/ k = "port"
  BY DEF Key
<1> QED BY <1>1, <1>2, Zenon

LEMMA BoxedType == ASSUME NEW c \in Values, NEW k \in Key, NEW v \in Typed[k] \cup {""}
                   PROVE  [c EXCEPT ![k] = v] \in Values
<1>1. CASE k = "secret" /\ v \in Secret \cup {""}
  BY <1>1 DEF Values
<1>2. CASE k = "printer" /\ v \in PrinterName \cup {""}
  BY <1>2 DEF Values
<1>3. CASE k = "port" /\ v \in Port \cup {""}
  BY <1>3 DEF Values
<1> QED BY <1>1, <1>2, <1>3, KeyTyped

LEMMA EmptyType == Empty \in File /\ NoValues \in Values /\ Empty # Gone
<1>1. NoValues \in Values
  BY DEF NoValues, Values
<1>2. Empty \in File
  BY <1>1 DEF Empty, File
<1> QED BY <1>1, <1>2, EnvAssumption DEF EnvAssumption

LEMMA SavesType ==
    0 \in 0..MaxSaves /\ \A s \in 0..MaxSaves : s < MaxSaves => s + 1 \in 0..MaxSaves
<1>1. MaxSaves \in Nat
  BY EnvAssumption DEF EnvAssumption
<1> QED BY <1>1

LEMMA IdleType == Idle \in Task /\ Idle.at = "idle" /\ Idle.fd = "none" /\ ~Idle.sure
  BY EmptyType DEF Idle, Task, Key

LEMMA FieldType ==
    /\ \A b \in Values, t \in Secret \cup {""} : [b EXCEPT !.secret = t] \in Values
    /\ \A b \in Values, n \in PrinterName \cup {""} : [b EXCEPT !.printer = n] \in Values
    /\ \A t \in Task, b \in BOOLEAN : [t EXCEPT !.sure = b] \in Task
    /\ \A t \in Task, a \in {"open", "written"} : [t EXCEPT !.at = a] \in Task
    /\ \A t \in Task, f \in {"none", "tmp", "env", "unnamed"} : [t EXCEPT !.fd = f] \in Task
  BY DEF Values, Task

\* The secret that a handler is to write.
Kept(c, p, b, r) ==
    IF (b.secret = "" /\ masked[p] /\ ~r) \/ b.secret = "***" THEN c.value.secret ELSE b.secret

\* What a handler is to write is a file, without the mask.
LEMMA MergeType ==
    ASSUME NEW c \in File, NEW p \in Page, NEW b \in Values, NEW r \in BOOLEAN
    PROVE  /\ Kept(c, p, b, r) \in Secret \cup {""}
           /\ Merge(c, Posted(p, b, r)) =
                  [rest |-> c.rest, value |-> [b EXCEPT !.secret = Kept(c, p, b, r)]]
           /\ Merge(c, Posted(p, b, r)) \in File
<1>1. Kept(c, p, b, r) \in Secret \cup {""}
  BY DEF Kept, File, Values
<1>2. Merge(c, Posted(p, b, r)) =
          [rest |-> c.rest, value |-> [b EXCEPT !.secret = Kept(c, p, b, r)]]
  BY DEF Merge, Posted, Kept, Values
<1>3. [b EXCEPT !.secret = Kept(c, p, b, r)] \in Values
  BY <1>1, FieldType
<1> HIDE DEF Kept
<1>4. [rest |-> c.rest, value |-> [b EXCEPT !.secret = Kept(c, p, b, r)]] \in File
  BY <1>3 DEF File
<1> QED BY <1>1, <1>2, <1>4

LEMMA OverType == ASSUME NEW old \in File, NEW new \in File, NEW c \in Over(old, new)
                  PROVE  c \in File
  BY DEF Over, File

-----------------------------------------------------------------------------
(* Types *)

LEMMA TypeInit == Init => TypeInv
<1> SUFFICES ASSUME Init PROVE TypeInv
  OBVIOUS
<1>1. \A p \in Page : task[p] = Idle
  BY DEF Init
<1>2. task \in [Page -> Task]
  BY IdleType DEF Init
<1>3. form \in [Page -> Values] /\ masked \in [Page -> BOOLEAN] /\ fresh \in [Page -> BOOLEAN]
  BY EmptyType DEF Init
<1>4. saves \in 0..MaxSaves
  BY SavesType, Zenon DEF Init
<1> QED BY <1>1, <1>2, <1>3, <1>4, IdleType DEF Init, TypeInv, TypeOK

LEMMA TypeUse == ASSUME TypeInv, NEW p \in Page, Use(p) PROVE TypeInv'
<1> USE DEF TypeInv, TypeOK, files, boxes, ghosts
<1>0. \A b \in BOOLEAN : [task EXCEPT ![p] = [task[p] EXCEPT !.sure = b]] \in [Page -> Task]
  BY FieldType
<1>1. CASE Reload(p)
  <2>1. task' = [task EXCEPT ![p] = [task[p] EXCEPT !.sure = FALSE]]
    BY <1>1 DEF Reload
  <2>2. \A q \in Page : task'[q].at = task[q].at /\ task'[q].fd = task[q].fd
    BY <2>1 DEF Task
  <2>3. task' \in [Page -> Task]
    BY <1>0, <2>1
  <2>4. form' \in [Page -> Values] /\ masked' \in [Page -> BOOLEAN] /\ fresh' \in [Page -> BOOLEAN]
    BY <1>1, EmptyType DEF Reload
  <2> QED BY <1>1, <2>2, <2>3, <2>4 DEF Reload, Busy
<1>2. ASSUME NEW names \in SUBSET PrinterName, NEW seen \in EnvRead, LoadEnv(p, names, seen)
      PROVE  TypeInv'
  <2>0. seen \in File
    BY EmptyType DEF EnvRead
  <2> DEFINE loaded == [seen.value EXCEPT !.secret = "", !.printer = Selected(@, names)]
  <2>1. task' = [task EXCEPT ![p] = [task[p] EXCEPT !.sure = FALSE]]
    BY <1>2 DEF LoadEnv
  <2>2. up /\ up'
    BY <1>2 DEF LoadEnv
  <2>3. loaded \in Values
    BY <2>0 DEF File, Values, Selected
  <2>4. form' = [form EXCEPT ![p] = loaded]
    BY <1>2 DEF LoadEnv
  <2> HIDE DEF loaded
  <2>5. PICK b \in BOOLEAN, c \in BOOLEAN :
            masked' = [masked EXCEPT ![p] = b] /\ fresh' = [fresh EXCEPT ![p] = c]
    <3>1. /\ masked' = [masked EXCEPT ![p] = (Shown(seen.value).secret = "***")]
          /\ fresh' = [fresh EXCEPT ![p] = (seen = env /\ seen.value.printer \in names \cup {""})]
      BY <1>2 DEF LoadEnv
    <3>2. /\ (Shown(seen.value).secret = "***") \in BOOLEAN
          /\ (seen = env /\ seen.value.printer \in names \cup {""}) \in BOOLEAN
      OBVIOUS
    <3> QED BY <3>1, <3>2, Zenon
  <2>6. UNCHANGED <<files, saves, ghosts>>
    BY <1>2 DEF LoadEnv
  <2>7. \A q \in Page : task'[q].fd = task[q].fd
    BY <2>1 DEF Task
  <2>8. task' \in [Page -> Task]
    BY <1>0, <2>1
  <2> QED BY <2>2, <2>3, <2>4, <2>5, <2>6, <2>7, <2>8
<1>3. ASSUME NEW names \in SUBSET PrinterName, LoadPrinters(p, names)
      PROVE  TypeInv'
  <2>1. PICK b \in BOOLEAN : task' = [task EXCEPT ![p] = [task[p] EXCEPT !.sure = b]]
    BY <1>3 DEF LoadPrinters, Task
  <2>2. form' = [form EXCEPT ![p] = [form[p] EXCEPT !.printer = Selected(@, names)]]
    BY <1>3 DEF LoadPrinters
  <2>3. [form[p] EXCEPT !.printer = Selected(@, names)] \in Values
    BY DEF Values, Selected
  <2>4. up /\ up'
    BY <1>3 DEF LoadPrinters
  <2>5. fresh' \in [Page -> BOOLEAN]
    BY <1>3 DEF LoadPrinters
  <2>6. \A q \in Page : task'[q].fd = task[q].fd
    BY <2>1 DEF Task
  <2>7. task' \in [Page -> Task]
    BY <1>0, <2>1
  <2>8. form' \in [Page -> Values]
    BY <2>2, <2>3
  <2> QED BY <1>3, <2>4, <2>5, <2>6, <2>7, <2>8 DEF LoadPrinters
<1>4. ASSUME NEW k \in Key, NEW r \in BOOLEAN, NEW v \in Typed[k] \cup {""},
          NEW old \in EnvRead, Save(p, k, v, r, old)
      PROVE  TypeInv'
  <2> DEFINE boxed == [form[p] EXCEPT ![k] = v]
  <2> DEFINE new == Merge(old, Posted(p, boxed, r))
  <2>1. boxed \in Values
    BY BoxedType
  <2> HIDE DEF boxed
  <2>0. old \in File
    BY EmptyType DEF EnvRead
  <2>2. new \in File
    BY <2>0, <2>1, MergeType
  <2> HIDE DEF new
  <2>3. Sure(p, k, v, r, old) \in BOOLEAN
    BY DEF Sure
  <2> DEFINE started == [at |-> "merged", new |-> new, fd |-> "none",
                         edit |-> [key |-> k, value |-> v], sure |-> Sure(p, k, v, r, old)]
  <2>4. started \in Task
    <3>1. v \in Secret \cup PrinterName \cup Port \cup {""}
      BY KeyTyped
    <3> QED BY <2>2, <2>3, <3>1 DEF Task
  <2>5. task' = [q \in Page |-> IF q = p THEN started ELSE [task[q] EXCEPT !.sure = FALSE]]
    BY <1>4 DEF Save, boxed, new
  <2> HIDE DEF started
  <2>6. task' \in [Page -> Task]
    BY <2>4, <2>5, FieldType
  <2>7. saves < MaxSaves /\ saves' = saves + 1
    BY <1>4 DEF Save
  <2>8. saves' \in 0..MaxSaves
    BY <2>7, SavesType, Zenon
  <2>9. up /\ up' /\ form' = [form EXCEPT ![p] = boxed] /\ fresh' = [fresh EXCEPT ![p] = FALSE]
        /\ unread' = (unread \/ old # env) /\ UNCHANGED <<files, masked, shared>>
    BY <1>4 DEF Save, boxed
  <2>10. \A q \in Page : task'[q].fd = "tmp" => task[q].fd = "tmp"
    BY <2>5 DEF started, Task
  <2> QED BY <2>1, <2>6, <2>8, <2>9, <2>10
<1> QED BY <1>1, <1>2, <1>3, <1>4 DEF Use

LEMMA TypeHandle == ASSUME TypeInv, NEW p \in Page, Handle(p) PROVE TypeInv'
<1> USE DEF TypeInv, TypeOK, files, boxes, ghosts
<1>0. up
  BY DEF Handle, OpenTmp, Write, WriteFails, Rename, RenameFails, Busy
<1>1. CASE OpenTmp(p)
  <2>1. task' = [task EXCEPT ![p] = [[task[p] EXCEPT !.at = "open"] EXCEPT !.fd = "tmp"]]
    BY <1>1 DEF OpenTmp, Task
  <2>2. task' \in [Page -> Task]
    BY <2>1, FieldType
  <2> QED BY <1>0, <1>1, <2>2, EmptyType DEF OpenTmp
<1>2. CASE Write(p)
  <2>1. task' = [task EXCEPT ![p] = [task[p] EXCEPT !.at = "written"]]
    BY <1>2 DEF Write
  <2>2. task' \in [Page -> Task]
    BY <2>1, FieldType
  <2>3. task[p].new \in File
    BY DEF Task
  <2>4. \A q \in Page : task'[q].fd = task[q].fd
    BY <2>1 DEF Task
  <2>5. CASE task[p].fd = "tmp"
    <3>1. tmp' \in File
      BY <1>2, <2>3, <2>5, OverType DEF Write
    <3>2. tmp' # Gone
      BY <3>1, EnvAssumption DEF EnvAssumption
    <3> QED BY <1>0, <1>2, <2>2, <2>5, <3>1, <3>2 DEF Write
  <2>6. CASE task[p].fd = "env"
    <3>1. env' \in File /\ UNCHANGED tmp
      BY <1>2, <2>3, <2>6, OverType DEF Write
    <3> QED BY <1>0, <1>2, <2>2, <2>4, <2>6, <3>1 DEF Write
  <2>7. CASE task[p].fd \notin {"tmp", "env"}
    BY <1>0, <1>2, <2>2, <2>4, <2>7 DEF Write
  <2> QED BY <2>5, <2>6, <2>7
<1>3. CASE WriteFails(p) \/ RenameFails(p)
  <2>1. task' = [task EXCEPT ![p] = Idle] /\ UNCHANGED <<files, up, boxes, saves, fresh, ghosts>>
    BY <1>3 DEF WriteFails, RenameFails, Done
  <2>2. task' \in [Page -> Task]
    BY <2>1, IdleType
  <2>3. \A q \in Page : task'[q].fd = "tmp" => task[q].fd = "tmp"
    BY <2>1, IdleType
  <2> QED BY <1>0, <2>1, <2>2, <2>3
<1>4. CASE Rename(p)
  <2>1. tmp # Gone /\ env' = tmp /\ tmp' = Gone /\ UNCHANGED <<up, boxes, saves, ghosts>>
    BY <1>4 DEF Rename
  <2>2. fresh' \in [Page -> BOOLEAN]
    BY <1>4 DEF Rename, Task
  <2>3. \A f \in {"none", "tmp", "env", "unnamed"} : Renamed[f] \in {"none", "env", "unnamed"}
    BY DEF Renamed
  <2>4. \A q \in Page : task[q] \in Task /\ task[q].fd \in {"none", "tmp", "env", "unnamed"}
    BY DEF Task
  <2>5. task' = [q \in Page |-> IF q = p THEN Idle ELSE [task[q] EXCEPT !.fd = Renamed[@]]]
    BY <1>4 DEF Rename
  <2>6. \A q \in Page : task'[q] \in Task /\ task'[q].fd # "tmp"
    <3> SUFFICES ASSUME NEW q \in Page PROVE task'[q] \in Task /\ task'[q].fd # "tmp"
      OBVIOUS
    <3>1. CASE q = p
      BY <2>5, <3>1, IdleType
    <3>2. CASE q # p
      <4>1. PICK f \in {"none", "env", "unnamed"} : f = Renamed[task[q].fd]
        BY <2>3, <2>4
      <4>2. task'[q] = [task[q] EXCEPT !.fd = f]
        BY <2>5, <3>2, <4>1
      <4> QED BY <2>4, <4>2 DEF Task
    <3> QED BY <3>1, <3>2
  <2>7. task' \in [Page -> Task]
    BY <2>5, <2>6
  <2> QED BY <1>0, <2>1, <2>2, <2>6, <2>7
<1> QED BY <1>1, <1>2, <1>3, <1>4 DEF Handle

LEMMA TypeNext == TypeInv /\ [Next]_vars => TypeInv'
<1> SUFFICES ASSUME TypeInv, [Next]_vars PROVE TypeInv'
  OBVIOUS
<1>1. CASE \E p \in Page : Use(p) \/ Handle(p)
  BY <1>1, TypeUse, TypeHandle
<1>2. CASE Stop
  BY <1>2, IdleType DEF Stop, files, boxes, ghosts, TypeInv, TypeOK, Busy, Idle
<1>3. CASE Start
  BY <1>3 DEF Start, Binds, files, boxes, ghosts, TypeInv, TypeOK, Busy
<1>4. CASE UNCHANGED vars
  BY <1>4 DEF vars, files, boxes, ghosts, TypeInv, TypeOK, Busy
<1> QED BY <1>1, <1>2, <1>3, <1>4 DEF Next

-----------------------------------------------------------------------------
(* What the actions leave alone *)

Look(p) ==
    \/ Reload(p)
    \/ \E names \in SUBSET PrinterName :
           LoadPrinters(p, names) \/ \E seen \in EnvRead : LoadEnv(p, names, seen)

\* What loading does to a page, and what not to the others.
LEMMA LookOthers ==
    ASSUME TypeInv, NEW p \in Page, Look(p)
    PROVE  /\ \E b \in BOOLEAN : /\ task' = [task EXCEPT ![p] = [task[p] EXCEPT !.sure = b]]
                                 /\ b => task[p].sure
           /\ UNCHANGED <<env, tmp, ghosts>>
           /\ \A q \in Page \ {p} : UNCHANGED <<task[q], form[q], masked[q], fresh[q]>>
<1> USE DEF TypeInv, TypeOK, Look
<1>1. \E b \in BOOLEAN : /\ task' = [task EXCEPT ![p] = [task[p] EXCEPT !.sure = b]]
                         /\ b => task[p].sure
  <2>1. CASE Reload(p)
    BY <2>1 DEF Reload
  <2>2. CASE \E names \in SUBSET PrinterName, seen \in EnvRead : LoadEnv(p, names, seen)
    BY <2>2 DEF LoadEnv
  <2>3. CASE \E names \in SUBSET PrinterName : LoadPrinters(p, names)
    <3>1. PICK names \in SUBSET PrinterName : LoadPrinters(p, names)
      BY <2>3
    <3>2. task' = [task EXCEPT ![p] = [task[p] EXCEPT !.sure = task[p].sure /\ form'[p] = form[p]]]
      BY <3>1 DEF LoadPrinters
    <3>3. (task[p].sure /\ form'[p] = form[p]) \in BOOLEAN
      BY DEF Task
    <3> QED BY <3>2, <3>3, Zenon
  <2> QED BY <2>1, <2>2, <2>3
<1>2. UNCHANGED <<env, tmp, ghosts>>
  BY DEF Reload, LoadEnv, LoadPrinters, files, ghosts
<1>3. \A q \in Page \ {p} : UNCHANGED <<form[q], masked[q], fresh[q]>>
  BY DEF Reload, LoadEnv, LoadPrinters, boxes
<1>4. \A q \in Page \ {p} : task'[q] = task[q]
  BY <1>1
<1> HIDE DEF TypeInv, TypeOK, Look
<1> QED BY <1>1, <1>2, <1>3, <1>4

\* Nor to what the handlers do.
LEMMA LookTask ==
    ASSUME TypeInv, NEW p \in Page, Look(p), NEW q \in Page
    PROVE  /\ UNCHANGED <<task[q].at, task[q].new, task[q].fd, task[q].edit>>
           /\ task'[q].sure => task[q].sure
<1>1. PICK b \in BOOLEAN : /\ task' = [task EXCEPT ![p] = [task[p] EXCEPT !.sure = b]]
                           /\ b => task[p].sure
  BY LookOthers
<1>2. task[q] \in Task
  BY DEF TypeInv, TypeOK
<1>3. CASE q = p
  <2>1. task'[q] = [task[q] EXCEPT !.sure = b]
    BY <1>1, <1>3 DEF TypeInv, TypeOK
  <2>2. UNCHANGED <<task[q].at, task[q].new, task[q].fd, task[q].edit>> /\ task'[q].sure = b
    BY <1>2, <2>1 DEF Task
  <2> QED BY <1>1, <1>3, <2>2
<1>4. CASE q # p
  BY <1>1, <1>4 DEF TypeInv, TypeOK
<1> QED BY <1>3, <1>4

Boxed(p, k, v) == [form[p] EXCEPT ![k] = v]

New(p, k, v, r, old) == Merge(old, Posted(p, Boxed(p, k, v), r))

Started(p, k, v, r, old) ==
    [at |-> "merged", new |-> New(p, k, v, r, old), fd |-> "none",
     edit |-> [key |-> k, value |-> v], sure |-> Sure(p, k, v, r, old)]

\* A save starts a handler and makes the others unsure.
LEMMA SaveStep ==
    ASSUME TypeInv, NEW p \in Page, NEW k, NEW r, NEW v, NEW old,
           Save(p, k, v, r, old)
    PROVE  /\ UNCHANGED <<env, tmp, masked, shared>>
           /\ unread' = (unread \/ old # env)
           /\ form' = [form EXCEPT ![p] = Boxed(p, k, v)]
           /\ fresh' = [fresh EXCEPT ![p] = FALSE]
           /\ task'[p] = Started(p, k, v, r, old)
           /\ \A q \in Page \ {p} : /\ UNCHANGED <<task[q].at, task[q].new, task[q].fd>>
                                    /\ ~task'[q].sure
<1>1. /\ UNCHANGED <<env, tmp, masked, shared>>
      /\ unread' = (unread \/ old # env)
      /\ form' = [form EXCEPT ![p] = Boxed(p, k, v)]
      /\ fresh' = [fresh EXCEPT ![p] = FALSE]
      /\ task'[p] = Started(p, k, v, r, old)
  BY DEF Save, Started, New, Boxed, files
<1>2. \A q \in Page \ {p} : task'[q] = [task[q] EXCEPT !.sure = FALSE]
  BY DEF Save
<1>3. \A q \in Page \ {p} : task[q] \in Task
  BY DEF TypeInv, TypeOK
<1>4. \A q \in Page \ {p} : /\ UNCHANGED <<task[q].at, task[q].new, task[q].fd>>
                            /\ ~task'[q].sure
  BY <1>2, <1>3 DEF Task
<1> QED BY <1>1, <1>4

\* Steps of a handler, by its field.
LEMMA OpenStep ==
    ASSUME TypeInv, NEW p \in Page, OpenTmp(p)
    PROVE  /\ task[p].at = "merged" /\ tmp' = Empty /\ UNCHANGED <<env, boxes, fresh>>
           /\ task' = [task EXCEPT ![p] = [task[p] EXCEPT !.at = "open", !.fd = "tmp"]]
           /\ task'[p].at = "open" /\ task'[p].fd = "tmp" /\ task'[p].new = task[p].new
           /\ task'[p].edit = task[p].edit /\ task'[p].sure = task[p].sure
           /\ \A q \in Page \ {p} : task'[q] = task[q]
           /\ shared' = (shared \/ \E q \in Page : task[q].fd = "tmp")
<1>1. /\ task[p].at = "merged" /\ tmp' = Empty /\ UNCHANGED <<env, boxes, fresh>>
      /\ task' = [task EXCEPT ![p] = [task[p] EXCEPT !.at = "open", !.fd = "tmp"]]
      /\ shared' = (shared \/ \E q \in Page : task[q].fd = "tmp")
  BY DEF OpenTmp
<1>2. task[p] \in Task
  BY DEF TypeInv, TypeOK
<1>3. task'[p] = [task[p] EXCEPT !.at = "open", !.fd = "tmp"] /\ \A q \in Page \ {p} : task'[q] = task[q]
  BY <1>1 DEF TypeInv, TypeOK
<1>4. \A t \in Task : LET u == [t EXCEPT !.at = "open", !.fd = "tmp"]
                     IN  /\ u.at = "open" /\ u.fd = "tmp" /\ u.new = t.new
                         /\ u.edit = t.edit /\ u.sure = t.sure
  BY DEF Task
<1> QED BY <1>1, <1>2, <1>3, <1>4

LEMMA WriteStep ==
    ASSUME TypeInv, NEW p \in Page, Write(p)
    PROVE  /\ task[p].at = "open" /\ UNCHANGED <<boxes, ghosts>>
           /\ task'[p].at = "written" /\ task'[p].fd = task[p].fd /\ task'[p].new = task[p].new
           /\ task'[p].edit = task[p].edit /\ task'[p].sure = task[p].sure
           /\ \A q \in Page \ {p} : task'[q] = task[q]
           /\ task[p].fd # "env" => UNCHANGED <<env, fresh>>
           /\ task[p].fd = "env" => \A q \in Page : ~fresh'[q]
           /\ task[p].fd = "tmp" /\ tmp = Empty => tmp' = task[p].new
<1>1. /\ task[p].at = "open" /\ UNCHANGED <<boxes, ghosts>>
      /\ task' = [task EXCEPT ![p] = [task[p] EXCEPT !.at = "written"]]
  BY DEF Write
<1>2. task[p] \in Task
  BY DEF TypeInv, TypeOK
<1>3. task'[p] = [task[p] EXCEPT !.at = "written"] /\ \A q \in Page \ {p} : task'[q] = task[q]
  BY <1>1 DEF TypeInv, TypeOK
<1>4. /\ task[p].fd # "env" => UNCHANGED <<env, fresh>>
      /\ task[p].fd = "env" => \A q \in Page : ~fresh'[q]
  BY DEF Write, files
<1>5. ASSUME task[p].fd = "tmp", tmp = Empty PROVE tmp' = task[p].new
  BY <1>5 DEF Write, Over
<1>6. \A t \in Task : LET u == [t EXCEPT !.at = "written"]
                     IN  /\ u.at = "written" /\ u.fd = t.fd /\ u.new = t.new
                         /\ u.edit = t.edit /\ u.sure = t.sure
  BY DEF Task
<1> QED BY <1>1, <1>2, <1>3, <1>4, <1>5, <1>6

LEMMA RenameStep ==
    ASSUME TypeInv, NEW p \in Page, Rename(p)
    PROVE  /\ task[p].at = "written" /\ env' = tmp /\ tmp # Gone /\ UNCHANGED <<boxes, ghosts>>
           /\ task'[p] = Idle
           /\ fresh' = [q \in Page |-> q = p /\ task[p].sure]
           /\ \A q \in Page \ {p} : /\ task'[q].at = task[q].at
                                    /\ task'[q].new = task[q].new
                                    /\ task'[q].sure = task[q].sure
                                    /\ task[q].fd = "none" => task'[q].fd = "none"
<1>1. /\ task[p].at = "written" /\ env' = tmp /\ tmp # Gone /\ UNCHANGED <<boxes, ghosts>>
      /\ task'[p] = Idle
      /\ fresh' = [q \in Page |-> q = p /\ task[p].sure]
  BY DEF Rename
<1>7. \A q \in Page \ {p} : task'[q] = [task[q] EXCEPT !.fd = Renamed[task[q].fd]]
  BY DEF Rename
<1>2. \A q \in Page \ {p} : task[q] \in Task
  BY DEF TypeInv, TypeOK
<1>3. Renamed["none"] = "none"
  BY DEF Renamed
<1>4. \A t \in Task : \A f : LET u == [t EXCEPT !.fd = f]
                        IN  u.at = t.at /\ u.new = t.new /\ u.sure = t.sure /\ u.fd = f
  BY DEF Task
<1>5. \A q \in Page \ {p} : /\ task'[q].at = task[q].at
                            /\ task'[q].new = task[q].new
                            /\ task'[q].sure = task[q].sure
                            /\ task'[q].fd = Renamed[task[q].fd]
  <2> SUFFICES ASSUME NEW q \in Page \ {p}
               PROVE  /\ task'[q].at = task[q].at
                      /\ task'[q].new = task[q].new
                      /\ task'[q].sure = task[q].sure
                      /\ task'[q].fd = Renamed[task[q].fd]
    OBVIOUS
  <2>1. task[q] \in Task /\ task'[q] = [task[q] EXCEPT !.fd = Renamed[task[q].fd]]
    BY <1>2, <1>7
  <2> QED BY <1>4, <2>1
<1>6. \A q \in Page \ {p} : task[q].fd = "none" => task'[q].fd = "none"
  BY <1>3, <1>5
<1> QED BY <1>1, <1>5, <1>6, Zenon

LEMMA FailStep ==
    ASSUME TypeInv, NEW p \in Page, WriteFails(p) \/ RenameFails(p)
    PROVE  /\ task'[p] = Idle /\ \A q \in Page \ {p} : task'[q] = task[q]
           /\ UNCHANGED <<files, boxes, fresh, ghosts>>
  BY DEF TypeInv, TypeOK, WriteFails, RenameFails, Done

-----------------------------------------------------------------------------
(* The lines that the form does not have *)

LEMMA RestInit == Init => RestInv
  BY IdleType DEF Init, RestInv, Busy, Holds

LEMMA RestUse == ASSUME TypeInv, RestInv, NEW p \in Page, Use(p) PROVE RestInv'
<1>1. CASE Look(p)
  <2>1. UNCHANGED <<env, tmp, shared, unread>>
    BY <1>1, LookOthers DEF ghosts
  <2>2. \A q \in Page : UNCHANGED <<task[q].at, task[q].new, task[q].fd>>
    BY <1>1, LookTask
  <2> QED BY <2>1, <2>2 DEF RestInv, Busy, Holds
<1>2. ASSUME NEW k \in Key, NEW r \in BOOLEAN, NEW v \in Typed[k] \cup {""},
          NEW old \in EnvRead, Save(p, k, v, r, old)
      PROVE  RestInv'
  <2> SUFFICES ASSUME ~shared', ~unread' PROVE RestInv'
    BY DEF RestInv
  <2>1. UNCHANGED <<env, tmp, shared>> /\ unread' = (unread \/ old # env)
    BY <1>2 DEF Save, files
  <2>2. \A q \in Page \ {p} : UNCHANGED <<task[q].at, task[q].new, task[q].fd>>
    BY <1>2, SaveStep, Zenon
  <2>3. task'[p] = Started(p, k, v, r, old)
    BY <1>2 DEF Save, Started, New, Boxed
  <2>4. /\ Started(p, k, v, r, old).at = "merged"
        /\ Started(p, k, v, r, old).fd = "none"
        /\ Started(p, k, v, r, old).new.rest = old.rest
    BY DEF Started, New, Merge
  <2>5. ~shared /\ ~unread /\ old = env
    BY <2>1
  <2> QED BY <2>1, <2>2, <2>3, <2>4, <2>5 DEF RestInv, Busy, Holds
<1> QED BY <1>1, <1>2 DEF Use, Look

LEMMA RestHandle == ASSUME TypeInv, RestInv, NEW p \in Page, Handle(p) PROVE RestInv'
<1> SUFFICES ASSUME ~shared', ~unread' PROVE RestInv'
  BY DEF RestInv
<1>0. ~shared /\ ~unread
  <2>1. unread' = unread
    BY DEF Handle, OpenTmp, Write, WriteFails, Rename, RenameFails, ghosts
  <2>2. shared' = shared \/ shared' = (shared \/ \E q \in Page : task[q].fd = "tmp")
    BY DEF Handle, OpenTmp, Write, WriteFails, Rename, RenameFails, ghosts
  <2> QED BY <2>1, <2>2 DEF TypeInv, TypeOK
<1>1. CASE OpenTmp(p)
  <2>1. \A q \in Page : ~Holds(q)
    BY <1>0, <1>1, OpenStep DEF RestInv
  <2>2. /\ env' = env /\ tmp' = Empty
        /\ task'[p].at = "open" /\ task'[p].fd = "tmp" /\ task'[p].new = task[p].new
        /\ \A q \in Page \ {p} : task'[q] = task[q]
        /\ task[p].at = "merged"
    BY <1>1, OpenStep
  <2>3. \A q \in Page : Holds(q)' => q = p
    BY <2>1, <2>2 DEF Holds
  <2> QED BY <1>0, <2>1, <2>2, <2>3 DEF RestInv, Busy, Holds
<1>2. CASE Write(p)
  <2>1. task[p].at = "open" /\ task[p].fd = "tmp" /\ tmp = Empty /\ task[p].new.rest
    BY <1>0, <1>2, WriteStep DEF RestInv, Busy, Holds
  <2>2. \A q \in Page \ {p} : ~Holds(q)
    BY <1>0, <2>1 DEF RestInv, Holds
  <2>3. tmp' = task[p].new /\ UNCHANGED env
    BY <1>2, <2>1, WriteStep
  <2>4. task[p].new # Gone
    <3>1. task[p].new \in File
      BY DEF TypeInv, TypeOK, Task
    <3> QED BY <3>1, EnvAssumption DEF EnvAssumption
  <2> QED BY <1>0, <1>2, <2>1, <2>2, <2>3, <2>4, WriteStep DEF RestInv, Busy, Holds
<1>3. CASE WriteFails(p) \/ RenameFails(p)
  BY <1>0, <1>3, FailStep, IdleType DEF RestInv, Busy, Holds, files
<1>4. CASE Rename(p)
  <2>1. task[p].at = "written" /\ tmp.rest
    BY <1>0, <1>4, RenameStep DEF RestInv
  <2>2. \A q \in Page \ {p} : ~Holds(q) /\ task[q].fd = "none"
    BY <1>0, <2>1 DEF RestInv, Holds
  <2> QED BY <1>0, <1>4, <2>1, <2>2, RenameStep, IdleType DEF RestInv, Busy, Holds
<1> QED BY <1>1, <1>2, <1>3, <1>4 DEF Handle

LEMMA RestNext == TypeInv /\ RestInv /\ [Next]_vars => RestInv'
<1> SUFFICES ASSUME TypeInv, RestInv, [Next]_vars PROVE RestInv'
  OBVIOUS
<1>1. CASE \E p \in Page : Use(p) \/ Handle(p)
  BY <1>1, RestUse, RestHandle
<1>2. CASE Stop
  BY <1>2, IdleType DEF Stop, RestInv, Busy, Holds, files, ghosts
<1>3. CASE Start
  BY <1>3 DEF Start, RestInv, Busy, Holds, files, ghosts
<1>4. CASE UNCHANGED vars
  BY <1>4 DEF vars, RestInv, Busy, Holds, files, ghosts
<1> QED BY <1>1, <1>2, <1>3, <1>4 DEF Next

-----------------------------------------------------------------------------
(* The other settings *)

LEMMA SameValues ==
    ASSUME NEW x \in Values, NEW y \in Values,
           x.secret = y.secret, x.printer = y.printer, x.port = y.port
    PROVE  x = y
<1> DEFINE S == Secret \cup {""}
<1> DEFINE N == PrinterName \cup {""}
<1> DEFINE P == Port \cup {""}
<1>1. x \in [secret : S, printer : N, port : P] /\ y \in [secret : S, printer : N, port : P]
  BY DEF Values
<1> HIDE DEF S, N, P
<1> QED BY <1>1

LEMMA ChangedValue ==
    ASSUME NEW c \in File, NEW k \in Key, NEW v
    PROVE  Changed(c, [key |-> k, value |-> v]) = [rest |-> c.rest, value |-> [c.value EXCEPT ![k] = v]]
  BY DEF Changed, File

\* What a page that shows the file posts for a save without an overlap.
LEMMA SurePost ==
    ASSUME TypeInv, FreshInv, NEW p \in Page, NEW k \in Key, NEW r \in BOOLEAN,
           NEW v \in Typed[k] \cup {""}, NEW old \in EnvRead, Sure(p, k, v, r, old)
    PROVE  /\ New(p, k, v, r, old) = Changed(env, [key |-> k, value |-> v])
           /\ Posts(Boxed(p, k, v), masked[p], New(p, k, v, r, old))
<1> SUFFICES ASSUME NEW b, b = Boxed(p, k, v),
                    NEW new, new = Merge(env, Posted(p, Boxed(p, k, v), r))
             PROVE  new = Changed(env, [key |-> k, value |-> v]) /\ Posts(b, masked[p], new)
  BY DEF New, Sure
<1>1. env \in File /\ form[p] \in Values /\ b \in Values
  BY BoxedType DEF TypeInv, TypeOK, Boxed
<1> DEFINE t == Kept(env, p, b, r)
<1>2. /\ t \in Secret \cup {""}
      /\ new = [rest |-> env.rest, value |-> [b EXCEPT !.secret = t]]
  BY <1>1, MergeType
<1> HIDE DEF t
<1>3. /\ form[p].printer = env.value.printer /\ form[p].port = env.value.port
      /\ form[p].secret = env.value.secret \/ (form[p].secret = "" /\ masked[p])
  BY DEF Sure, FreshInv, Shows, Posts
<1>4. b = [form[p] EXCEPT ![k] = v]
  BY DEF Boxed
<1>5. "***" \notin Secret /\ "" \notin Secret
  BY EnvAssumption DEF EnvAssumption
<1>6. Changed(env, [key |-> k, value |-> v]) = [rest |-> env.rest, value |-> [env.value EXCEPT ![k] = v]]
  BY <1>1, ChangedValue
<1>7. b.secret # "***"
  BY <1>1, <1>5 DEF Values
<1>8. [b EXCEPT !.secret = t] \in Values /\ [env.value EXCEPT ![k] = v] \in Values
  <2>1. env.value \in Values
    BY <1>1 DEF File
  <2>2. [b EXCEPT !.secret = t] \in Values
    BY <1>1, <1>2, FieldType
  <2> QED BY <2>1, <2>2, BoxedType
<1>9. ASSUME k = "secret"
      PROVE  /\ [b EXCEPT !.secret = t] = [env.value EXCEPT ![k] = v]
             /\ b.secret = t \/ (b.secret = "" /\ masked[p])
  <2>1. v # "" /\ b.secret = v
    BY <1>1, <1>4, <1>9 DEF Sure, Values
  <2>2. t = v
    BY <1>7, <2>1 DEF t, Kept
  <2>3. /\ [b EXCEPT !.secret = t].secret = v
        /\ [b EXCEPT !.secret = t].printer = env.value.printer
        /\ [b EXCEPT !.secret = t].port = env.value.port
    BY <1>1, <1>3, <1>4, <1>9, <2>2 DEF Values
  <2>4. /\ [env.value EXCEPT ![k] = v].secret = v
        /\ [env.value EXCEPT ![k] = v].printer = env.value.printer
        /\ [env.value EXCEPT ![k] = v].port = env.value.port
    BY <1>1, <1>9 DEF File, Values
  <2> QED BY <1>9, <1>8, <2>1, <2>2, <2>3, <2>4, SameValues
<1>10. ASSUME k # "secret"
      PROVE  /\ [b EXCEPT !.secret = t] = [env.value EXCEPT ![k] = v]
             /\ b.secret = t \/ (b.secret = "" /\ masked[p])
  <2>1. b.secret = form[p].secret
    BY <1>1, <1>4, <1>10 DEF Key, Values
  <2>2. t = env.value.secret
    <3>1. CASE b.secret # ""
      BY <1>3, <1>7, <2>1, <3>1 DEF t, Kept
    <3>2. CASE b.secret = "" /\ masked[p] /\ ~r
      BY <3>2 DEF t, Kept
    <3>3. CASE b.secret = "" /\ masked[p] /\ r
      BY <1>10, <2>1, <3>3 DEF Sure
    <3>4. CASE b.secret = "" /\ ~masked[p]
      BY <1>3, <1>7, <2>1, <3>4 DEF t, Kept
    <3> QED BY <3>1, <3>2, <3>3, <3>4
  <2>3. CASE k = "printer"
    <3>1. /\ [b EXCEPT !.secret = t].secret = env.value.secret
          /\ [b EXCEPT !.secret = t].printer = v
          /\ [b EXCEPT !.secret = t].port = env.value.port
      BY <1>1, <1>3, <1>4, <2>2, <2>3 DEF Values
    <3>2. /\ [env.value EXCEPT ![k] = v].secret = env.value.secret
          /\ [env.value EXCEPT ![k] = v].printer = v
          /\ [env.value EXCEPT ![k] = v].port = env.value.port
      BY <1>1, <2>3 DEF File, Values
    <3>3. b.secret = t \/ (b.secret = "" /\ masked[p])
      BY <1>3, <2>1, <2>2
    <3> QED BY <1>10, <1>8, <3>1, <3>2, <3>3, SameValues
  <2>4. CASE k = "port"
    <3>1. /\ [b EXCEPT !.secret = t].secret = env.value.secret
          /\ [b EXCEPT !.secret = t].port = v
          /\ [b EXCEPT !.secret = t].printer = env.value.printer
      BY <1>1, <1>3, <1>4, <2>2, <2>4 DEF Values
    <3>2. /\ [env.value EXCEPT ![k] = v].secret = env.value.secret
          /\ [env.value EXCEPT ![k] = v].port = v
          /\ [env.value EXCEPT ![k] = v].printer = env.value.printer
      BY <1>1, <2>4 DEF File, Values
    <3>3. b.secret = t \/ (b.secret = "" /\ masked[p])
      BY <1>3, <2>1, <2>2
    <3> QED BY <1>10, <1>8, <3>1, <3>2, <3>3, SameValues
  <2> QED BY <1>10, <2>3, <2>4 DEF Key
<1> DEFINE w == [b EXCEPT !.secret = t]
<1>11. w.secret = t /\ w.printer = b.printer /\ w.port = b.port
  BY <1>1 DEF Values
<1>12. new = [rest |-> env.rest, value |-> [b EXCEPT !.secret = t]]
  BY <1>2
<1>13. new.value = w
  <2>1. new = [rest |-> env.rest, value |-> w]
    BY <1>12
  <2> HIDE DEF w
  <2>2. \A x : [rest |-> env.rest, value |-> x].value = x
    OBVIOUS
  <2> QED BY <2>1, <2>2
<1>14. new = Changed(env, [key |-> k, value |-> v])
  BY <1>6, <1>9, <1>10, <1>12, Zenon
<1>15. b.secret = t \/ (b.secret = "" /\ masked[p])
  BY <1>9, <1>10
<1> HIDE DEF w
<1>16. b.printer = new.value.printer /\ b.port = new.value.port
  BY <1>11, <1>13
<1>17. b.secret = new.value.secret \/ (b.secret = "" /\ masked[p])
  BY <1>11, <1>13, <1>15
<1>18. Posts(b, masked[p], new)
  BY <1>16, <1>17 DEF Posts
<1> QED BY <1>14, <1>18

LEMMA SureInit == Init => FreshInv /\ SureInv
  BY IdleType DEF Init, FreshInv, SureInv

\* A page that loads shows what it has loaded, or is not taken for fresh.
LEMMA FreshLook == ASSUME TypeInv, FreshInv, NEW p \in Page, Look(p) PROVE FreshInv'
<1>1. SUFFICES ASSUME fresh'[p] PROVE Shows(p, env)'
  <2> SUFFICES ASSUME NEW q \in Page, q # p, fresh'[q] PROVE Shows(q, env)'
    BY DEF FreshInv
  <2>1. UNCHANGED <<env, form[q], masked[q], fresh[q]>>
    BY LookOthers
  <2> QED BY <2>1 DEF FreshInv, Shows, Posts
<1>2. CASE Reload(p)
  BY <1>1, <1>2 DEF Reload, TypeInv, TypeOK
<1>3. ASSUME NEW names \in SUBSET PrinterName, NEW seen \in EnvRead, LoadEnv(p, names, seen)
      PROVE  Shows(p, env)'
  <2>0. seen = env
    BY <1>1, <1>3 DEF LoadEnv, TypeInv, TypeOK
  <2>1. env.value \in Values /\ env' = env
    BY <1>3 DEF LoadEnv, TypeInv, TypeOK, File, files
  <2>2. form'[p] = [env.value EXCEPT !.secret = "", !.printer = Selected(@, names)]
    BY <1>3, <2>0 DEF LoadEnv, TypeInv, TypeOK
  <2>3. masked'[p] <=> env.value.secret # ""
    <3>1. Shown(env.value).secret = "***" <=> env.value.secret # ""
      BY <2>1 DEF Shown, Values
    <3>2. masked'[p] = (Shown(env.value).secret = "***")
      BY <1>3, <2>0 DEF LoadEnv, TypeInv, TypeOK
    <3> QED BY <3>1, <3>2
  <2>4. env.value.printer \in names \cup {""}
    BY <1>1, <1>3, <2>0 DEF LoadEnv, TypeInv, TypeOK
  <2>5. Selected(env.value.printer, names) = env.value.printer
    BY <2>4 DEF Selected
  <2>6. form'[p].secret = "" /\ form'[p].printer = env.value.printer /\ form'[p].port = env.value.port
    BY <2>1, <2>2, <2>5 DEF Values
  <2>7. env.value.secret = "" \/ masked'[p]
    BY <2>3
  <2> QED BY <2>1, <2>6, <2>7 DEF Shows, Posts
<1>4. ASSUME NEW names \in SUBSET PrinterName, LoadPrinters(p, names)
      PROVE  Shows(p, env)'
  <2>1. fresh[p] /\ form'[p] = form[p]
    BY <1>1, <1>4 DEF LoadPrinters, TypeInv, TypeOK
  <2>2. UNCHANGED <<env, masked>>
    BY <1>4 DEF LoadPrinters, files
  <2> QED BY <2>1, <2>2 DEF FreshInv, Shows, Posts
<1> QED BY <1>2, <1>3, <1>4 DEF Look

LEMMA SureLook == ASSUME TypeInv, SureInv, NEW p \in Page, Look(p) PROVE SureInv'
<1>1. \A q \in Page : UNCHANGED <<task[q].at, task[q].new, task[q].fd, task[q].edit>>
                      /\ (task'[q].sure => task[q].sure)
  BY LookTask
<1>2. UNCHANGED <<env, tmp>> /\ \A q \in Page \ {p} : UNCHANGED <<form[q], masked[q]>>
  BY LookOthers
<1>3. task'[p].sure => UNCHANGED <<form[p], masked[p]>>
  <2>1. CASE \/ Reload(p)
             \/ \E names \in SUBSET PrinterName, seen \in EnvRead : LoadEnv(p, names, seen)
    <3>1. task' = [task EXCEPT ![p] = [task[p] EXCEPT !.sure = FALSE]]
      BY <2>1 DEF Reload, LoadEnv
    <3> QED BY <3>1 DEF TypeInv, TypeOK, Task
  <2>2. ASSUME NEW names \in SUBSET PrinterName, LoadPrinters(p, names)
        PROVE  task'[p].sure => UNCHANGED <<form[p], masked[p]>>
    <3>1. masked' = masked
          /\ task' = [task EXCEPT ![p] = [task[p] EXCEPT !.sure = task[p].sure /\ form'[p] = form[p]]]
      BY <2>2 DEF LoadPrinters
    <3>2. task'[p].sure = (task[p].sure /\ form'[p] = form[p])
      BY <3>1 DEF TypeInv, TypeOK, Task
    <3> QED BY <3>1, <3>2
  <2> QED BY <2>1, <2>2 DEF Look
<1> SUFFICES ASSUME NEW q \in Page, task'[q].sure PROVE SureAt(q)'
  BY DEF SureInv
<1>4. SureAt(q)
  BY <1>1 DEF SureInv
<1>5. UNCHANGED <<form[q], masked[q]>>
  BY <1>2, <1>3
<1>6. Shows(q, task[q].new)'
  BY <1>1, <1>4, <1>5 DEF SureAt, Shows, Posts
<1>7. Busy(q)' /\ \A s \in Page : Busy(s)' => s = q
  BY <1>1, <1>4 DEF SureAt, Busy
<1> QED BY <1>1, <1>2, <1>4, <1>6, <1>7 DEF SureAt

LEMMA SureSave ==
    ASSUME TypeInv, FreshInv, SureInv, NEW p \in Page, NEW k \in Key, NEW r \in BOOLEAN,
           NEW v \in Typed[k] \cup {""},
          NEW old \in EnvRead, Save(p, k, v, r, old)
    PROVE  FreshInv' /\ SureInv'
<1>1. UNCHANGED <<env, tmp, masked>> /\ form' = [form EXCEPT ![p] = Boxed(p, k, v)]
      /\ fresh' = [fresh EXCEPT ![p] = FALSE]
  BY DEF Save, Boxed, files
<1>2. task'[p] = Started(p, k, v, r, old)
  BY DEF Save, Started, New, Boxed
<1>3. /\ Started(p, k, v, r, old).at = "merged"
      /\ Started(p, k, v, r, old).new = New(p, k, v, r, old)
      /\ Started(p, k, v, r, old).edit = [key |-> k, value |-> v]
      /\ Started(p, k, v, r, old).sure = Sure(p, k, v, r, old)
  BY DEF Started
<1>4. \A q \in Page \ {p} : ~task'[q].sure /\ task'[q].at = task[q].at
  BY SaveStep
<1>5. FreshInv'
  BY <1>1 DEF FreshInv, Shows, Posts, TypeInv, TypeOK
<1>6. form'[p] = Boxed(p, k, v)
  BY <1>1 DEF TypeInv, TypeOK
<1>7. SureInv'
  <2> SUFFICES ASSUME NEW q \in Page, task'[q].sure
               PROVE  SureAt(q)'
    BY DEF SureInv
  <2>1. q = p /\ Sure(p, k, v, r, old)
    BY <1>2, <1>3, <1>4
  <2>2. /\ New(p, k, v, r, old) = Changed(env, [key |-> k, value |-> v])
        /\ Posts(Boxed(p, k, v), masked[p], New(p, k, v, r, old))
    BY <2>1, SurePost
  <2>3. \A s \in Page : Busy(s)' => s = p
    BY <1>4, <2>1 DEF Sure, Busy
  <2>4. task'[p].new = Changed(env, task'[p].edit) /\ env' = env
    BY <1>1, <1>2, <1>3, <2>2
  <2>5. Shows(p, task[p].new)'
    BY <1>1, <1>2, <1>3, <1>6, <2>2 DEF Shows
  <2>6. task'[p].at = "merged"
    BY <1>2, <1>3
  <2> QED BY <2>1, <2>3, <2>4, <2>5, <2>6 DEF SureAt, Busy
<1> QED BY <1>5, <1>7

LEMMA SureHandle ==
    ASSUME TypeInv, FreshInv, SureInv, NEW p \in Page, Handle(p)
    PROVE  FreshInv' /\ SureInv'
<1>1. UNCHANGED <<form, masked>>
  BY DEF Handle, OpenTmp, Write, WriteFails, Rename, RenameFails, boxes
<1>2. Busy(p)
  BY DEF Handle, OpenTmp, Write, WriteFails, Rename, RenameFails, Busy
<1>3. CASE OpenTmp(p)
  <2>1. env' = env /\ fresh' = fresh
    BY <1>3, OpenStep
  <2>2. FreshInv'
    BY <1>1, <2>1 DEF FreshInv, Shows
  <2>3. /\ tmp' = Empty
        /\ task'[p].at = "open" /\ task'[p].fd = "tmp" /\ task'[p].new = task[p].new
        /\ task'[p].edit = task[p].edit /\ task'[p].sure = task[p].sure
        /\ \A q \in Page \ {p} : task'[q] = task[q]
    BY <1>3, OpenStep
  <2>4. ASSUME NEW q \in Page, task'[q].sure PROVE SureAt(q)'
    <3>1. task[q].sure
      BY <2>3, <2>4
    <3>2. SureAt(q) /\ q = p
      BY <1>2, <3>1 DEF SureInv, SureAt
    <3> QED BY <1>1, <2>1, <2>3, <3>2 DEF SureAt, Shows, Busy
  <2> QED BY <2>2, <2>4 DEF SureInv
<1>4. CASE Write(p)
  <2>1. /\ task[p].at = "open"
        /\ task[p].fd # "env" => env' = env /\ fresh' = fresh
        /\ task[p].fd = "env" => \A q \in Page : ~fresh'[q]
        /\ task[p].fd = "tmp" /\ tmp = Empty => tmp' = task[p].new
    BY <1>4, WriteStep
  <2>2. FreshInv'
    BY <1>1, <2>1 DEF FreshInv, Shows
  <2>3. /\ task'[p].at = "written" /\ task'[p].fd = task[p].fd /\ task'[p].new = task[p].new
        /\ task'[p].edit = task[p].edit /\ task'[p].sure = task[p].sure
        /\ \A q \in Page \ {p} : task'[q] = task[q]
    BY <1>4, WriteStep
  <2>4. ASSUME NEW q \in Page, task'[q].sure PROVE SureAt(q)'
    <3>1. task[q].sure
      BY <2>3, <2>4
    <3>2. SureAt(q) /\ q = p
      BY <1>2, <3>1 DEF SureInv, SureAt
    <3>3. env' = env /\ tmp' = task[p].new
      BY <2>1, <3>2 DEF SureAt
    <3> QED BY <1>1, <2>3, <3>2, <3>3 DEF SureAt, Shows, Busy
  <2> QED BY <2>2, <2>4 DEF SureInv
<1>5. CASE WriteFails(p) \/ RenameFails(p)
  <2>1. /\ task'[p] = Idle /\ \A q \in Page \ {p} : task'[q] = task[q]
        /\ env' = env /\ fresh' = fresh
    BY <1>5, FailStep DEF files
  <2>2. FreshInv'
    BY <1>1, <2>1 DEF FreshInv, Shows
  <2>3. ASSUME NEW q \in Page, task'[q].sure PROVE FALSE
    <3>1. q # p /\ task[q].sure
      BY <2>1, <2>3, IdleType
    <3> QED BY <1>2, <3>1 DEF SureInv, SureAt
  <2> QED BY <2>2, <2>3 DEF SureInv
<1>6. CASE Rename(p)
  <2>1. /\ task[p].at = "written" /\ env' = tmp /\ task'[p] = Idle
        /\ fresh' = [q \in Page |-> q = p /\ task[p].sure]
        /\ \A q \in Page \ {p} : task'[q].sure = task[q].sure
    BY <1>6, RenameStep
  <2>2. ASSUME NEW q \in Page, fresh'[q] PROVE Shows(q, env)'
    <3>1. q = p /\ task[p].sure
      BY <2>1, <2>2
    <3>2. SureAt(p)
      BY <3>1 DEF SureInv
    <3>3. env' = task[p].new
      BY <2>1, <3>2 DEF SureAt
    <3> QED BY <1>1, <3>1, <3>2, <3>3 DEF SureAt, Shows
  <2>3. ASSUME NEW q \in Page, task'[q].sure PROVE FALSE
    <3>1. q # p /\ task[q].sure
      BY <2>1, <2>3, IdleType
    <3> QED BY <1>2, <3>1 DEF SureInv, SureAt
  <2> QED BY <2>2, <2>3 DEF FreshInv, SureInv
<1> QED BY <1>3, <1>4, <1>5, <1>6 DEF Handle

LEMMA SureNext == TypeInv /\ FreshInv /\ SureInv /\ [Next]_vars => FreshInv' /\ SureInv'
<1> SUFFICES ASSUME TypeInv, FreshInv, SureInv, [Next]_vars PROVE FreshInv' /\ SureInv'
  OBVIOUS
<1>1. ASSUME NEW p \in Page, Use(p) PROVE FreshInv' /\ SureInv'
  <2>1. CASE Look(p)
    BY <2>1, FreshLook, SureLook
  <2>2. CASE \E k \in Key, r \in BOOLEAN : \E v \in Typed[k] \cup {""}, old \in EnvRead :
                    Save(p, k, v, r, old)
    BY <2>2, SureSave
  <2> QED BY <1>1, <2>1, <2>2 DEF Use, Look
<1>2. ASSUME NEW p \in Page, Handle(p) PROVE FreshInv' /\ SureInv'
  BY <1>2, SureHandle
<1>3. CASE Stop
  <2>1. UNCHANGED <<env, form, masked, fresh>> /\ \A p \in Page : task'[p] = Idle
    BY <1>3 DEF Stop, files, boxes
  <2> QED BY <2>1, IdleType DEF FreshInv, SureInv, Shows
<1>4. CASE Start \/ UNCHANGED vars
  <2>1. UNCHANGED <<env, tmp, task, form, masked, fresh>>
    BY <1>4 DEF Start, vars, files, boxes
  <2> QED BY <2>1 DEF FreshInv, SureInv, SureAt, Shows, Busy
<1> QED BY <1>1, <1>2, <1>3, <1>4 DEF Next

-----------------------------------------------------------------------------
(* Theorems *)

LEMMA Invariance == Spec => []IInv
<1>1. Init => IInv
  BY TypeInit, RestInit, SureInit DEF IInv
<1>2. IInv /\ [Next]_vars => IInv'
  BY TypeNext, RestNext, SureNext DEF IInv
<1> QED BY <1>1, <1>2, PTL DEF Spec

\* The variables keep their types, however many pages save at a time; a node that
\* is down has no handlers.
THEOREM TypeCorrect == Spec => []TypeOK
<1>1. IInv => TypeOK
  BY DEF IInv, TypeInv
<1> QED BY <1>1, Invariance, PTL

\* put_env keeps the lines that the form does not have in .env, at every moment,
\* unless two handlers have had .env.tmp open at a time or one could not read .env.
THEOREM KeepsTheRest == Spec => []RestKept
<1>1. IInv => RestKept
  BY DEF IInv, RestInv, RestKept
<1> QED BY <1>1, Invariance, PTL

\* A save without an overlap, from a page that shows what the file has, whose
\* handler can read the file, changes the setting that the operator changed and no
\* other.
THEOREM ChangesTheSetting == Spec => ChangesOneSetting
<1> DEFINE A == \A p \in Page : LET e == task[p].edit IN
                    Rename(p) /\ task[p].sure => env' = [env EXCEPT !.value[e.key] = e.value]
<1>1. IInv /\ [Next]_vars => [A]_vars
  <2> SUFFICES ASSUME IInv, NEW p \in Page, Rename(p), task[p].sure
               PROVE  env' = Changed(env, task[p].edit)
    BY DEF Changed
  <2>1. SureAt(p)
    BY DEF IInv, SureInv
  <2>2. task[p].at = "written" /\ env' = tmp
    BY RenameStep DEF IInv
  <2> QED BY <2>1, <2>2 DEF SureAt
<1> QED BY <1>1, Invariance, PTL DEF Spec, ChangesOneSetting
=============================================================================
