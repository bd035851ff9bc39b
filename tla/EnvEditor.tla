----------------------------- MODULE EnvEditor -----------------------------
(***************************************************************************)
(* The editor of .env: the settings form of the console (web/app.js), the  *)
(* handler behind it (settings.rs, get_env and put_env), the file with the *)
(* temporary file that replaces it, and the start that reads it            *)
(* (config.rs, main.rs).                                                   *)
(*                                                                         *)
(* put_env takes no lock and awaits nothing: tokio runs two requests on    *)
(* two threads, and their system calls interleave.  A file is open under   *)
(* the name it had when it was opened: a rename moves it from under the    *)
(* handlers that still write to it.                                        *)
(*                                                                         *)
(* Both handlers take an .env that they cannot read (one byte that is not  *)
(* UTF-8, its permissions, no file descriptor left) for an empty one.      *)
(*                                                                         *)
(* One key stands for the keys of its kind: a secret, the dropdown, and a  *)
(* port.  "rest" stands for the lines that the form does not have:         *)
(* comments, CONTROL_URL, DATA_DIR, ...                                    *)
(***************************************************************************)
EXTENDS Naturals

CONSTANTS
    Page,         \* browser pages with the form
    Secret,       \* secrets that an operator types
    PrinterName,  \* names of printers
    Port,         \* port numbers that an operator types
    Taken,        \* those that the local listener cannot bind
    Gone,         \* no file
    MaxSaves      \* bound: saves in a behaviour

VARIABLES
    env,     \* the file .env
    tmp,     \* .env.tmp, or Gone
    up,      \* the node runs
    task,    \* of every page: the handler of its save
    form,    \* the values in its boxes
    masked,  \* dataset.masked of the secret's box
    saves,
    fresh,   \* it has loaded everything since that last changed; no action reads it
    shared,  \* two handlers had .env.tmp open at a time; no action reads it
    unread   \* a save has taken .env for empty and it was not; no action reads it

files  == <<env, tmp>>
boxes  == <<form, masked>>
ghosts == <<shared, unread>>
vars   == <<files, up, task, boxes, saves, fresh, ghosts>>

Key == {"secret", "printer", "port"}

Typed == [secret |-> Secret, printer |-> PrinterName, port |-> Port]

Values == [secret : Secret \cup {""}, printer : PrinterName \cup {""}, port : Port \cup {""}]

NoValues == [secret |-> "", printer |-> "", port |-> ""]

\* A line without a value counts as no line (config.rs, opt).
File == [rest : BOOLEAN, value : Values]

Empty == [rest |-> FALSE, value |-> NoValues]

ASSUME EnvAssumption ==
    /\ "" \notin Secret \cup PrinterName \cup Port
    /\ "***" \notin Secret
    /\ Taken \subseteq Port
    /\ Gone \notin File
    /\ MaxSaves \in Nat

\* new is the content that the handler is to write; fd is the name under which
\* its file is known.  edit and sure are read by no action.
Task == [at : {"idle", "merged", "open", "written"}, new : File,
         fd : {"none", "tmp", "env", "unnamed"},
         edit : [key : Key, value : Secret \cup PrinterName \cup Port \cup {""}],
         sure : BOOLEAN]

Idle == [at |-> "idle", new |-> Empty, fd |-> "none",
         edit |-> [key |-> "port", value |-> ""], sure |-> FALSE]

Busy(p) == task[p].at # "idle"

Init ==
    /\ env \in File /\ env.rest /\ env.value.port = ""
    /\ tmp = Gone
    /\ up = TRUE
    /\ task = [p \in Page |-> Idle]
    /\ form = [p \in Page |-> NoValues]
    /\ masked = [p \in Page |-> FALSE]
    /\ saves = 0
    /\ fresh = [p \in Page |-> FALSE]
    /\ shared = FALSE
    /\ unread = FALSE

\* What a handler can get when it reads .env.
EnvRead == {env, Empty}

-----------------------------------------------------------------------------
(* The page *)

\* The page loads and its settings do not, or not yet; its handler goes on.
Reload(p) ==
    /\ form' = [form EXCEPT ![p] = NoValues]
    /\ masked' = [masked EXCEPT ![p] = FALSE]
    /\ fresh' = [fresh EXCEPT ![p] = FALSE]
    /\ task' = [task EXCEPT ![p].sure = FALSE]
    /\ UNCHANGED <<files, up, saves, ghosts>>

\* A select shows a value that it has an option for.
Selected(n, names) == IF n \in names THEN n ELSE ""

\* get_env does not tell a secret.
Shown(value) == [value EXCEPT !.secret = IF @ = "" THEN "" ELSE "***"]

\* Mutant of LoadEnv: the page does not keep in mind that a secret is set.
LoadEnvUnmasked(p, names, seen) ==
    /\ up
    /\ form' = [form EXCEPT ![p] = [seen.value EXCEPT
                   !.secret = "", !.printer = Selected(@, names)]]
    /\ masked' = [masked EXCEPT ![p] = FALSE]
    /\ fresh' = [fresh EXCEPT ![p] = seen = env /\ seen.value.printer \in names \cup {""}]
    /\ task' = [task EXCEPT ![p].sure = FALSE]
    /\ UNCHANGED <<files, up, saves, ghosts>>

\* The page loads, and so do the names of the printers that there were at the
\* time (none if that fails), and then the settings, once: loadEnvSettings, from
\* what get_env has seen of .env.  The secret is not shown; the page keeps in mind
\* whether there is one.
LoadEnv(p, names, seen) ==
    /\ up
    /\ form' = [form EXCEPT ![p] = [seen.value EXCEPT
                   !.secret = "", !.printer = Selected(@, names)]]
    /\ masked' = [masked EXCEPT ![p] = Shown(seen.value).secret = "***"]
    /\ fresh' = [fresh EXCEPT ![p] = seen = env /\ seen.value.printer \in names \cup {""}]
    /\ task' = [task EXCEPT ![p].sure = FALSE]
    /\ UNCHANGED <<files, up, saves, ghosts>>

\* loadPrinters after a printer was added or removed on this page: names are what
\* the node has by now.
LoadPrinters(p, names) ==
    /\ up
    /\ form' = [form EXCEPT ![p].printer = Selected(@, names)]
    /\ fresh' = [fresh EXCEPT ![p] = @ /\ form'[p] = form[p]]
    /\ task' = [task EXCEPT ![p].sure = @ /\ form'[p] = form[p]]
    /\ UNCHANGED <<files, up, masked, saves, ghosts>>

\* saveEnvSettings posts every box; an empty box of a secret that is set stands
\* for "***", but only where it has the type by which the page tells secrets.
Posted(p, boxed, revealed) ==
    [boxed EXCEPT !.secret = IF @ = "" /\ masked[p] /\ ~revealed THEN "***" ELSE @]

-----------------------------------------------------------------------------
(* put_env *)

\* Mutant of Merge: what the page posts is written as it is.
MergeKeepsMask(old, body) == [rest |-> old.rest, value |-> body]

\* The lines that the handler is to write, from those that it has read: "***"
\* keeps what those have, nothing if they are none.
Merge(old, body) ==
    [rest |-> old.rest,
     value |-> [body EXCEPT !.secret = IF @ = "***" THEN old.value.secret ELSE @]]

\* What page p posts is what it is to change and otherwise what the file has, and
\* the handler has read that.
Sure(p, k, v, revealed, old) ==
    /\ fresh[p]
    /\ old = env
    /\ \A q \in Page : ~Busy(q)
    /\ k = "secret" => v # ""
    /\ revealed /\ masked[p] => k = "secret" \/ form[p].secret # ""

\* An operator changes one setting on the page and saves, with the secret's box
\* revealed (toggleSecret changes its type) or not; the request arrives and the
\* handler reads .env: old is what it gets.
Save(p, k, v, revealed, old) ==
    LET boxed == [form[p] EXCEPT ![k] = v]
    IN  /\ up
        /\ ~Busy(p)
        /\ saves < MaxSaves
        /\ form' = [form EXCEPT ![p] = boxed]
        /\ task' = [q \in Page |->
               IF q = p
               THEN [at |-> "merged", new |-> Merge(old, Posted(p, boxed, revealed)), fd |-> "none",
                     edit |-> [key |-> k, value |-> v], sure |-> Sure(p, k, v, revealed, old)]
               ELSE [task[q] EXCEPT !.sure = FALSE]]
        /\ fresh' = [fresh EXCEPT ![p] = FALSE]
        /\ saves' = saves + 1
        /\ unread' = (unread \/ old # env)
        /\ UNCHANGED <<files, up, masked, shared>>

\* Mutant of OpenTmp: .env is written to in place.
OpenEnv(p) ==
    /\ task[p].at = "merged"
    /\ env' = Empty
    /\ task' = [task EXCEPT ![p].at = "open", ![p].fd = "env"]
    /\ UNCHANGED <<tmp, up, boxes, saves, fresh, ghosts>>

\* fs::write opens .env.tmp and truncates the file of that name, if there is one.
OpenTmp(p) ==
    /\ task[p].at = "merged"
    /\ tmp' = Empty
    /\ task' = [task EXCEPT ![p].at = "open", ![p].fd = "tmp"]
    /\ shared' = (shared \/ \E q \in Page : task[q].fd = "tmp")
    /\ UNCHANGED <<env, up, boxes, saves, fresh, unread>>

\* Bytes written over other bytes: where those were more, some of their lines
\* remain at the end, and the last line of a key counts.
Over(old, new) ==
    IF old = Empty THEN {new}
    ELSE [rest : {new.rest, new.rest \/ old.rest},
          value : {v \in Values : \A k \in Key : v[k] \in {old.value[k], new.value[k]}}]

\* fs::write writes from the beginning of the file that it has open.
Write(p) ==
    /\ task[p].at = "open"
    /\ task' = [task EXCEPT ![p].at = "written"]
    /\ CASE task[p].fd = "tmp" -> tmp' \in Over(tmp, task[p].new) /\ UNCHANGED <<env, fresh>>
         [] task[p].fd = "env" -> /\ env' \in Over(env, task[p].new)
                                  /\ fresh' = [q \in Page |-> FALSE]
                                  /\ UNCHANGED tmp
         [] OTHER -> UNCHANGED <<files, fresh>>
    /\ UNCHANGED <<up, boxes, saves, ghosts>>

Done(p) == [task EXCEPT ![p] = Idle]

\* The disk is full: 500, and the temporary file stays as it is.
WriteFails(p) ==
    /\ task[p].at = "open"
    /\ task' = Done(p)
    /\ UNCHANGED <<files, up, boxes, saves, fresh, ghosts>>

\* Where the open files are known after the rename of .env.tmp to .env.
Renamed == [none |-> "none", tmp |-> "env", env |-> "unnamed", unnamed |-> "unnamed"]

Rename(p) ==
    /\ task[p].at = "written"
    /\ tmp # Gone
    /\ env' = tmp
    /\ tmp' = Gone
    /\ task' = [q \in Page |-> IF q = p THEN Idle ELSE [task[q] EXCEPT !.fd = Renamed[@]]]
    /\ fresh' = [q \in Page |-> q = p /\ task[p].sure]
    /\ UNCHANGED <<up, boxes, saves, ghosts>>

\* Another handler has renamed it already: 500.
RenameFails(p) ==
    /\ task[p].at = "written"
    /\ tmp = Gone
    /\ task' = Done(p)
    /\ UNCHANGED <<files, up, boxes, saves, fresh, ghosts>>

-----------------------------------------------------------------------------
(* The process *)

\* It stops, for a restart or by itself; handlers end where they are.
Stop ==
    /\ up
    /\ up' = FALSE
    /\ task' = [p \in Page |-> Idle]
    /\ UNCHANGED <<files, boxes, saves, fresh, ghosts>>

\* main binds both listeners or panics.
Binds(c) == c.value.port \notin Taken

\* Config::from_env and main; systemd tries again every few seconds.
Start ==
    /\ ~up
    /\ up' = Binds(env)
    /\ UNCHANGED <<files, task, boxes, saves, fresh, ghosts>>

-----------------------------------------------------------------------------
Handle(p) == OpenTmp(p) \/ Write(p) \/ WriteFails(p) \/ Rename(p) \/ RenameFails(p)

Use(p) ==
    \/ Reload(p)
    \/ \E names \in SUBSET PrinterName :
           LoadPrinters(p, names) \/ \E seen \in EnvRead : LoadEnv(p, names, seen)
    \/ \E k \in Key, revealed \in BOOLEAN :
           \E v \in Typed[k] \cup {""}, old \in EnvRead : Save(p, k, v, revealed, old)

Next ==
    \/ \E p \in Page : Use(p) \/ Handle(p)
    \/ Stop \/ Start

Spec == Init /\ [][Next]_vars

-----------------------------------------------------------------------------
(* Properties *)

TypeOK ==
    /\ env \in File
    /\ tmp \in File \cup {Gone}
    /\ up \in BOOLEAN
    /\ task \in [Page -> Task]
    /\ form \in [Page -> Values]
    /\ masked \in [Page -> BOOLEAN]
    /\ saves \in 0..MaxSaves
    /\ fresh \in [Page -> BOOLEAN]
    /\ shared \in BOOLEAN
    /\ unread \in BOOLEAN
    /\ ~up => \A p \in Page : ~Busy(p)

\* put_env: "Preserves comments and line order."  The lines that the form does
\* not have are in .env at every moment, through failing writes and stops
\* between any two system calls.  Two things only can cost them: two handlers
\* that have the temporary file open at a time, and a handler that could not read
\* .env and goes on with nothing.
RestKept == ~shared /\ ~unread => env.rest

\* A save that no other overlaps, whose handler can read .env, from a page that
\* has loaded the settings and the printers since they last changed there,
\* changes the setting that the operator changed and no other: not the secret,
\* whether the page shows it as set or still has it typed in from an earlier
\* save, and not the default printer.
ChangesOneSetting ==
    [][\A p \in Page : LET e == task[p].edit IN
          Rename(p) /\ task[p].sure => env' = [env EXCEPT !.value[e.key] = e.value]]_vars
=============================================================================
