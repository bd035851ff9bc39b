---------------------------- MODULE InboundGate ----------------------------
(***************************************************************************)
(* The way of a label into a node: who may send it, for which site, to     *)
(* which printer (inbound.rs, handle up to the lookup of the printer),     *)
(* composed with what decides that while the label is on its way: the      *)
(* console's edits of the printers, the configurations of the control      *)
(* plane with their secrets (dash.rs, state.rs), and the start, which      *)
(* reads the last of them from its cache.                                  *)
(*                                                                         *)
(* Labels come from D365 and, as test prints, from the dashboard, which    *)
(* takes the secret and the names from its own database and not from the   *)
(* node.  ConfigSync has the transport of configurations; here the node    *)
(* applies the newest at some time.                                        *)
(***************************************************************************)
EXTENDS PrinterRegistry

CONSTANTS
    Secret,      \* secrets of .env, of an enrollment, or rotated
    NoSecret,    \* the empty secret
    NoName,      \* no printer is named
    Defaults,    \* what DEFAULT_PRINTER may be
    Named,       \* what a label may name
    Entered,     \* names and addresses of printers that the console is given
    ConfigLists, \* the lists of printers that the dashboard may save
    MaxVersion,  \* bound: versions of the configuration
    MaxRestarts  \* bound: restarts in a behaviour

ASSUME GateAssumption ==
    /\ ConfigLists \subseteq Seq(Printer)
    /\ << >> \in ConfigLists
    /\ Defaults \subseteq Spelling \cup {NoName}
    /\ Named \subseteq Spelling \cup {NoName}
    /\ Entered \subseteq Spelling \X Address
    /\ NoSecret \notin Secret
    /\ NoName \notin Spelling
    /\ Nowhere \notin Address
    /\ MaxVersion \in Nat \ {0}
    /\ MaxRestarts \in Nat

VARIABLES
    site_filter,      \* D365_SITE_FILTER is set
    default_printer,  \* DEFAULT_PRINTER, or NoName
    node_config,      \* the row in the control plane's database
    d365,             \* the secret that D365 has, with the version it is from
    cached,           \* config.json: the configuration that the node applied last
    printers,         \* Store.printers
    inbound_secret,   \* Store.inbound_secret
    post,             \* the label on its way
    restarts,
    edit              \* the last edit of a printer since then; no action reads it

env    == <<site_filter, default_printer>>
others == <<node_config, d365>>
node   == <<cached, printers, inbound_secret, edit>>
vars   == <<env, others, node, post, restarts>>

Config == [version : 1..MaxVersion, printers : ConfigLists, secret : Secret \cup {NoSecret}]

Body == {"text", "json", "blank"}

\* The version is that of the row from which the sender has the secret; our_site
\* says whether X-Site names this node's.
Label == [version : 1..MaxVersion, secret : Secret \cup {NoSecret}, our_site : BOOLEAN,
          body : Body, printer : Named]

NoPost == [at |-> "none"]

Post == {NoPost}
    \cup [at : {"sent"}, label : Label]
    \cup [at : {"admitted"}, version : 1..MaxVersion, printer : Spelling]
    \cup [at : {"refused"}, status : {"401", "400", "422"}]
    \cup [at : {"accepted"}, ip : Address]

\* The node is enrolled: it runs the first version, with the secret that came
\* with it and no printers, and D365 has been given the secret.
Init ==
    /\ site_filter \in BOOLEAN
    /\ default_printer \in Defaults
    /\ \E s \in Secret :
        /\ node_config = [version |-> 1, printers |-> << >>, secret |-> s]
        /\ inbound_secret = s
        /\ d365 = [version |-> 1, secret |-> s]
    /\ cached = node_config
    /\ printers = << >>
    /\ post = NoPost
    /\ restarts = 0
    /\ edit = << >>

-----------------------------------------------------------------------------
(* What changes while labels are under way *)

\* The dashboard saves: the secret is kept, rotated, or set as the API has it.
UpdateConfig ==
    /\ node_config.version < MaxVersion
    /\ \E list \in ConfigLists, s \in Secret \cup {NoSecret} :
        node_config' = [version |-> node_config.version + 1, printers |-> list, secret |-> s]
    /\ UNCHANGED <<env, d365, node, post, restarts>>

\* apply_config_to_store: an empty secret keeps the one in force.
Overlaid(s, c) == IF c.secret = NoSecret THEN s ELSE c.secret

\* Mutant of ApplyConfig: the printers of the console are kept.
ApplySecretOnly ==
    /\ cached.version < node_config.version
    /\ cached' = node_config
    /\ inbound_secret' = Overlaid(inbound_secret, node_config)
    /\ edit' = << >>
    /\ UNCHANGED <<env, others, printers, post, restarts>>

ApplyConfig ==
    /\ cached.version < node_config.version
    /\ cached' = node_config
    /\ printers' = node_config.printers
    /\ inbound_secret' = Overlaid(inbound_secret, node_config)
    /\ edit' = << >>
    /\ UNCHANGED <<env, others, post, restarts>>

UpsertPrinter(s, a) ==
    /\ printers' = Upserted(printers, s, a)
    /\ edit' = <<s.name, a>>
    /\ UNCHANGED <<env, others, cached, inbound_secret, post, restarts>>

\* A name with blanks, as the control plane may have sent it, is one that no label
\* finds: what the name leads to without them stays.
RemovePrinter(s) ==
    /\ printers' = Removed(printers, s)
    /\ edit' = IF Trim(s) = s THEN <<s.name, Nowhere>> ELSE <<s.name, FindPrinter(printers, s)>>
    /\ UNCHANGED <<env, others, cached, inbound_secret, post, restarts>>

\* AppState::new lays config.json over printers.json and the secret of .env.
Restart ==
    /\ restarts < MaxRestarts
    /\ restarts' = restarts + 1
    /\ printers' = cached.printers
    /\ \E s \in Secret \cup {NoSecret} : inbound_secret' = Overlaid(s, cached)
    /\ edit' = << >>
    /\ post' = NoPost
    /\ UNCHANGED <<env, others, cached>>

-----------------------------------------------------------------------------
(* Sending *)

\* The administrator of D365 is given the secret that the control plane has.
SetUpD365 ==
    /\ d365' = [version |-> node_config.version, secret |-> node_config.secret]
    /\ UNCHANGED <<env, node_config, node, post, restarts>>

Send(from, our_site, body, name) ==
    /\ post = NoPost
    /\ post' = [at |-> "sent",
                label |-> [version |-> from.version, secret |-> from.secret,
                           our_site |-> our_site, body |-> body, printer |-> name]]
    /\ UNCHANGED <<env, others, node, restarts>>

SendLabel == \E our_site \in BOOLEAN, body \in Body, name \in Named :
    Send(d365, our_site, body, name)

\* test_print takes the secret from the row, and a name that its page shows, of a
\* printer that is saved or not.  It sends no X-Site.
TestPrint == \E name \in Named \ {NoName} : Send(node_config, FALSE, "text", name)

-----------------------------------------------------------------------------
(* handle *)

Refuse(status) == post' = [at |-> "refused", status |-> status]

\* An empty secret admits nobody.
SecretOk(l) == inbound_secret # NoSecret /\ l.secret = inbound_secret

SiteOk(l) == site_filter => l.our_site

\* A JSON body has to name the printer; the header has a default.
PrinterOf(l) == IF l.printer = NoName /\ l.body # "json" THEN default_printer ELSE l.printer

Complete(l) == PrinterOf(l) # NoName /\ l.body # "blank"

\* Everything before the lookup; of that only the secret is read under the lock.
Authenticate ==
    /\ post.at = "sent"
    /\ LET l == post.label
       IN  \/ ~SecretOk(l) /\ Refuse("401")
           \/ SecretOk(l) /\ ~SiteOk(l) /\ Refuse("422")
           \/ SecretOk(l) /\ SiteOk(l) /\ ~Complete(l) /\ Refuse("400")
           \/ /\ SecretOk(l) /\ SiteOk(l) /\ Complete(l)
              /\ post' = [at |-> "admitted", version |-> l.version, printer |-> PrinterOf(l)]
    /\ UNCHANGED <<env, others, node, restarts>>

\* find_printer, under the lock again.
LookUp ==
    /\ post.at = "admitted"
    /\ LET ip == FindPrinter(printers, post.printer)
       IN  IF ip = Nowhere THEN Refuse("422") ELSE post' = [at |-> "accepted", ip |-> ip]
    /\ UNCHANGED <<env, others, node, restarts>>

Answer ==
    /\ post.at \in {"refused", "accepted"}
    /\ post' = NoPost
    /\ UNCHANGED <<env, others, node, restarts>>

-----------------------------------------------------------------------------
Next ==
    \/ UpdateConfig \/ SetUpD365 \/ ApplyConfig \/ Restart
    \/ \E s \in Spelling : RemovePrinter(s)
    \/ \E e \in Entered : UpsertPrinter(e[1], e[2])
    \/ SendLabel \/ TestPrint \/ Authenticate \/ LookUp \/ Answer

Spec == Init /\ [][Next]_vars

-----------------------------------------------------------------------------
(* Properties *)

TypeOK ==
    /\ site_filter \in BOOLEAN
    /\ default_printer \in Defaults
    /\ node_config \in Config
    /\ d365 \in [version : 1..MaxVersion, secret : Secret \cup {NoSecret}]
    /\ cached \in Config
    /\ printers \in Seq(Printer)
    /\ inbound_secret \in Secret \cup {NoSecret}
    /\ post \in Post
    /\ restarts \in 0..MaxRestarts
    /\ edit \in {<< >>} \cup (Name \X (Address \cup {Nowhere}))
    /\ edit = << >> => printers = cached.printers

\* Names that are trimmed and differ in more than case.
Clean(list) ==
    \A i \in DOMAIN list : list[i].name.written # "padded" /\ Matches(list, list[i].name) = {i}

\* Every printer that the console lists is the one that a label for that name, in
\* any case, is printed on: edits in any case and with blanks never leave one
\* that is hidden behind another or that no label can name.  Only a
\* configuration of the control plane, whose names nothing checks, brings one.
ListedIsFound ==
    Clean(cached.printers) =>
        \A i \in DOMAIN printers : FindPrinter(printers, printers[i].name) = printers[i].ip

\* The name, in some case and with blanks or not, is listed in the configuration.
Listed(name) ==
    \E i \in DOMAIN cached.printers : ToLower(Trim(name)) = ToLower(cached.printers[i].name)

\* A label is refused for a cause: its sender has the secret of a version other
\* than the one that the node runs, or of a row without one; it is for another
\* site, as every test print is to a node with a filter; it is not complete; or
\* its printer is not listed, or is not listed any more.  A label whose sender
\* and node agree on a version is admitted however the rotation of a secret,
\* a restart and edits of the printers fall between its steps, and finds its
\* printer in any case and with blanks around the name.
RefusedForCause ==
    [][/\ LET l == post.label
          IN  Authenticate /\ l.version = cached.version /\ l.secret # NoSecret
                  /\ SiteOk(l) /\ Complete(l) => post'.at = "admitted"
       /\ LookUp /\ post.version = cached.version /\ edit = << >> /\ Listed(post.printer)
              => post'.at = "accepted"]_vars

Dir == INSTANCE PrinterDirectory WITH
    leads <- Directory(printers), generation <- cached.version - 1 + restarts

\* The printers are a directory: an edit on the console changes where its own
\* name leads and nothing else, also in a list that the control plane has
\* filled with names twice, in other cases or padded.
ImplementsDirectory == Dir!Spec
=============================================================================
