---------------------------- MODULE Provisioning ----------------------------
(***************************************************************************)
(* The bench tool that turns boards on USB ports into a deployment.  A     *)
(* plan names boards by MAC; a port is where a board answers at the        *)
(* moment, and a flashed board comes back on any.  Every step the tool     *)
(* takes on a board may fail or be interrupted, and a plan may be run      *)
(* again or extended, while the Hub in the field goes on settling the      *)
(* radio configurations of its Edges.  Posture is secure or control.       *)
(***************************************************************************)
EXTENDS Naturals, SequencesExt

CONSTANTS
    None,
    Edges, HubBoard,     \* boards, by MAC
    Ports, Usual,        \* and the port each is on when plugged in
    Plans,               \* [mode, edges, firmware]: edges a sequence, of which
    NameOf,              \* each has its name in every plan
    Rates, Issued,       \* radio configurations, and the one plans give
    MaxRuns, MaxSettled

Boards == Edges \cup {HubBoard}
Files == {"LoRa.json", "root", "main.py"}
Stored == Files \cup {"Nodes.json"}

\* What the theorems take of the constants: a plan names a board once.
DeskAssumption ==
    /\ None \notin Nat \cup Ports /\ HubBoard \notin Edges
    /\ Usual \in [Boards -> Ports]
    /\ \A b, c \in Boards : Usual[b] = Usual[c] => b = c
    /\ \A p \in Plans : /\ p.edges \in Seq(Edges) \ {<<>>}
                        /\ \A i, j \in DOMAIN p.edges : p.edges[i] = p.edges[j] => i = j

VARIABLES
    path,        \* the port of each board, or None: not on the desk
    silent,      \* boards whose REPL does not answer
    files,       \* of each, the run each file was written by; None: missing or half
    key, rf,     \* identity.key of each, or None, and its radio configuration
    running,     \* boards that were reset into their program
    rows,        \* what Nodes.json of the Hub holds, a sequence of [name, key, rf]
    registry, backups,   \* the fleet folder
    plan, ports, \* of the run, and where the boards answered when it began, or None
    at, steps,   \* the board at hand, and what is left to do with it
    port, expected,      \* Board.port, and expected_mac
    roster,      \* the Nodes.json read, or None
    finished,    \* the ports of boards finished
    ok,          \* the proof passed
    run, made, settled,  \* runs, keys and settlements so far
    sound        \* history: boards that were whole when the run began

desk == <<path, silent>>
contents == <<files, key, rf, rows>>
fleet == <<registry, backups>>
hand == <<at, port, expected, finished>>
tool == <<plan, ports, roster, ok, run, sound>>
vars == <<desk, contents, running, fleet, hand, tool, steps, made, settled>>

-----------------------------------------------------------------------------
(* The plan and the desk.                                                  *)

Order(p) == Append(p.edges, HubBoard)
Names(p) == {NameOf[e] : e \in ToSet(p.edges)}
Reached == {Order(plan)[i] : i \in {j \in DOMAIN Order(plan) : j <= at}}

\* flash, which without an image keeps what the board runs.
Flash(p) == IF p.firmware THEN <<"backup", "flash", "wait">> ELSE <<>>
\* provision_edge, update_hub_roster, provision_hub.
StepsFor(p, i) ==
    IF i <= Len(p.edges)
    THEN <<"probe">> \o Flash(p) \o <<"library", "LoRa.json", "root", "key", "main.py",
                                      "payload", "register">>
    ELSE IF i > Len(p.edges) + 1 THEN <<"verify", "start">>
    ELSE IF p.mode = "extend" THEN <<"read", "rows">>
    ELSE <<"probe">> \o Flash(p) \o <<"library", "LoRa.json", "Nodes.json", "root", "key",
                                      "main.py">>

Step == IF steps = <<>> THEN "idle" ELSE Head(steps)

On(p) == {b \in Boards : path[b] = p}
Answers(p) == On(p) \ silent
Here == CHOOSE b \in On(port) : TRUE
Asked(step) == Step = step /\ Answers(port) # {}

\* The files a board runs on are of one run, and a Hub has its roster.
Whole(b) ==
    /\ \E r \in 0 .. run : \A f \in Files : files[b][f] = r
    /\ b = HubBoard /\ files[b]["main.py"] # 0 => files[b]["Nodes.json"] # None

\* The step was the last of this board's, or the next is due.
Advance ==
    IF Len(steps) > 1 THEN steps' = Tail(steps) /\ UNCHANGED hand
    ELSE /\ at' = at + 1 /\ steps' = StepsFor(plan, at + 1)
         /\ finished' = finished \cup {port}
         /\ port' = IF at < Len(Order(plan)) THEN ports[Order(plan)[at + 1]] ELSE port
         /\ expected' = None

-----------------------------------------------------------------------------
(* What happens to boards by themselves.                                   *)

\* A flashed board comes back, reset over the wire or by a finger, on any free port.
Returns(b, p) ==
    /\ b \in silent /\ Step # "flash"
    /\ path[b] = p \/ (path[b] # None /\ On(p) = {})
    /\ path' = [path EXCEPT ![b] = p] /\ silent' = silent \ {b}
    /\ UNCHANGED <<contents, running, fleet, hand, tool, steps, made, settled>>

\* A retune accepted in the field: the Hub writes it into its own roster.
Settle(i, c) ==
    /\ settled < MaxSettled /\ settled' = settled + 1
    /\ HubBoard \in running /\ Whole(HubBoard) /\ i \in DOMAIN rows
    /\ c # rows[i].rf
    /\ \E e \in running \cap Edges :
          /\ Whole(e) /\ key[e] = rows[i].key /\ rf[e] = rows[i].rf
          /\ rf' = [rf EXCEPT ![e] = c]
    /\ rows' = [rows EXCEPT ![i].rf = c]
    /\ UNCHANGED <<desk, files, key, running, fleet, hand, tool, steps, made>>

-----------------------------------------------------------------------------
(* A run.                                                                  *)

\* look_for_boards, which stops whatever it asks, and ports_for: every board
\* named must answer.  Others may be on the desk too.
BeginRun(p, away) ==
    /\ Step = "idle" /\ run < MaxRuns /\ run' = run + 1
    /\ ToSet(Order(p)) \cap (silent \cup away) = {}
    /\ path' = [b \in Boards |-> IF b \in away THEN None ELSE Usual[b]]
    /\ plan' = p /\ ports' = [b \in Boards |-> IF b \in silent THEN None ELSE path'[b]]
    /\ at' = 1 /\ steps' = StepsFor(p, 1) /\ port' = path'[p.edges[1]] /\ expected' = None
    /\ roster' = None /\ finished' = {} /\ ok' = FALSE
    /\ running' = running \cap (silent \cup away)
    /\ sound' = {b \in Boards : Whole(b)}
    /\ UNCHANGED <<silent, contents, fleet, made, settled>>

\* alive and mac, which may not say.
Probe ==
    /\ Asked("probe")
    /\ steps' = Tail(steps) /\ expected' \in {Here, None}
    /\ UNCHANGED <<desk, contents, running, fleet, at, port, finished, tool, made, settled>>

\* Mutant of BackedUp: a key that cannot be read is a key the board has not.
BackedUp_Guessed(k) == {backups \cup ({k} \ {None}), backups}

\* back_up_identity; a board that cannot be asked stops the phase.
BackedUp(k) == {backups \cup ({k} \ {None})}

BackUp ==
    /\ Asked("backup")
    /\ backups' \in BackedUp(key[Here])
    /\ steps' = Tail(steps)
    /\ UNCHANGED <<desk, contents, running, registry, hand, tool, made, settled>>

Erased(b) ==
    /\ files' = [files EXCEPT ![b] = [f \in Stored |-> None]]
    /\ key' = [key EXCEPT ![b] = None]
    /\ rows' = IF b = HubBoard THEN <<>> ELSE rows
    /\ UNCHANGED rf

\* enter_bootloader, erase_flash and write_flash: the REPL is gone.
FlashIt ==
    /\ Asked("flash")
    /\ Erased(Here) /\ silent' = silent \cup {Here}
    /\ steps' = Tail(steps)
    /\ UNCHANGED <<path, running, fleet, hand, tool, made, settled>>

\* wait_for_board and adopt_port: by MAC, or unless that is known where it was,
\* or else on the only port there is.
Adopted ==
    IF expected # None THEN {p \in Ports : expected \in Answers(p)}
    ELSE IF Answers(port) # {} THEN {port}
    ELSE {p \in Ports : Answers(p) # {} /\ \A q \in Ports : On(q) # {} => q = p}

WaitForBoard ==
    /\ Step = "wait" /\ port' \in Adopted
    /\ steps' = Tail(steps)
    /\ UNCHANGED <<desk, contents, running, fleet, at, expected, finished, tool, made, settled>>

\* has_current_library; the payload; the proof comes to nothing the run depends on.
NoChange(step) ==
    /\ Asked(step) /\ Advance
    /\ UNCHANGED <<desk, contents, running, fleet, tool, made, settled>>

\* write_remote; a root the board is not to have is removed.
WriteFile(f) ==
    /\ Asked(f) /\ Advance
    /\ files' = [files EXCEPT ![Here][f] = run]
    /\ rf' = IF f = "LoRa.json" THEN [rf EXCEPT ![Here] = Issued] ELSE rf
    /\ UNCHANGED <<desk, key, rows, running, fleet, tool, made, settled>>

\* ensure_identity: made on the board, if it has none.
EnsureKey ==
    /\ Asked("key") /\ Advance
    /\ made' = IF key[Here] = None THEN made + 1 ELSE made
    /\ key' = IF key[Here] = None THEN [key EXCEPT ![Here] = made + 1] ELSE key
    /\ UNCHANGED <<desk, files, rf, rows, running, fleet, tool, settled>>

\* register and _match: by fingerprint, then by name.
Registered(e) ==
    LET byKey == SelectInSeq(registry, LAMBDA x : x.key = e.key)
        byName == SelectInSeq(registry, LAMBDA x : x.name = e.name)
        i == IF byKey # 0 THEN byKey ELSE byName
    IN  IF i = 0 THEN Append(registry, e) ELSE [registry EXCEPT ![i] = e]

Register ==
    /\ Asked("register") /\ Advance
    /\ registry' = Registered([name |-> NameOf[plan.edges[at]], key |-> key[Here], rf |-> Issued])
    /\ UNCHANGED <<desk, contents, running, backups, tool, made, settled>>

-----------------------------------------------------------------------------
(* The roster of the Hub.                                                  *)

\* provision_hub: all of the registry.
WriteRoster ==
    /\ Asked("Nodes.json") /\ Advance
    /\ files' = [files EXCEPT ![Here]["Nodes.json"] = run] /\ rows' = registry
    /\ UNCHANGED <<desk, key, rf, running, fleet, tool, made, settled>>

\* _roster_on.
ReadRoster ==
    /\ Asked("read") /\ files[Here]["Nodes.json"] # None
    /\ roster' = rows /\ steps' = Tail(steps)
    /\ UNCHANGED <<desk, contents, running, fleet, hand, plan, ports, ok, run, sound, made, settled>>

\* The row of that fingerprint, or a new one that drops those of its name.
Put(rs, e) ==
    LET i == SelectLastInSeq(rs, LAMBDA r : r.key = e.key)
    IN  IF i # 0 THEN [rs EXCEPT ![i] = e]
        ELSE Append(SelectSeq(rs, LAMBDA r : r.name # e.name), e)

\* Mutant of Extended: the roster is what the registry says.
Extended_Rebuilt(rs) == registry

\* update_hub_roster: the rows of this run's Edges, over what the Hub has.
Extended(rs) ==
    FoldLeft(Put, rs, SelectSeq(registry, LAMBDA e : e.name \in Names(plan)))

ExtendRoster ==
    /\ Asked("rows") /\ Advance
    /\ files' = [files EXCEPT ![Here]["Nodes.json"] = run] /\ rows' = Extended(roster)
    /\ UNCHANGED <<desk, key, rf, running, fleet, tool, made, settled>>

-----------------------------------------------------------------------------
(* The end of a run.                                                       *)

\* Mutant of Spared: a Hub whose roster was not finished is restarted all the same.
Spared_Always == Step \in {"read", "rows"}

\* Nothing was written to the Hub yet: it is restarted whatever the run came to.
Spared == Step = "read"

\* A step that fails, or the run is interrupted in it: a file may be half written.
Fail ==
    /\ Step \notin {"idle", "start"}
    /\ steps' = <<"start">>
    /\ finished' = IF Spared THEN finished \cup {port} ELSE finished
    /\ \/ UNCHANGED <<silent, contents>>
       \/ /\ Asked(Step) /\ Step \in Files
          /\ files' = [files EXCEPT ![Here][Step] = None]
          /\ UNCHANGED <<silent, key, rf, rows>>
       \/ /\ Asked(Step) /\ Step \in {"Nodes.json", "rows"}
          /\ files' = [files EXCEPT ![Here]["Nodes.json"] = None] /\ rows' = <<>>
          /\ UNCHANGED <<silent, key, rf>>
       \/ /\ Asked("flash")
          /\ silent' = silent \cup {Here}
          /\ Erased(Here) \/ UNCHANGED contents
    /\ UNCHANGED <<path, running, fleet, at, port, expected, tool, made, settled>>

\* verify_pair.
Verify ==
    /\ Step = "verify"
    /\ steps' = Tail(steps) /\ ok' \in BOOLEAN
    /\ UNCHANGED <<desk, contents, running, fleet, hand, plan, ports, roster, run, sound, made,
                   settled>>

\* start_programs and restart_the_rest: boards finished, and those never reached.
Startable == finished \cup {ports[b] : b \in Boards \ Reached}

Start ==
    /\ Step = "start" /\ steps' = <<>>
    /\ \E took \in SUBSET {b \in Boards \ silent : path[b] # None /\ path[b] \in Startable} :
          running' = running \cup took
    /\ UNCHANGED <<desk, contents, fleet, hand, tool, made, settled>>

-----------------------------------------------------------------------------
Init ==
    /\ path = Usual /\ silent = {}
    /\ files = [b \in Boards |-> [f \in Stored |-> IF f \in Files THEN 0 ELSE None]]
    /\ key = [b \in Boards |-> None] /\ rf = [b \in Boards |-> Issued]
    /\ running = {} /\ rows = <<>>
    /\ registry = <<>> /\ backups = {}
    /\ plan = None /\ ports = Usual /\ at = 0 /\ steps = <<>> /\ port = None /\ expected = None
    /\ roster = None /\ finished = {} /\ ok = FALSE
    /\ run = 0 /\ made = 0 /\ settled = 0 /\ sound = {}

Phase ==
    \/ Probe \/ BackUp \/ FlashIt \/ WaitForBoard \/ EnsureKey \/ Register
    \/ NoChange("library") \/ NoChange("payload") \/ \E f \in Files : WriteFile(f)
    \/ WriteRoster \/ ReadRoster \/ ExtendRoster
Field ==
    \/ \E b \in Boards, p \in Ports : Returns(b, p)
    \/ \E i \in 1 .. Len(registry), c \in Rates : Settle(i, c)
Next ==
    \/ \E p \in Plans : \E away \in SUBSET (Boards \ ToSet(Order(p))) : BeginRun(p, away)
    \/ Phase \/ Fail \/ Verify \/ Start \/ Field

Spec == Init /\ [][Next]_vars

-----------------------------------------------------------------------------
\* No key is ever lost: it is on its board, or it was backed up.
KeysKept == \A k \in 1 .. made : k \in backups \/ \E b \in Boards : key[b] = k

\* A run never starts a board it left half written.
StartsWhole == [][Start => \A b \in sound \cap (running' \ running) : Whole(b)]_vars

\* Nor does it start one another run left half written.
NeverStartsHalf == [][Start => \A b \in running' \ running : Whole(b)]_vars

Others == SelectSeq(rows, LAMBDA r : r.name \notin Names(plan))

\* A run that ends well leaves a roster with one row for each of its Edges, of
\* the key and the radio configuration the board has; and extending a deployment
\* leaves every other row as the Hub had it.
RosterTells ==
    [][/\ Start /\ ok =>
            \A e \in ToSet(plan.edges) :
                /\ NameOf[e] \in {rows[i].name : i \in DOMAIN rows}
                /\ \A i \in DOMAIN rows : rows[i].name = NameOf[e] =>
                       rows[i] = [name |-> NameOf[e], key |-> key[e], rf |-> rf[e]]
       /\ ExtendRoster => Others' = Others]_vars
=============================================================================
