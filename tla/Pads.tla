-------------------------------- MODULE Pads ---------------------------------
(***************************************************************************)
(* Which input devices are watched (src/gamepad/mod.rs, scan.rs, watch.rs) *)
(* while they are plugged in and out, udev makes them readable a little    *)
(* after they appear, and the [gamepad] section is edited.                 *)
(*                                                                         *)
(* What a watched device says is in Pad.  Here only that a descriptor      *)
(* whose device was unplugged fails when it is read.                       *)
(*                                                                         *)
(* calloop waits, and then dispatches a batch of what was ready when the   *)
(* wait ended, descriptors first.  It matters to the timer alone: what was *)
(* ready before the wait ended is dealt with before the timer of that      *)
(* batch, and what becomes ready later not before the next batch.          *)
(***************************************************************************)
EXTENDS FiniteSets

CONSTANTS
    Devices,        \* everything that may be plugged in
    Nodes,          \* /dev/input/event*
    Links,          \* paths elsewhere, such as by-id symlinks
    LinkTo,         \* the device each stands for while it is plugged in
    Nobody,         \* no device
    CapsOf,         \* what each device says it can report
    Named,          \* for each pattern of allow or deny, the devices it matches
    Granted,        \* the devices udev makes readable, sooner or later, while the
                    \* session is active
    Boot, Reloads   \* the [gamepad] section at startup, and after it

Paths == Nodes \cup Links

Codes == {"ESC", "Q", "POWER", "LEFT", "TRIGGER", "SOUTH", "DPAD_UP"}

Caps == [has_key : BOOLEAN, has_rel : BOOLEAN, keys : SUBSET Codes]

\* [gamepad].  `feel` stands for deadzone and min_interval_ms, which like the
\* filters are baked into a device when it is opened.
Gamepad == [enable : BOOLEAN, allow : SUBSET DOMAIN Named, deny : SUBSET DOMAIN Named,
            devices : SUBSET Paths, feel : {"slow", "quick"}]

ASSUME DevicesAssumption ==
    /\ Nobody \notin Devices
    /\ Nodes \cap Links = {}
    /\ LinkTo \in [Links -> Devices]
    /\ CapsOf \in [Devices -> Caps]
    /\ Granted \subseteq Devices

ASSUME GamepadAssumption == {Boot} \cup Reloads \subseteq Gamepad

VARIABLES       \* the machine
    at,         \* the device behind each node
    readable    \* those present whose node the session may open

VARIABLES       \* Idle.config.gamepad and Idle.pads
    config,
    pads,       \* the open devices, each a source on the loop
    watching,   \* Pads.watch: the inotify watch on /dev/input
    settling,   \* Pads.settling: a rescan is due
    news,       \* the inotify descriptor is readable
    scanning    \* start has still to rescan; nothing else runs meanwhile

VARIABLES       \* calloop
    due,        \* the settling timer is in the batch under way
    draining,   \* ... and so is the watch, which has still to be drained
    found       \* ... and the descriptors of these pads, which have still to fail

VARIABLES       \* history
    late        \* paths whose pad died between such a wait and the draining, and that
                \* no rescan has looked at without it

machine == <<at, readable>>
sources == <<pads, watching, settling, news>>
batch == <<due, draining, found>>
vars == <<machine, config, sources, scanning, batch, late>>

\* `live` until the device is unplugged: from then on reading it fails.
PadType == [path : Paths, device : Devices, live : BOOLEAN, feel : {"slow", "quick"}]

TypeOK ==
    /\ at \in [Nodes -> Devices \cup {Nobody}]
    /\ readable \subseteq Devices
    /\ config \in {Boot} \cup Reloads
    /\ pads \subseteq PadType
    /\ watching \in BOOLEAN /\ settling \in BOOLEAN
    /\ news \in BOOLEAN /\ scanning \in BOOLEAN
    /\ due \in BOOLEAN /\ draining \in BOOLEAN /\ found \subseteq PadType
    /\ late \subseteq Paths

Present == {d \in Devices : \E n \in Nodes : at[n] = d}

Init ==
    /\ at \in [Nodes -> {Nobody}]
    /\ readable = {}
    /\ config = Boot
    /\ pads = {}
    /\ watching = FALSE /\ settling = FALSE /\ news = FALSE
    /\ scanning = Boot.enable
    /\ due = FALSE /\ draining = FALSE /\ found = {}
    /\ late = {}

-----------------------------------------------------------------------------
(* Which devices are controllers *)

\* scan::is_gamepad
IsGamepad(caps) ==
    /\ caps.has_key
    /\ caps.keys \cap {"SOUTH", "TRIGGER", "DPAD_UP"} # {}
    /\ ~({"ESC", "Q"} \subseteq caps.keys)
    /\ ~(caps.has_rel /\ "LEFT" \in caps.keys)

Matches(d, patterns) == \E p \in patterns : d \in Named[p]

\* scan::name_allowed
NameAllowed(c, d) ==
    /\ ~Matches(d, c.deny)
    /\ c.allow = {} \/ Matches(d, c.allow)

\* What open asks of a device it could open; a path the configuration names is
\* taken whatever the device is.
Admits(c, p, d) ==
    p \in c.devices \/ (IsGamepad(CapsOf[d]) /\ NameAllowed(c, d))

-----------------------------------------------------------------------------
(* Looking at /dev/input *)

Resolves(p) ==
    IF p \in Nodes THEN at[p]
    ELSE IF LinkTo[p] \in Present THEN LinkTo[p] ELSE Nobody

\* candidates: every node there is, and what the configuration names.
Candidates(c) == {p \in Nodes \cup c.devices : Resolves(p) # Nobody}

\* What a rescan would have watched.
Wanted(c) == {p \in Candidates(c) : Resolves(p) \in readable /\ Admits(c, p, Resolves(p))}

\* Mutation: a device that could not be opened again is forgotten too.
KeptReadable(known) == {k \in known : Resolves(k.path) \in readable}

\* The pads whose path still exists; the others are forgotten.
Kept(known) == {k \in known : Resolves(k.path) # Nobody}

\* Mutation: a device is never forgotten.
RescannedKeepingAll(c, known) ==
    IF ~c.enable THEN known
    ELSE known \cup {[path |-> p, device |-> Resolves(p), live |-> TRUE, feel |-> c.feel]
                       : p \in Wanted(c)}

\* rescan: a path already watched is left alone, whichever device it was
\* opened for; every other one wanted is opened and adopted.
Rescanned(c, known) ==
    IF ~c.enable THEN known
    ELSE Kept(known) \cup
         {[path |-> p, device |-> Resolves(p), live |-> TRUE, feel |-> c.feel]
            : p \in {q \in Wanted(c) : \A k \in Kept(known) : k.path # q}}

StillLate(known) == late \cap {k.path : k \in {j \in known : ~j.live}}

-----------------------------------------------------------------------------
(* The machine *)

\* A device appears, without its ACL: CREATE.
Plug(d, n) ==
    /\ d \notin Present
    /\ at[n] = Nobody
    /\ at' = [at EXCEPT ![n] = d]
    /\ news' = watching
    /\ UNCHANGED <<readable, config, pads, watching, settling, scanning, batch, late>>

\* Mutation: ATTRIB is not among the events watched for.
GrantUnwatched(d) ==
    /\ d \in (Present \cap Granted) \ readable
    /\ readable' = readable \cup {d}
    /\ UNCHANGED <<at, config, sources, scanning, batch, late>>

\* udev's setfacl: ATTRIB.
Grant(d) ==
    /\ d \in (Present \cap Granted) \ readable
    /\ readable' = readable \cup {d}
    /\ news' = watching
    /\ UNCHANGED <<at, config, pads, watching, settling, scanning, batch, late>>

\* The session goes inactive and the ACL is dropped: ATTRIB again.  A descriptor
\* already open keeps working.
Revoke(d) ==
    /\ d \in readable
    /\ readable' = readable \ {d}
    /\ news' = watching
    /\ UNCHANGED <<at, config, pads, watching, settling, scanning, batch, late>>

\* Its descriptors are dead at once, and its node is deleted: DELETE.
Unplug(d) ==
    /\ d \in Present
    /\ at' = [n \in Nodes |-> IF at[n] = d THEN Nobody ELSE at[n]]
    /\ readable' = readable \ {d}
    /\ pads' = {[k EXCEPT !.live = @ /\ k.device # d] : k \in pads}
    /\ news' = watching
    /\ late' = IF draining THEN late \cup {k.path : k \in {j \in pads : j.device = d}} ELSE late
    /\ UNCHANGED <<config, watching, settling, scanning, batch>>

-----------------------------------------------------------------------------
(* The loop *)

\* The first half of start, at startup or after a reload: a watch, if inotify
\* will have it.  The rescan after it cannot miss what comes between.
Watch ==
    /\ scanning /\ ~watching
    /\ watching' = TRUE
    /\ UNCHANGED <<machine, config, pads, settling, news, scanning, batch, late>>

\* ... and the second half, with or without the watch.
Scan ==
    /\ scanning
    /\ pads' = Rescanned(config, pads)
    /\ scanning' = FALSE
    /\ UNCHANGED <<machine, config, watching, settling, news, batch, late>>

\* Mutation: no second look.
WatchFiresOnce ==
    /\ ~scanning /\ news /\ (due => draining)
    /\ news' = FALSE /\ draining' = FALSE
    /\ pads' = Rescanned(config, pads)
    /\ found' = found \cap pads'
    /\ late' = StillLate(pads')
    /\ UNCHANGED <<machine, config, watching, settling, scanning, due>>

\* The watch is drained, a rescan covers whatever it said, and schedule_settle
\* sees to another, unless one is pending.
WatchFires ==
    /\ ~scanning /\ news /\ (due => draining)
    /\ news' = FALSE /\ draining' = FALSE
    /\ pads' = Rescanned(config, pads)
    /\ settling' = TRUE
    /\ found' = found \cap pads'
    /\ late' = StillLate(pads')
    /\ UNCHANGED <<machine, config, watching, scanning, due>>

\* A wait ends with the timer expired: its batch has whatever descriptors are
\* ready by now.
SettleDue ==
    /\ ~scanning /\ settling /\ ~due
    /\ due' = TRUE
    /\ draining' = news
    /\ found' = {k \in pads : ~k.live}
    /\ UNCHANGED <<machine, config, sources, scanning, late>>

\* The timer's turn, after the descriptors of its batch.
SettleFires ==
    /\ due /\ ~draining /\ found = {}
    /\ due' = FALSE
    /\ settling' = FALSE
    /\ pads' = Rescanned(config, pads)
    /\ late' = StillLate(pads')
    /\ UNCHANGED <<machine, config, watching, news, scanning, draining, found>>

\* A poll fails: every entry of that path goes.
PadFails(path) ==
    /\ ~scanning
    /\ \E k \in pads : k.path = path /\ ~k.live /\ (due => k \in found)
    /\ pads' = {k \in pads : k.path # path}
    /\ found' = found \cap pads'
    /\ UNCHANGED <<machine, config, watching, settling, news, scanning, due, draining, late>>

\* Mutation: start without stop.
ReloadOnTop(c) ==
    /\ ~scanning /\ c # config
    /\ config' = c
    /\ settling' = FALSE
    /\ scanning' = c.enable
    /\ due' = FALSE /\ draining' = FALSE /\ found' = {} /\ late' = {}
    /\ UNCHANGED <<machine, pads, watching, news>>

\* Idle::reload of a changed [gamepad]: restart, that is stop and start.  The
\* timer is taken off the loop, and out of the batch.
Reload(c) ==
    /\ ~scanning /\ c # config
    /\ config' = c
    /\ pads' = {}
    /\ watching' = FALSE /\ settling' = FALSE /\ news' = FALSE
    /\ scanning' = c.enable
    /\ due' = FALSE /\ draining' = FALSE /\ found' = {} /\ late' = {}
    /\ UNCHANGED machine

-----------------------------------------------------------------------------
Next ==
    \/ \E d \in Devices, n \in Nodes : Plug(d, n)
    \/ \E d \in Devices : Grant(d)
    \/ \E d \in Devices : Revoke(d)
    \/ \E d \in Devices : Unplug(d)
    \/ Watch
    \/ Scan
    \/ WatchFires
    \/ SettleDue
    \/ SettleFires
    \/ \E path \in Paths : PadFails(path)
    \/ \E c \in Reloads : Reload(c)

Spec == Init /\ [][Next]_vars

\* The loop runs; nobody has to plug anything in, and udev may take its time.
FairSpec ==
    /\ Spec
    /\ WF_vars(Scan)
    /\ WF_vars(WatchFires)
    /\ WF_vars(SettleDue)
    /\ WF_vars(SettleFires)
    /\ \A path \in Paths : WF_vars(PadFails(path))

-----------------------------------------------------------------------------
(* Properties *)

\* No path is open twice: the read callback, rescan and forget look a pad up
\* by its path, and would leave a second source on the loop for good.
OnePadPerPath ==
    \A j, k \in pads : j.path = k.path => j = k

\* What is watched is what the section in force asks for, as it asks for it,
\* after any number of reloads; disabled, nothing is, and nothing is pending
\* that could change that.
FiltersInForce ==
    /\ \A k \in pads :
        /\ config.enable
        /\ k.feel = config.feel
        /\ Admits(config, k.path, k.device)
    /\ ~config.enable => ~watching /\ ~settling

\* Each path that is watched is watched once, and as the section in force asks.
WatchedAsAsked == OnePadPerPath /\ FiltersInForce

\* The loop has nothing left to do about what the machine has done.
Quiet == ~scanning /\ ~news /\ ~settling /\ \A k \in pads : k.live

\* With hot-plug working and the loop up to date, every path wanted is watched,
\* and every path watched is for the device behind it now: no order of plugging,
\* renaming, ACLs and rescans leaves a controller out, or a path to a former
\* device.  A path already watched stays so without its ACL; and one is left out
\* whose former device died, and was replaced, after the loop woke to the watch
\* and the settling timer together and before it had drained the one.
QuietMeansWatched ==
    Quiet /\ watching =>
        /\ \A k \in pads : Resolves(k.path) = k.device
        /\ \A p \in Wanted(config) \ late : \E k \in pads : k.path = p

\* A device that works is never let go of while its section is in force, even if
\* a rescan or a failure next to it finds that it could not be opened again: a VT
\* switch takes its ACL, and nothing would reopen it before the switch back.
KeepsWhatWorks ==
    [][config' = config =>
         \A k \in pads : k.live => \E j \in pads' : j.path = k.path /\ j.device = k.device]_vars

\* A controller that stays where it is, readable and wanted, is watched in the
\* end, even while others come and go without pause, unless it is left out as
\* QuietMeansWatched says.
EventuallyWatched ==
    \A p \in Paths, d \in Devices :
        LET Stays == watching /\ p \in Wanted(config) \ late /\ Resolves(p) = d IN
        Stays ~> (~Stays \/ \E k \in pads : k.path = p /\ k.device = d /\ k.live)
=============================================================================
