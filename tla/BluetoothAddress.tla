-------------------------- MODULE BluetoothAddress --------------------------
(***************************************************************************)
(* azurefin-setup-bluetooth and the Bluetooth step of firmware setup       *)
(* (bluetooth_address.py): load the storage module read-only unless it is  *)
(* there, read the factory address, unload the module, store the address.  *)
(*                                                                         *)
(* One tool runs at a time: both take firmware-store.lock (FirmwareStore). *)
(* Others do not: an administrator loads and unloads the module, opens the *)
(* device, or writes the address with azurefin-extract-firmware.           *)
(***************************************************************************)
EXTENDS FactoryRecord

VARIABLES
    pc, mode,   \* control state of the tool; "auto", "only" or "manual"
    owned,      \* detect's test: the module was not there
    module,     \* "absent", or present and probed as "rom" or "rw"
    held,       \* somebody else has the device open
    config,     \* /etc/romulus-bluetooth-address: an address or None
    selected,   \* the address to store
    before,     \* whether the module was present at the start, history
    events      \* what befell the run, history: others touched the "module" or
                \* the "address", modprobe -r failed ("unload"), it was "killed"

toolVars == <<pc, mode, owned, selected, before>>
vars == <<readerVars, toolVars, module, held, config, events>>

Init ==
    /\ Closed
    /\ pc = "idle" /\ mode = "auto" /\ owned = FALSE /\ selected = None
    /\ module = "absent" /\ held = FALSE /\ config \in Addresses \cup {None}
    /\ before = FALSE /\ events = {}

Present == module # "absent"

----------------------------------------------------------------------------
(* configure and main.  An existing address ends an automatic run at once, *)
(* --skip-bluetooth any run.                                               *)

Start(m) ==
    /\ pc = "idle" /\ mode' = m
    /\ m = "auto" => config = None
    /\ IF m = "manual" THEN pc' = "save" /\ selected' \in Addresses
                       ELSE pc' = "test" /\ selected' = None
    /\ before' = Present /\ events' = {} /\ owned' = FALSE
    /\ UNCHANGED <<readerVars, module, held, config>>

\* detect: the device check, then whose module this is.
Test ==
    /\ pc = "test"
    /\ \/ pc' = "idle" /\ UNCHANGED owned
       \/ owned' = ~Present /\ pc' = IF owned' THEN "load" ELSE "probe"
    /\ UNCHANGED <<readerVars, mode, selected, before, module, held, config, events>>

\* modprobe is content with a module that is there; a failure or timeout may
\* come before or after the module does.
Load ==
    /\ pc = "load"
    /\ \/ pc' = "probe" /\ module' = IF Present THEN module ELSE "rom"
       \/ pc' = "unload" /\ module' \in {module, IF Present THEN module ELSE "rom"}
    /\ UNCHANGED <<readerVars, mode, owned, selected, before, held, config, events>>

\* One MTD of the right name, with the type and the flags of a ROM.
Probe ==
    /\ pc = "probe"
    /\ pc' = IF module = "rom" THEN "open" ELSE "unload"
    /\ UNCHANGED <<readerVars, mode, owned, selected, before, module, held, config, events>>

\* The node may have gone, or be another by now.
Open ==
    /\ pc = "open"
    /\ \/ Present /\ pc' = "read" /\ OpenReader
       \/ pc' = "unload" /\ UNCHANGED readerVars
    /\ UNCHANGED <<mode, owned, selected, before, module, held, config, events>>

Read ==
    /\ pc = "read" /\ ReadStep
    /\ UNCHANGED <<toolVars, module, held, config, events>>

CloseDevice_OnSuccess ==
    /\ pc = "read" /\ IF reading = "done" THEN Close ELSE UNCHANGED readerVars
    /\ pc' = "unload" /\ selected' = IF reading = "done" THEN values["DPP"] ELSE None
    /\ UNCHANGED <<mode, owned, before, module, held, config, events>>

\* os.close, after an address or after any ValueError or OSError.
CloseDevice ==
    /\ pc = "read" /\ Close
    /\ pc' = "unload" /\ selected' = IF reading = "done" THEN values["DPP"] ELSE None
    /\ UNCHANGED <<mode, owned, before, module, held, config, events>>

After(address) == IF mode = "auto" /\ address # None THEN "save" ELSE "idle"

Unload_OnSuccess ==
    /\ pc = "unload" /\ pc' = After(selected) /\ UNCHANGED selected
    /\ IF owned /\ Present /\ selected # None THEN ~held /\ module' = "absent"
                                              ELSE UNCHANGED module
    /\ UNCHANGED <<readerVars, mode, owned, before, held, config, events>>

Unload_KeepsResult ==
    /\ pc = "unload" /\ pc' = After(selected) /\ UNCHANGED selected
    /\ IF ~(owned /\ Present)
       THEN UNCHANGED <<module, events>>
       ELSE \/ ~held /\ module' = "absent" /\ UNCHANGED events
            \/ UNCHANGED module /\ events' = events \cup {"unload"}
    /\ UNCHANGED <<readerVars, mode, owned, before, held, config>>

\* The finally block.  A modprobe -r that fails or runs into its timeout, with
\* the module in use or not, gone or not, replaces the result by its exception.
Unload ==
    /\ pc = "unload"
    /\ IF ~(owned /\ Present)
       THEN UNCHANGED <<module, selected, events>>
       ELSE \/ ~held /\ module' = "absent" /\ UNCHANGED <<selected, events>>
            \/ /\ module' = module \/ (~held /\ module' = "absent")
               /\ selected' = None /\ events' = events \cup {"unload"}
    /\ pc' = After(selected')
    /\ UNCHANGED <<readerVars, mode, owned, before, held, config>>

\* azurefin-extract-firmware --bluetooth-address: external, and may fail.
Save ==
    /\ pc = "save" /\ pc' = "idle"
    /\ config' \in {config, selected}
    /\ UNCHANGED <<readerVars, mode, owned, selected, before, module, held, events>>

\* Nothing unloads the module for a tool that is killed.  The command that
\* saves goes on without it; if that ends later still, it is a WriteByHand.
Kill ==
    /\ pc # "idle" /\ pc' = "idle" /\ Close
    /\ config' \in IF pc = "save" THEN {config, selected} ELSE {config}
    /\ events' = events \cup {"killed"}
    /\ UNCHANGED <<mode, owned, selected, before, module, held>>

Tool ==
    \/ \E m \in {"auto", "only", "manual"} : Start(m)
    \/ Test \/ Load \/ Probe \/ Open \/ Read \/ CloseDevice \/ Unload \/ Save \/ Kill

----------------------------------------------------------------------------
(* Everybody else: external.                                               *)

LoadByOthers ==
    /\ ~Present /\ module' \in {"rom", "rw"}
    /\ events' = events \cup {"module"}
    /\ UNCHANGED <<readerVars, toolVars, held, config>>

\* The module cannot go while its device is open.
UnloadByOthers ==
    /\ Present /\ ~held /\ pc # "read" /\ module' = "absent"
    /\ events' = events \cup {"module"}
    /\ UNCHANGED <<readerVars, toolVars, held, config>>

HoldDevice ==
    /\ (held \/ Present) /\ held' = ~held
    /\ UNCHANGED <<readerVars, toolVars, module, config, events>>

WriteByHand ==
    /\ config' \in Addresses \cup {None}
    /\ events' = events \cup {"address"}
    /\ UNCHANGED <<readerVars, toolVars, module, held>>

Others == LoadByOthers \/ UnloadByOthers \/ HoldDevice \/ WriteByHand

Next == Tool \/ Others

Spec == Init /\ [][Next]_vars

----------------------------------------------------------------------------
(* Every variable has its type, and the device is open only while its      *)
(* module is loaded.                                                       *)
TypeOK ==
    /\ ReaderType
    /\ pc \in {"idle", "test", "load", "probe", "open", "read", "unload", "save"}
    /\ mode \in {"auto", "only", "manual"}
    /\ {owned, held, before} \subseteq BOOLEAN
    /\ module \in {"absent", "rom", "rw"}
    /\ {config, selected} \subseteq Addresses \cup {None}
    /\ events \subseteq {"module", "address", "unload", "killed"}
    /\ reading # "off" <=> pc = "read"
    /\ pc = "read" \/ held => Present

(* "A module loaded by this command is unloaded afterward", and one that   *)
(* was loaded before stays: whatever else fails, a run leaves the module as*)
(* it found it, unless somebody loads or unloads it meanwhile, modprobe -r *)
(* fails or the tool is killed (detect).                                   *)
ModuleAsFound ==
    [][pc # "idle" /\ pc' = "idle" /\ events' \subseteq {"address"} => (module' # "absent") = before]_vars

(* "Existing configuration has not been changed", the tool says of every   *)
(* detection that fails, one that read an address and could not unload the *)
(* module included, and --detect-only never changes it.  A detection that  *)
(* succeeds replaces no address either, except one written by hand while it*)
(* ran, for which nobody looks again (configure, main).                    *)
AddressKept ==
    [][pc' # pc /\ config' # config /\ mode # "manual" =>
         /\ mode = "auto" /\ "unload" \notin events
         /\ config = None \/ "address" \in events]_vars
============================================================================
