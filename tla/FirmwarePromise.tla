-------------------------- MODULE FirmwarePromise --------------------------
(***************************************************************************)
(* What the firmware store promises the rest of the system, whatever is    *)
(* killed or cut off on the way: a bundle becomes durable once and for     *)
(* all, only then can the machine be opted into the loader, and only an    *)
(* opted-in boot exposes firmware to the kernel.                           *)
(***************************************************************************)
VARIABLES published,  \* a whole bundle survives a power loss
          optedIn,    \* so does the azurefin.boot_uuid argument
          exposed     \* verified firmware is visible to the running kernel

vars == <<published, optedIn, exposed>>

Init == published = FALSE /\ optedIn = FALSE /\ exposed = FALSE

Publish == ~published /\ published' = TRUE /\ UNCHANGED <<optedIn, exposed>>

OptIn == published /\ ~optedIn /\ optedIn' = TRUE /\ UNCHANGED <<published, exposed>>

Expose == optedIn /\ ~exposed /\ exposed' = TRUE /\ UNCHANGED <<published, optedIn>>

Restart == exposed /\ exposed' = FALSE /\ UNCHANGED <<published, optedIn>>

Next == Publish \/ OptIn \/ Expose \/ Restart

Spec == Init /\ [][Next]_vars
============================================================================
