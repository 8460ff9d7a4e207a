--------------------------- MODULE SnapshotStore ---------------------------
(***************************************************************************)
(* What the persistent XMPP store promises its users, without sectors,     *)
(* headers or checksums.                                                   *)
(*                                                                         *)
(* While the server is up it works on the current stores.  The disk holds  *)
(* the image of one past checkpoint, which is intact or not.  A restart    *)
(* gives back that whole image, and only when it is intact, or else empty  *)
(* stores: never a mixture of two images, and never stores that were not   *)
(* current at a checkpoint.                                                *)
(***************************************************************************)
CONSTANTS Stores,     \* the contents the stores can have, taken together
          EmptyStores \* what they hold after a fresh start

VARIABLES up,       \* the server runs; FALSE from a power cut to the end of the load
          current,  \* the stores in memory
          image,    \* the stores at the last checkpoint
          safe,     \* the image that no power cut can take back
          intact    \* the image can be read back

svars == <<up, current, image, safe, intact>>

(* The machine is switched on with a disk that was never written. *)
SnapInit ==
    /\ up = FALSE
    /\ current = EmptyStores
    /\ image = EmptyStores
    /\ safe = EmptyStores
    /\ intact = FALSE

(* The server changes its stores. *)
Change ==
    /\ up
    /\ current' \in Stores
    /\ UNCHANGED <<up, image, safe, intact>>

(* Writing the stores spoils the image, or completes it again. *)
Disturb ==
    /\ up
    /\ intact' \in BOOLEAN
    /\ UNCHANGED <<up, current, image, safe>>

(* The current stores become the image. *)
Checkpoint ==
    /\ up
    /\ image' = current
    /\ intact' \in BOOLEAN
    /\ UNCHANGED <<up, current, safe>>

(* The drive empties its cache. *)
Sync ==
    /\ up
    /\ safe' = image
    /\ UNCHANGED <<up, current, image, intact>>

(* Memory is lost; the last image or the safe one is on the disk. *)
PowerCut ==
    /\ up' = FALSE
    /\ current' = EmptyStores
    /\ image' \in {image, safe}
    /\ safe' = image'
    /\ intact' \in BOOLEAN

(* The boot gives the image back as a whole ... *)
Restore ==
    /\ ~up
    /\ intact
    /\ up' = TRUE
    /\ current' = image
    /\ UNCHANGED <<image, safe, intact>>

(* ... or starts with empty stores. *)
Reset ==
    /\ ~up
    /\ up' = TRUE
    /\ current' = EmptyStores
    /\ UNCHANGED <<image, safe, intact>>

SnapNext ==
    \/ Change
    \/ Disturb
    \/ Checkpoint
    \/ Sync
    \/ PowerCut
    \/ Restore
    \/ Reset

SnapSpec == SnapInit /\ [][SnapNext]_svars
============================================================================
