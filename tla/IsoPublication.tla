--------------------------- MODULE IsoPublication ---------------------------
(***************************************************************************)
(* One release's ISO on its way to users: release-iso.yml composes it and  *)
(* attaches it in parts to the GitHub release, publish-sourceforge.yml     *)
(* reassembles it (assemble_release_iso.py) and uploads it to SourceForge, *)
(* finalize_iso_release.py puts the link in the release notes and deletes  *)
(* the parts.  Jobs stop anywhere and are dispatched again by hand; the    *)
(* maintainer edits the same release.                                      *)
(*                                                                         *)
(* A file is known by the build it comes from.  BUILD-INFO.txt shares the  *)
(* fate of the audit log.                                                  *)
(***************************************************************************)
EXTENDS FiniteSets, Naturals

CONSTANTS
    Parts,       \* the names of the ISO's parts
    Builds,      \* ISOs that runs of release-iso.yml compose; no two are equal
    Prebuilt,    \* the hardware-tested ISO a maintainer published by hand
    Damaged,     \* content that no checksum matches
    None,        \* no such file
    MaxFaults    \* bound on jobs that fail or are cut off, and damaged uploads

ASSUME PublicationAssumption ==
    /\ MaxFaults \in Nat
    /\ {"isosum", "sums", "audit"} \cap Parts = {}
    /\ Builds \cap {Prebuilt, Damaged, None} = {}
    /\ Cardinality({Prebuilt, Damaged, None}) = 3

VARIABLES
    asset,       \* GitHub release assets
    link,        \* the notes carry the SourceForge link
    marker,      \* the notes carry azurefin:prebuilt-tested-iso
    used,        \* builds composed so far
    building,    \* the build of the current run of release-iso.yml
    iso, todo,   \* release-iso.yml: control state, assets still to upload
    pub,         \* publish-sourceforge.yml: control state
    copy,        \* the build it has reassembled
    remove, body,\* the assets it will delete and the marker it has read
    dir,         \* the release directory exists on SourceForge
    stored,      \* its files on the upload host
    public,      \* its files as the download servers have them
    compared,    \* history: the upload step of a publisher run succeeded
    complete,    \* history: builds whose assets were all published
    faults

github == <<asset, link, marker>>
isoJob == <<used, building, iso, todo>>
pubJob == <<pub, copy, remove, body>>
mirror == <<dir, stored, public>>
history == <<compared, complete>>
vars == <<github, isoJob, pubJob, mirror, history, faults>>

Names == Parts \cup {"isosum", "sums", "audit"}
Content == Builds \cup {Prebuilt, Damaged, None}
NoFiles == [iso |-> None, isosum |-> None]
FilesOf(b) == [iso |-> b, isosum |-> b]

(* A release that the workflows are to fill, or one published by hand.     *)
Init ==
    /\ \/ /\ asset = [n \in Names |-> None] /\ link = FALSE /\ marker = FALSE
          /\ dir = FALSE /\ stored = NoFiles /\ public = NoFiles
          /\ compared = FALSE /\ complete = {}
       \/ /\ asset = [n \in Names |-> IF n = "isosum" THEN Prebuilt ELSE None]
          /\ link = TRUE /\ marker = TRUE
          /\ dir = TRUE /\ stored = FilesOf(Prebuilt) /\ public = FilesOf(Prebuilt)
          /\ compared = TRUE /\ complete = {Prebuilt}
    /\ used = {} /\ building = None /\ iso = "idle" /\ todo = {}
    /\ pub = "idle" /\ copy = None /\ remove = {} /\ body = FALSE
    /\ faults = 0

Fault == faults < MaxFaults /\ faults' = faults + 1

----------------------------------------------------------------------------
(* release-iso.yml.  Its concurrency group admits one run per release, the *)
(* publisher it calls included.                                            *)

(* The policy job, then the composition: a marked release is not built.    *)
Compose(b) ==
    /\ iso = "idle" /\ b \notin used /\ ~marker
    /\ iso' = "composed" /\ used' = used \cup {b} /\ building' = b
    /\ UNCHANGED <<github, todo, pubJob, mirror, history, faults>>

StartUpload_Clobber ==
    /\ iso = "composed"
    /\ iso' = "upload" /\ todo' = Names
    /\ UNCHANGED <<github, used, building, pubJob, mirror, history, faults>>

(* gh release upload without --clobber refuses all when one name is taken. *)
StartUpload ==
    /\ iso = "composed"
    /\ \/ /\ \A n \in Names : asset[n] = None
          /\ iso' = "upload" /\ todo' = Names
       \/ /\ \E n \in Names : asset[n] # None
          /\ iso' = "idle" /\ UNCHANGED todo
    /\ UNCHANGED <<github, used, building, pubJob, mirror, history, faults>>

UploadAsset(n) ==
    /\ iso = "upload" /\ n \in todo
    /\ asset' = [asset EXCEPT ![n] = building] /\ todo' = todo \ {n}
    /\ complete' = IF todo' = {} THEN complete \cup {building} ELSE complete
    /\ UNCHANGED <<link, marker, used, building, iso, pubJob, mirror, compared, faults>>

(* The sourceforge job is called, unless no project is configured.         *)
AssetsPublished ==
    /\ iso = "upload" /\ todo = {}
    /\ iso' \in {"call", "idle"}
    /\ UNCHANGED <<github, used, building, todo, pubJob, mirror, history, faults>>

IsoEnds ==
    /\ iso = "called" /\ pub = "idle"
    /\ iso' = "idle"
    /\ UNCHANGED <<github, used, building, todo, pubJob, mirror, history, faults>>

IsoFails ==
    /\ iso \in {"composed", "upload"} /\ Fault
    /\ iso' = "idle" /\ todo' = {}
    /\ UNCHANGED <<github, used, building, pubJob, mirror, history>>

----------------------------------------------------------------------------
(* publish-sourceforge.yml, one run per release at a time.                 *)

Step(label) == pub' = label /\ UNCHANGED iso

(* A step that only looks.                                                 *)
Pass(label) ==
    Step(label) /\ UNCHANGED <<github, used, building, todo, copy, remove, body, mirror,
                               history, faults>>

(* Called by release-iso.yml, or dispatched by hand.                       *)
Publish ==
    /\ pub = "idle" /\ pub' = "assemble"
    /\ iso' \in {iso, IF iso = "call" THEN "called" ELSE iso}
    /\ UNCHANGED <<github, used, building, todo, copy, remove, body, mirror, history,
                   faults>>

(* finalize_only.  The workflow checks nothing before it; that an upload   *)
(* was compared is the rule for whoever dispatches it, an assumption about *)
(* the environment: "If upload succeeded but finalization failed, rerun the*)
(* publisher manually with finalize_only=true" (RELEASING.md), "Finalize an*)
(* already uploaded SourceForge release" (the input's description).        *)
FinalizeOnly ==
    /\ pub = "idle" /\ compared
    /\ Pass("read")

(* gh release download and assemble: every chunk, the chunk list, the      *)
(* audit log and the whole-ISO checksum have to be there and agree.        *)
Assemble ==
    /\ pub = "assemble"
    /\ \/ \E b \in Builds :
            (\A n \in Names : asset[n] = b) /\ copy' = b /\ Step("mkdir")
       \/ /\ ~ \E b \in Builds : \A n \in Names : asset[n] = b
          /\ UNCHANGED copy /\ Step("idle")
    /\ UNCHANGED <<github, used, building, todo, remove, body, mirror, history, faults>>

(* sftp mkdir fails when the release directory exists.                     *)
Mkdir ==
    /\ pub = "mkdir"
    /\ dir' = TRUE /\ Step(IF dir THEN "idle" ELSE "send")
    /\ UNCHANGED <<github, used, building, todo, copy, remove, body, stored, public, history,
                   faults>>

(* rsync renames each file into place when its transfer has ended.         *)
Send(f) ==
    /\ pub = "send" /\ stored[f] # copy
    /\ \/ stored' = [stored EXCEPT ![f] = copy] /\ UNCHANGED faults /\ Step("send")
       \/ stored' = [stored EXCEPT ![f] = Damaged] /\ Fault /\ Step("compare")
    /\ UNCHANGED <<github, used, building, todo, copy, remove, body, dir, public, history>>

Sent ==
    /\ pub = "send" /\ stored = FilesOf(copy)
    /\ Pass("compare")

Compare_Skipped ==
    /\ pub = "compare"
    /\ compared' = TRUE /\ Step("read")
    /\ UNCHANGED <<github, used, building, todo, copy, remove, body, mirror, complete,
                   faults>>

(* rsync -rcni against the reassembled files.                              *)
Compare ==
    /\ pub = "compare"
    /\ compared' = (compared \/ stored = FilesOf(copy))
    /\ Step(IF stored = FilesOf(copy) THEN "read" ELSE "idle")
    /\ UNCHANGED <<github, used, building, todo, copy, remove, body, mirror, complete,
                   faults>>

ReadRelease_AllNames ==
    /\ pub = "read"
    /\ remove' = Names \ {"isosum"} /\ body' = marker
    /\ Step(IF asset["isosum"] # None THEN "check" ELSE "idle")
    /\ UNCHANGED <<github, used, building, todo, copy, mirror, history, faults>>

ReadRelease_NeedsParts ==
    /\ pub = "read"
    /\ remove' = {n \in Names \ {"isosum"} : asset[n] # None} /\ body' = marker
    /\ Step(IF \A n \in Names : asset[n] # None THEN "check" ELSE "idle")
    /\ UNCHANGED <<github, used, building, todo, copy, mirror, history, faults>>

(* main of finalize_iso_release.py: the release as it is now.              *)
ReadRelease ==
    /\ pub = "read"
    /\ remove' = {n \in Names \ {"isosum"} : asset[n] # None} /\ body' = marker
    /\ Step(IF asset["isosum"] # None THEN "check" ELSE "idle")
    /\ UNCHANGED <<github, used, building, todo, copy, mirror, history, faults>>

CheckMirror_NoDownload ==
    /\ pub = "check"
    /\ Pass(IF public.isosum = asset["isosum"] THEN "edit" ELSE "idle")

(* The mirrored checksum equals GitHub's and the ISO's download responds;  *)
(* what the download would contain is not looked at.                       *)
CheckMirror ==
    /\ pub = "check"
    /\ Pass(IF public.isosum = asset["isosum"] /\ public.iso # None THEN "edit" ELSE "idle")

EditNotes ==
    /\ pub = "edit"
    /\ link' = TRUE /\ marker' = body /\ Step("delete")
    /\ UNCHANGED <<asset, used, building, todo, copy, remove, body, mirror, history, faults>>

DeleteAsset(n) ==
    /\ pub = "delete" /\ n \in remove
    /\ asset' = [asset EXCEPT ![n] = None] /\ remove' = remove \ {n} /\ Step("delete")
    /\ UNCHANGED <<link, marker, used, building, todo, copy, body, mirror, history, faults>>

Finalized ==
    /\ pub = "delete" /\ remove = {}
    /\ Pass("idle")

(* A network error, a time limit or a cancelled run, at any step.          *)
PublishFails ==
    /\ pub # "idle" /\ Fault
    /\ remove' = {} /\ Step("idle")
    /\ UNCHANGED <<github, used, building, todo, copy, body, mirror, history>>

PublishStep ==
    \/ Assemble \/ Mkdir \/ (\E f \in {"iso", "isosum"} : Send(f)) \/ Sent \/ Compare
    \/ ReadRelease \/ CheckMirror \/ EditNotes \/ (\E n \in Names : DeleteAsset(n))
    \/ Finalized

----------------------------------------------------------------------------
(* SourceForge and the maintainer: external.                               *)

(* "Mirrors may take time to make new files available."                    *)
Propagate(f) ==
    /\ public[f] # stored[f]
    /\ public' = [public EXCEPT ![f] = stored[f]]
    /\ UNCHANGED <<github, isoJob, pubJob, dir, stored, history, faults>>

(* After a transfer that failed partway the maintainer inspects and removes*)
(* the directory; assets that never became complete are removed likewise.  *)
ClearDirectory ==
    /\ pub = "idle" /\ dir /\ ~compared
    /\ dir' = FALSE /\ stored' = NoFiles
    /\ UNCHANGED <<github, isoJob, pubJob, public, history, faults>>

ClearAssets ==
    /\ iso = "idle" /\ pub = "idle" /\ complete = {}
    /\ \E n \in Names : asset[n] # None
    /\ asset' = [n \in Names |-> None]
    /\ UNCHANGED <<link, marker, isoJob, pubJob, mirror, history, faults>>

(* The uploaded ISO passed its test on hardware.                           *)
MarkTested ==
    /\ compared /\ ~marker
    /\ marker' = TRUE
    /\ UNCHANGED <<asset, link, isoJob, pubJob, mirror, history, faults>>

Next ==
    \/ \E b \in Builds : Compose(b)
    \/ StartUpload \/ (\E n \in Names : UploadAsset(n)) \/ AssetsPublished
    \/ IsoEnds \/ IsoFails
    \/ Publish \/ FinalizeOnly \/ PublishStep \/ PublishFails
    \/ \E f \in {"iso", "isosum"} : Propagate(f)
    \/ ClearDirectory \/ ClearAssets \/ MarkTested

Spec == Init /\ [][Next]_vars

(* A job that runs gets on, the download servers catch up, and after a     *)
(* successful upload the maintainer comes back to the documented rerun.    *)
FairSpec ==
    /\ Spec
    /\ WF_vars(PublishStep) /\ SF_vars(FinalizeOnly)
    /\ \A f \in {"iso", "isosum"} : WF_vars(Propagate(f))

----------------------------------------------------------------------------
(* Every variable has its type, and no run is about to delete an asset that*)
(* is not there, which would end it (removable_assets).                    *)
TypeOK ==
    /\ asset \in [Names -> Content \ {Damaged}]
    /\ {link, marker, body, dir, compared} \subseteq BOOLEAN
    /\ used \subseteq Builds /\ building \in Builds \cup {None}
    /\ iso \in {"idle", "composed", "upload", "call", "called"} /\ todo \subseteq Names
    /\ pub \in {"idle", "assemble", "mkdir", "send", "compare", "read", "check", "edit",
                "delete"}
    /\ copy \in Builds \cup {None}
    /\ remove \subseteq {n \in Names \ {"isosum"} : asset[n] # None}
    /\ {stored, public} \subseteq [iso : Content, isosum : Content]
    /\ complete \subseteq Builds \cup {Prebuilt}
    /\ faults \in 0..MaxFaults

(* An ISO that was published is never lost: all its parts are on GitHub or *)
(* the whole of it is on SourceForge, however often jobs fail and are      *)
(* dispatched again ("Publish the full-ISO link before removing temporary  *)
(* GitHub transport assets").                                              *)
PublishedIsoIsHeld ==
    \A b \in complete :
        \/ \A n \in Names : asset[n] = b
        \/ stored.iso = b

(* Under the link in the notes SourceForge holds the ISO whose checksum is *)
(* attached to the release, and its download servers serve a file with the *)
(* same checksum beside it (finalize_iso_release.main).                    *)
LinkLeadsToIso ==
    link => /\ stored = FilesOf(asset["isosum"])
            /\ public.isosum = asset["isosum"] /\ public.iso # None

(* "No published release may be silently replaced, even on a rerun": the   *)
(* ISO of a linked release stays, and so does its attached checksum.       *)
NothingReplaced ==
    [][/\ link => stored' = stored
       /\ complete # {} => asset'["isosum"] = asset["isosum"]]_vars

(* Finalization can always be completed: the transport assets of an        *)
(* uploaded release go in the end, wherever earlier runs stopped.          *)
TransportIsRemoved ==
    compared ~> \A n \in Names \ {"isosum"} : asset[n] = None

(* "Existing prebuilt-release markers are preserved" (RELEASING.md): no    *)
(* finalization takes the hardware-tested marker off a release.            *)
MarkerIsKept == [][marker => marker']_vars
============================================================================
