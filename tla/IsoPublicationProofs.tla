------------------------ MODULE IsoPublicationProofs ------------------------
(***************************************************************************)
(* Proofs about IsoPublication for every set of parts and builds and every *)
(* number of faults.                                                       *)
(***************************************************************************)
EXTENDS IsoPublication, FiniteSetTheorems, TLAPS

(* release-iso.yml has a build from its composition on, and while assets   *)
(* are missing, only that build's are there and nothing was published.     *)
UploadInv ==
    /\ iso # "idle" => building \in Builds
    /\ iso = "upload" /\ todo # {} =>
         /\ complete = {}
         /\ \A n \in Names : asset[n] = IF n \in todo THEN None ELSE building

(* The published build is the one with its checksum attached, and whole as *)
(* long as its upload to SourceForge did not succeed.                      *)
CompleteInv ==
    /\ \A b \in complete : asset["isosum"] = b /\ (compared \/ \A n \in Names : asset[n] = b)
    /\ \A b \in Builds : (\A n \in Names : asset[n] = b) => b \in complete

(* What publish-sourceforge.yml relies on at each step: it uploads what is *)
(* whole on GitHub, and only what was never uploaded before; it finalizes  *)
(* only after an upload that succeeded.                                    *)
PublisherInv ==
    /\ pub \in {"mkdir", "send", "compare"} =>
         copy \in complete /\ \A n \in Names : asset[n] = copy
    /\ pub \in {"send", "compare"} => ~compared /\ dir
    /\ pub \in {"read", "check", "edit", "delete"} => compared
    /\ remove # {} => compared

Served == public.isosum = asset["isosum"] /\ public.iso # None

(* A successful upload leaves the ISO in the release directory, and the    *)
(* notes link it once the download servers have its checksum.              *)
MirrorInv ==
    /\ compared => dir /\ complete # {} /\ stored = FilesOf(asset["isosum"])
    /\ pub = "edit" => Served
    /\ link => compared /\ Served

PublicationInv == TypeOK /\ UploadInv /\ CompleteInv /\ PublisherInv /\ MirrorInv

----------------------------------------------------------------------------
(* No file, a damaged file and the hand-published ISO are told apart.      *)
LEMMA ContentsDiffer ==
    /\ Prebuilt # Damaged /\ Prebuilt # None /\ Damaged # None
    /\ None \notin Builds /\ Damaged \notin Builds /\ Prebuilt \notin Builds
<1>1. ASSUME NEW x, NEW y PROVE Cardinality({x, y}) <= 2 /\ {x, y, y} = {x, y}
  <2>1. IsFiniteSet({x}) /\ Cardinality({x}) = 1
    BY FS_Singleton
  <2>2. {x, y} = {x} \cup {y}
    OBVIOUS
  <2>3. QED
    BY <2>1, <2>2, FS_AddElement
<1>2. Cardinality({Prebuilt, Damaged, None}) = 3
  BY PublicationAssumption
<1>3. Prebuilt # Damaged
  <2>1. ASSUME Prebuilt = Damaged PROVE {Prebuilt, Damaged, None} = {Prebuilt, None}
    BY <2>1
  <2>2. QED
    BY <1>1, <1>2, <2>1
<1>4. Prebuilt # None
  <2>1. ASSUME Prebuilt = None PROVE {Prebuilt, Damaged, None} = {Prebuilt, Damaged}
    BY <2>1
  <2>2. QED
    BY <1>1, <1>2, <2>1
<1>5. Damaged # None
  <2>1. ASSUME Damaged = None PROVE {Prebuilt, Damaged, None} = {Prebuilt, None}
    BY <2>1
  <2>2. QED
    BY <1>1, <1>2, <2>1
<1>6. QED
  BY <1>3, <1>4, <1>5, PublicationAssumption

(* The checksum has a name of its own, and what was published is a file.   *)
LEMMA PublishedIsFile ==
    ASSUME PublicationInv
    PROVE  /\ "isosum" \in Names
           /\ \A b \in complete : b # None /\ b \in Content
           /\ compared => asset["isosum"] \in complete
  BY ContentsDiffer DEF PublicationInv, TypeOK, Names, Content, MirrorInv, CompleteInv

(* Both kinds of release at the start: one without assets, and one that    *)
(* was published by hand.                                                  *)
LEMMA InitEstablishesPublicationInv == Init => PublicationInv
<1> SUFFICES ASSUME Init PROVE PublicationInv
  OBVIOUS
<1>1. "isosum" \in Names
  BY DEF Names
<1>2. TypeOK
  <2>1. asset \in [Names -> Content \ {Damaged}]
    <3>1. {Prebuilt, None} \subseteq Content \ {Damaged}
      BY ContentsDiffer DEF Content
    <3>2. QED
      BY <3>1 DEF Init
  <2>2. NoFiles \in [iso : Content, isosum : Content]
        /\ FilesOf(Prebuilt) \in [iso : Content, isosum : Content]
    BY DEF NoFiles, FilesOf, Content
  <2>3. {link, marker, body, dir, compared} \subseteq BOOLEAN
    BY DEF Init
  <2>4. {stored, public} \subseteq [iso : Content, isosum : Content]
        /\ complete \subseteq Builds \cup {Prebuilt} /\ faults \in 0..MaxFaults
    BY <2>2, PublicationAssumption DEF Init
  <2>5. QED
    BY <2>1, <2>3, <2>4 DEF Init, TypeOK
<1>3. CompleteInv
  BY <1>1, ContentsDiffer DEF Init, CompleteInv
<1>4. MirrorInv
  BY <1>1, ContentsDiffer DEF Init, MirrorInv, Served, FilesOf
<1>5. UploadInv /\ PublisherInv
  BY DEF Init, UploadInv, PublisherInv
<1>6. QED
  BY <1>2, <1>3, <1>4, <1>5 DEF PublicationInv

----------------------------------------------------------------------------
(* release-iso.yml.                                                        *)

(* A composition attaches nothing yet.                                     *)
LEMMA ComposeKeepsPublicationInv ==
    ASSUME PublicationInv, NEW b \in Builds, Compose(b)
    PROVE  PublicationInv'
<1> USE DEF PublicationInv, Compose, github, isoJob, pubJob, mirror, history
<1>1. TypeOK'
  BY DEF TypeOK
<1>2. UploadInv'
  BY DEF UploadInv, TypeOK
<1>3. CompleteInv'
  BY DEF CompleteInv, UploadInv, TypeOK
<1>4. PublisherInv'
  BY DEF PublisherInv, CompleteInv, MirrorInv, TypeOK
<1>5. MirrorInv'
  BY DEF MirrorInv, Served, PublisherInv, CompleteInv, TypeOK
<1>6. QED
  BY <1>1, <1>2, <1>3, <1>4, <1>5

(* The upload starts on a release without assets, so that nothing was      *)
(* published there.                                                        *)
LEMMA StartUploadKeepsPublicationInv ==
    ASSUME PublicationInv, StartUpload
    PROVE  PublicationInv'
<1> USE DEF PublicationInv, StartUpload, github, isoJob, pubJob, mirror, history
<1>1. TypeOK'
  BY PublishedIsFile DEF TypeOK
<1>2. UploadInv'
  <2>1. (\A n \in Names : asset[n] = None) => complete = {}
    BY PublishedIsFile DEF CompleteInv
  <2>2. QED
    BY <2>1 DEF UploadInv, TypeOK
<1>3. CompleteInv'
  BY PublishedIsFile DEF CompleteInv, UploadInv, TypeOK
<1>4. PublisherInv'
  BY PublishedIsFile DEF PublisherInv, CompleteInv, MirrorInv, TypeOK
<1>5. MirrorInv'
  BY PublishedIsFile DEF MirrorInv, Served, PublisherInv, CompleteInv, TypeOK
<1>6. QED
  BY <1>1, <1>2, <1>3, <1>4, <1>5

(* The last asset makes the build complete.                                *)
LEMMA UploadAssetKeepsPublicationInv ==
    ASSUME PublicationInv, NEW n \in Names, UploadAsset(n)
    PROVE  PublicationInv'
<1> USE DEF PublicationInv, UploadAsset, isoJob, pubJob, mirror, history
<1>1. /\ building \in Builds /\ building # None /\ building # Damaged /\ building \in Content
      /\ complete = {} /\ complete' \in {{}, {building}}
      /\ \A m \in Names : asset[m] = IF m \in todo THEN None ELSE building
  BY ContentsDiffer DEF UploadInv, Content
<1>2. asset' \in [Names -> Content \ {Damaged}]
      /\ \A m \in Names : asset'[m] = IF m = n THEN building ELSE asset[m]
  BY <1>1 DEF TypeOK
<1>3. UNCHANGED <<link, marker, used, building, iso, pub, copy, remove, body, dir, stored,
                  public, compared, faults>>
      /\ ~compared /\ ~link /\ remove = {} /\ pub \in {"idle", "assemble"}
  BY <1>1 DEF MirrorInv, PublisherInv, TypeOK
<1>4. TypeOK'
  BY <1>1, <1>2, <1>3 DEF TypeOK
<1>5. UploadInv'
  BY <1>1, <1>2 DEF UploadInv
<1>6. CompleteInv'
  <2>1. complete' = {building} => todo' = {}
    BY <1>1
  <2>2. todo' = {} => \A m \in Names : asset'[m] = building
    BY <1>1, <1>2
  <2>3. todo' # {} => \E m \in Names : asset'[m] = None
    BY <1>1, <1>2 DEF TypeOK
  <2>4. "isosum" \in Names
    BY DEF Names
  <2>5. QED
    BY <1>1, <2>1, <2>2, <2>3, <2>4, ContentsDiffer DEF CompleteInv
<1>7. PublisherInv' /\ MirrorInv'
  BY <1>3 DEF PublisherInv, MirrorInv
<1>8. QED
  BY <1>4, <1>5, <1>6, <1>7

(* The upload has ended with every asset attached.                         *)
LEMMA AssetsPublishedKeepsPublicationInv ==
    ASSUME PublicationInv, AssetsPublished
    PROVE  PublicationInv'
<1> USE DEF PublicationInv, AssetsPublished, github, isoJob, pubJob, mirror, history
<1>1. TypeOK'
  BY DEF TypeOK
<1>2. UploadInv'
  BY DEF UploadInv, TypeOK
<1>3. CompleteInv'
  BY DEF CompleteInv, UploadInv, TypeOK
<1>4. PublisherInv'
  BY DEF PublisherInv, CompleteInv, MirrorInv, TypeOK
<1>5. MirrorInv'
  BY DEF MirrorInv, Served, PublisherInv, CompleteInv, TypeOK
<1>6. QED
  BY <1>1, <1>2, <1>3, <1>4, <1>5

(* The caller ends after the publisher it called.                          *)
LEMMA IsoEndsKeepsPublicationInv ==
    ASSUME PublicationInv, IsoEnds
    PROVE  PublicationInv'
<1> USE DEF PublicationInv, IsoEnds, github, isoJob, pubJob, mirror, history
<1>1. TypeOK'
  BY DEF TypeOK
<1>2. UploadInv'
  BY DEF UploadInv, TypeOK
<1>3. CompleteInv'
  BY DEF CompleteInv, UploadInv, TypeOK
<1>4. PublisherInv'
  BY DEF PublisherInv, CompleteInv, MirrorInv, TypeOK
<1>5. MirrorInv'
  BY DEF MirrorInv, Served, PublisherInv, CompleteInv, TypeOK
<1>6. QED
  BY <1>1, <1>2, <1>3, <1>4, <1>5

(* An upload that is cut off leaves some assets, which are not a whole     *)
(* ISO.                                                                    *)
LEMMA IsoFailsKeepsPublicationInv ==
    ASSUME PublicationInv, IsoFails
    PROVE  PublicationInv'
<1> USE DEF PublicationInv, IsoFails, github, isoJob, pubJob, mirror, history, Fault
<1>1. TypeOK'
  BY PublicationAssumption DEF TypeOK
<1>2. UploadInv'
  BY PublicationAssumption DEF UploadInv, TypeOK
<1>3. CompleteInv'
  BY PublicationAssumption DEF CompleteInv, UploadInv, TypeOK
<1>4. PublisherInv'
  BY PublicationAssumption DEF PublisherInv, CompleteInv, MirrorInv, TypeOK
<1>5. MirrorInv'
  BY PublicationAssumption DEF MirrorInv, Served, PublisherInv, CompleteInv, TypeOK
<1>6. QED
  BY <1>1, <1>2, <1>3, <1>4, <1>5

----------------------------------------------------------------------------
(* publish-sourceforge.yml.                                                *)

(* A publisher run that starts has no copy to rely on yet.                 *)
LEMMA PublishKeepsPublicationInv ==
    ASSUME PublicationInv, Publish
    PROVE  PublicationInv'
<1> USE DEF PublicationInv, Publish, github, isoJob, pubJob, mirror, history
<1>1. TypeOK'
  BY DEF TypeOK
<1>2. UploadInv'
  BY DEF UploadInv, TypeOK
<1>3. CompleteInv'
  BY DEF CompleteInv, UploadInv, TypeOK
<1>4. PublisherInv'
  BY DEF PublisherInv, CompleteInv, MirrorInv, TypeOK
<1>5. MirrorInv'
  BY DEF MirrorInv, Served, PublisherInv, CompleteInv, TypeOK
<1>6. QED
  BY <1>1, <1>2, <1>3, <1>4, <1>5

(* A rerun of the finalization follows an upload that succeeded.           *)
LEMMA FinalizeOnlyKeepsPublicationInv ==
    ASSUME PublicationInv, FinalizeOnly
    PROVE  PublicationInv'
<1> USE DEF PublicationInv, FinalizeOnly, github, isoJob, pubJob, mirror, history, Pass, Step
<1>1. TypeOK'
  BY DEF TypeOK
<1>2. UploadInv'
  BY DEF UploadInv, TypeOK
<1>3. CompleteInv'
  BY DEF CompleteInv, UploadInv, TypeOK
<1>4. PublisherInv'
  BY DEF PublisherInv, CompleteInv, MirrorInv, TypeOK
<1>5. MirrorInv'
  BY DEF MirrorInv, Served, PublisherInv, CompleteInv, TypeOK
<1>6. QED
  BY <1>1, <1>2, <1>3, <1>4, <1>5

(* Only a complete build can be reassembled.                               *)
LEMMA AssembleKeepsPublicationInv ==
    ASSUME PublicationInv, Assemble
    PROVE  PublicationInv'
<1> USE DEF PublicationInv, Assemble, github, isoJob, pubJob, mirror, history, Step
<1>1. TypeOK'
  BY ContentsDiffer DEF TypeOK
<1>2. UploadInv'
  BY ContentsDiffer DEF UploadInv, TypeOK
<1>3. CompleteInv'
  BY ContentsDiffer DEF CompleteInv, UploadInv, TypeOK
<1>4. PublisherInv'
  BY ContentsDiffer DEF PublisherInv, CompleteInv, MirrorInv, TypeOK
<1>5. MirrorInv'
  BY ContentsDiffer DEF MirrorInv, Served, PublisherInv, CompleteInv, TypeOK
<1>6. QED
  BY <1>1, <1>2, <1>3, <1>4, <1>5

(* A directory that did not exist yet proves that no upload has succeeded. *)
LEMMA MkdirKeepsPublicationInv ==
    ASSUME PublicationInv, Mkdir
    PROVE  PublicationInv'
<1> USE DEF PublicationInv, Mkdir, github, isoJob, pubJob, mirror, history, Step
<1>1. TypeOK'
  BY DEF TypeOK
<1>2. UploadInv'
  BY DEF UploadInv, TypeOK
<1>3. CompleteInv'
  BY DEF CompleteInv, UploadInv, TypeOK
<1>4. PublisherInv'
  BY DEF PublisherInv, CompleteInv, MirrorInv, TypeOK
<1>5. MirrorInv'
  BY DEF MirrorInv, Served, PublisherInv, CompleteInv, TypeOK
<1>6. QED
  BY <1>1, <1>2, <1>3, <1>4, <1>5

(* Nothing is sent to a directory that a successful upload has filled.     *)
LEMMA SendKeepsPublicationInv ==
    ASSUME PublicationInv, NEW f \in {"iso", "isosum"}, Send(f)
    PROVE  PublicationInv'
<1> USE DEF PublicationInv, Send, github, isoJob, pubJob, mirror, history, Step, Fault
<1>1. TypeOK'
  <2>1. stored' \in [iso : Content, isosum : Content]
    BY DEF TypeOK, Content
  <2>2. faults' \in 0..MaxFaults /\ pub' \in {"send", "compare"}
    BY PublicationAssumption DEF TypeOK
  <2>3. QED
    BY <2>1, <2>2 DEF TypeOK
<1>2. UploadInv'
  BY PublishedIsFile, ContentsDiffer, PublicationAssumption DEF UploadInv, TypeOK
<1>3. CompleteInv'
  BY PublishedIsFile, ContentsDiffer, PublicationAssumption DEF CompleteInv, UploadInv, TypeOK
<1>4. PublisherInv'
  BY PublishedIsFile, ContentsDiffer, PublicationAssumption DEF PublisherInv, CompleteInv, MirrorInv, TypeOK
<1>5. MirrorInv'
  BY PublishedIsFile, ContentsDiffer, PublicationAssumption DEF MirrorInv, Served, PublisherInv, CompleteInv, TypeOK
<1>6. QED
  BY <1>1, <1>2, <1>3, <1>4, <1>5

(* Sending ends.                                                           *)
LEMMA SentKeepsPublicationInv ==
    ASSUME PublicationInv, Sent
    PROVE  PublicationInv'
<1> USE DEF PublicationInv, Sent, github, isoJob, pubJob, mirror, history, Pass, Step
<1>1. TypeOK'
  BY DEF TypeOK
<1>2. UploadInv'
  BY DEF UploadInv, TypeOK
<1>3. CompleteInv'
  BY DEF CompleteInv, UploadInv, TypeOK
<1>4. PublisherInv'
  BY DEF PublisherInv, CompleteInv, MirrorInv, TypeOK
<1>5. MirrorInv'
  BY DEF MirrorInv, Served, PublisherInv, CompleteInv, TypeOK
<1>6. QED
  BY <1>1, <1>2, <1>3, <1>4, <1>5

(* An upload succeeds only when the files that are stored are those of the *)
(* published build.                                                        *)
LEMMA CompareKeepsPublicationInv ==
    ASSUME PublicationInv, Compare
    PROVE  PublicationInv'
<1> USE DEF PublicationInv, Compare, github, isoJob, pubJob, mirror, history, Step, FilesOf
<1>1. TypeOK'
  BY PublishedIsFile DEF TypeOK
<1>2. UploadInv'
  BY PublishedIsFile DEF UploadInv, TypeOK
<1>3. CompleteInv'
  BY PublishedIsFile DEF CompleteInv, UploadInv, TypeOK
<1>4. PublisherInv'
  BY PublishedIsFile DEF PublisherInv, CompleteInv, MirrorInv, TypeOK
<1>5. MirrorInv'
  BY PublishedIsFile DEF MirrorInv, Served, PublisherInv, CompleteInv, TypeOK
<1>6. QED
  BY <1>1, <1>2, <1>3, <1>4, <1>5

(* What will be deleted is there now, and is not the checksum.             *)
LEMMA ReadReleaseKeepsPublicationInv ==
    ASSUME PublicationInv, ReadRelease
    PROVE  PublicationInv'
<1> USE DEF PublicationInv, ReadRelease, github, isoJob, pubJob, mirror, history, Step
<1>1. TypeOK'
  BY PublishedIsFile DEF TypeOK
<1>2. UploadInv'
  BY PublishedIsFile DEF UploadInv, TypeOK
<1>3. CompleteInv'
  BY PublishedIsFile DEF CompleteInv, UploadInv, TypeOK
<1>4. PublisherInv'
  BY PublishedIsFile DEF PublisherInv, CompleteInv, MirrorInv, TypeOK
<1>5. MirrorInv'
  BY PublishedIsFile DEF MirrorInv, Served, PublisherInv, CompleteInv, TypeOK
<1>6. QED
  BY <1>1, <1>2, <1>3, <1>4, <1>5

(* The notes are edited only when the download servers have the checksum   *)
(* and a file.                                                             *)
LEMMA CheckMirrorKeepsPublicationInv ==
    ASSUME PublicationInv, CheckMirror
    PROVE  PublicationInv'
<1> USE DEF PublicationInv, CheckMirror, github, isoJob, pubJob, mirror, history, Pass, Step
<1>1. TypeOK'
  BY DEF TypeOK
<1>2. UploadInv'
  BY DEF UploadInv, TypeOK
<1>3. CompleteInv'
  BY DEF CompleteInv, UploadInv, TypeOK
<1>4. PublisherInv'
  BY DEF PublisherInv, CompleteInv, MirrorInv, TypeOK
<1>5. MirrorInv'
  BY DEF MirrorInv, Served, PublisherInv, CompleteInv, TypeOK
<1>6. QED
  BY <1>1, <1>2, <1>3, <1>4, <1>5

(* The link is set after the check, and nothing in between changes what    *)
(* was checked.                                                            *)
LEMMA EditNotesKeepsPublicationInv ==
    ASSUME PublicationInv, EditNotes
    PROVE  PublicationInv'
<1> USE DEF PublicationInv, EditNotes, github, isoJob, pubJob, mirror, history, Step
<1>1. TypeOK'
  BY DEF TypeOK
<1>2. UploadInv'
  BY DEF UploadInv, TypeOK
<1>3. CompleteInv'
  BY DEF CompleteInv, UploadInv, TypeOK
<1>4. PublisherInv'
  BY DEF PublisherInv, CompleteInv, MirrorInv, TypeOK
<1>5. MirrorInv'
  BY DEF MirrorInv, Served, PublisherInv, CompleteInv, TypeOK
<1>6. QED
  BY <1>1, <1>2, <1>3, <1>4, <1>5

(* An asset is deleted only after a successful upload, never the checksum. *)
LEMMA DeleteAssetKeepsPublicationInv ==
    ASSUME PublicationInv, NEW n \in Names, DeleteAsset(n)
    PROVE  PublicationInv'
<1> USE DEF PublicationInv, DeleteAsset, Step, mirror, history
<1>1. /\ UNCHANGED <<link, marker, used, building, iso, todo, copy, body, dir, stored, public,
                     compared, complete, faults>>
      /\ pub' = "delete" /\ remove' = remove \ {n} /\ n # "isosum"
      /\ compared /\ complete # {}
  BY DEF PublisherInv, MirrorInv, TypeOK
<1>2. /\ asset' \in [Names -> Content \ {Damaged}]
      /\ \A m \in Names : asset'[m] = IF m = n THEN None ELSE asset[m]
      /\ asset'["isosum"] = asset["isosum"]
  <2>1. None \in Content \ {Damaged} /\ "isosum" \in Names
    BY ContentsDiffer DEF Content, Names
  <2>2. asset' = [asset EXCEPT ![n] = None]
    OBVIOUS
  <2>3. QED
    BY <1>1, <2>1, <2>2 DEF TypeOK
<1>3. TypeOK'
  <2>1. remove' \subseteq {m \in Names \ {"isosum"} : asset'[m] # None}
    BY <1>1, <1>2 DEF TypeOK
  <2>2. QED
    BY <1>1, <1>2, <2>1 DEF TypeOK
<1>4. UploadInv'
  BY <1>1 DEF UploadInv
<1>5. CompleteInv'
  BY <1>1, <1>2, ContentsDiffer DEF CompleteInv
<1>6. PublisherInv' /\ MirrorInv'
  BY <1>1, <1>2 DEF PublisherInv, MirrorInv, Served
<1>7. QED
  BY <1>3, <1>4, <1>5, <1>6

(* The run ends with nothing left to delete.                               *)
LEMMA FinalizedKeepsPublicationInv ==
    ASSUME PublicationInv, Finalized
    PROVE  PublicationInv'
<1> USE DEF PublicationInv, Finalized, github, isoJob, pubJob, mirror, history, Pass, Step
<1>1. TypeOK'
  BY DEF TypeOK
<1>2. UploadInv'
  BY DEF UploadInv, TypeOK
<1>3. CompleteInv'
  BY DEF CompleteInv, UploadInv, TypeOK
<1>4. PublisherInv'
  BY DEF PublisherInv, CompleteInv, MirrorInv, TypeOK
<1>5. MirrorInv'
  BY DEF MirrorInv, Served, PublisherInv, CompleteInv, TypeOK
<1>6. QED
  BY <1>1, <1>2, <1>3, <1>4, <1>5

(* A publisher that fails forgets what it was to delete.                   *)
LEMMA PublishFailsKeepsPublicationInv ==
    ASSUME PublicationInv, PublishFails
    PROVE  PublicationInv'
<1> USE DEF PublicationInv, PublishFails, github, isoJob, pubJob, mirror, history, Step, Fault
<1>1. TypeOK'
  BY PublicationAssumption DEF TypeOK
<1>2. UploadInv'
  BY PublicationAssumption DEF UploadInv, TypeOK
<1>3. CompleteInv'
  BY PublicationAssumption DEF CompleteInv, UploadInv, TypeOK
<1>4. PublisherInv'
  BY PublicationAssumption DEF PublisherInv, CompleteInv, MirrorInv, TypeOK
<1>5. MirrorInv'
  BY PublicationAssumption DEF MirrorInv, Served, PublisherInv, CompleteInv, TypeOK
<1>6. QED
  BY <1>1, <1>2, <1>3, <1>4, <1>5

----------------------------------------------------------------------------
(* SourceForge and the maintainer.                                         *)

(* Download servers receive what the upload host has, which after an       *)
(* upload that succeeded is the published build.                           *)
LEMMA PropagateKeepsPublicationInv ==
    ASSUME PublicationInv, NEW f \in {"iso", "isosum"}, Propagate(f)
    PROVE  PublicationInv'
<1> USE DEF PublicationInv, Propagate, github, isoJob, pubJob, mirror, history, FilesOf
<1>1. TypeOK'
  BY PublishedIsFile, ContentsDiffer DEF TypeOK
<1>2. UploadInv'
  BY PublishedIsFile, ContentsDiffer DEF UploadInv, TypeOK
<1>3. CompleteInv'
  BY PublishedIsFile, ContentsDiffer DEF CompleteInv, UploadInv, TypeOK
<1>4. PublisherInv'
  BY PublishedIsFile, ContentsDiffer DEF PublisherInv, CompleteInv, MirrorInv, TypeOK
<1>5. MirrorInv'
  BY PublishedIsFile, ContentsDiffer DEF MirrorInv, Served, PublisherInv, CompleteInv, TypeOK
<1>6. QED
  BY <1>1, <1>2, <1>3, <1>4, <1>5

(* The maintainer clears the directory only before an upload has           *)
(* succeeded.                                                              *)
LEMMA ClearDirectoryKeepsPublicationInv ==
    ASSUME PublicationInv, ClearDirectory
    PROVE  PublicationInv'
<1> USE DEF PublicationInv, ClearDirectory, github, isoJob, pubJob, mirror, history, NoFiles
<1>1. TypeOK'
  <2>1. stored' \in [iso : Content, isosum : Content] /\ dir' \in BOOLEAN
    BY DEF Content
  <2>2. QED
    BY <2>1 DEF TypeOK
<1>2. UploadInv'
  BY ContentsDiffer DEF UploadInv, TypeOK
<1>3. CompleteInv'
  BY ContentsDiffer DEF CompleteInv, UploadInv, TypeOK
<1>4. PublisherInv'
  BY ContentsDiffer DEF PublisherInv, CompleteInv, MirrorInv, TypeOK
<1>5. MirrorInv'
  BY ContentsDiffer DEF MirrorInv, Served, PublisherInv, CompleteInv, TypeOK
<1>6. QED
  BY <1>1, <1>2, <1>3, <1>4, <1>5

(* The maintainer removes assets only where nothing was published.         *)
LEMMA ClearAssetsKeepsPublicationInv ==
    ASSUME PublicationInv, ClearAssets
    PROVE  PublicationInv'
<1> USE DEF PublicationInv, ClearAssets, github, isoJob, pubJob, mirror, history
<1>1. TypeOK'
  <2>1. asset' \in [Names -> Content \ {Damaged}]
    BY ContentsDiffer DEF Content
  <2>2. remove' = {}
    BY DEF PublisherInv, MirrorInv
  <2>3. QED
    BY <2>1, <2>2 DEF TypeOK
<1>2. UploadInv'
  BY PublishedIsFile, ContentsDiffer DEF UploadInv, TypeOK
<1>3. CompleteInv'
  BY PublishedIsFile, ContentsDiffer DEF CompleteInv, UploadInv, TypeOK
<1>4. PublisherInv'
  BY PublishedIsFile, ContentsDiffer DEF PublisherInv, CompleteInv, MirrorInv, TypeOK
<1>5. MirrorInv'
  BY PublishedIsFile, ContentsDiffer DEF MirrorInv, Served, PublisherInv, CompleteInv, TypeOK
<1>6. QED
  BY <1>1, <1>2, <1>3, <1>4, <1>5

(* The marker is about no file.                                            *)
LEMMA MarkTestedKeepsPublicationInv ==
    ASSUME PublicationInv, MarkTested
    PROVE  PublicationInv'
<1> USE DEF PublicationInv, MarkTested, github, isoJob, pubJob, mirror, history
<1>1. TypeOK'
  BY DEF TypeOK
<1>2. UploadInv'
  BY DEF UploadInv, TypeOK
<1>3. CompleteInv'
  BY DEF CompleteInv, UploadInv, TypeOK
<1>4. PublisherInv'
  BY DEF PublisherInv, CompleteInv, MirrorInv, TypeOK
<1>5. MirrorInv'
  BY DEF MirrorInv, Served, PublisherInv, CompleteInv, TypeOK
<1>6. QED
  BY <1>1, <1>2, <1>3, <1>4, <1>5

(* A step that changes nothing.                                            *)
LEMMA StutterKeepsPublicationInv ==
    ASSUME PublicationInv, UNCHANGED vars
    PROVE  PublicationInv'
  BY DEF PublicationInv, TypeOK, UploadInv, CompleteInv, PublisherInv, MirrorInv, Served,
         vars, github, isoJob, pubJob, mirror, history

(* Every step of the two workflows, SourceForge and the maintainer keeps   *)
(* the invariant.                                                          *)
LEMMA NextKeepsPublicationInv == PublicationInv /\ [Next]_vars => PublicationInv'
<1> SUFFICES ASSUME PublicationInv, [Next]_vars PROVE PublicationInv'
  OBVIOUS
<1>1. ASSUME NEW b \in Builds, Compose(b) PROVE PublicationInv'
  BY <1>1, ComposeKeepsPublicationInv
<1>2. ASSUME NEW n \in Names, UploadAsset(n) PROVE PublicationInv'
  BY <1>2, UploadAssetKeepsPublicationInv
<1>3. CASE StartUpload \/ AssetsPublished \/ IsoEnds \/ IsoFails
  BY <1>3, StartUploadKeepsPublicationInv, AssetsPublishedKeepsPublicationInv,
     IsoEndsKeepsPublicationInv, IsoFailsKeepsPublicationInv
<1>4. CASE Publish \/ FinalizeOnly \/ PublishFails
  BY <1>4, PublishKeepsPublicationInv, FinalizeOnlyKeepsPublicationInv,
     PublishFailsKeepsPublicationInv
<1>5. CASE PublishStep
  <2>1. ASSUME NEW f \in {"iso", "isosum"}, Send(f) PROVE PublicationInv'
    BY <2>1, SendKeepsPublicationInv
  <2>2. ASSUME NEW n \in Names, DeleteAsset(n) PROVE PublicationInv'
    BY <2>2, DeleteAssetKeepsPublicationInv
  <2>3. CASE Assemble \/ Mkdir \/ Sent \/ Compare
    BY <2>3, AssembleKeepsPublicationInv, MkdirKeepsPublicationInv,
       SentKeepsPublicationInv, CompareKeepsPublicationInv
  <2>4. CASE ReadRelease \/ CheckMirror \/ EditNotes \/ Finalized
    BY <2>4, ReadReleaseKeepsPublicationInv, CheckMirrorKeepsPublicationInv,
       EditNotesKeepsPublicationInv, FinalizedKeepsPublicationInv
  <2>5. QED
    BY <1>5, <2>1, <2>2, <2>3, <2>4 DEF PublishStep
<1>6. ASSUME NEW f \in {"iso", "isosum"}, Propagate(f) PROVE PublicationInv'
  BY <1>6, PropagateKeepsPublicationInv
<1>7. CASE ClearDirectory \/ ClearAssets \/ MarkTested
  BY <1>7, ClearDirectoryKeepsPublicationInv, ClearAssetsKeepsPublicationInv,
     MarkTestedKeepsPublicationInv
<1>8. CASE UNCHANGED vars
  BY <1>8, StutterKeepsPublicationInv
<1>9. QED
  BY <1>1, <1>2, <1>3, <1>4, <1>5, <1>6, <1>7, <1>8 DEF Next

(* The invariant of the publication holds in every reachable state.        *)
LEMMA PublicationInvariant == Spec => []PublicationInv
<1>1. Init => PublicationInv
  BY InitEstablishesPublicationInv
<1>2. PublicationInv /\ [Next]_vars => PublicationInv'
  BY NextKeepsPublicationInv
<1>3. QED
  BY <1>1, <1>2, PTL DEF Spec

----------------------------------------------------------------------------
(* The theorems.                                                           *)

(* Variables keep their types, and what a finalization is about to delete  *)
(* is there.                                                               *)
THEOREM TypeCorrect == Spec => []TypeOK
<1>1. PublicationInv => TypeOK
  BY DEF PublicationInv
<1>2. QED
  BY <1>1, PublicationInvariant, PTL

(* A published ISO is whole on GitHub or whole on SourceForge.             *)
THEOREM IsoNeverLost == Spec => []PublishedIsoIsHeld
<1>1. PublicationInv => PublishedIsoIsHeld
  BY DEF PublicationInv, CompleteInv, MirrorInv, FilesOf, PublishedIsoIsHeld
<1>2. QED
  BY <1>1, PublicationInvariant, PTL

(* The link in the notes leads to the ISO of the attached checksum.        *)
THEOREM LinkIsGood == Spec => []LinkLeadsToIso
<1>1. PublicationInv => LinkLeadsToIso
  BY DEF PublicationInv, MirrorInv, Served, LinkLeadsToIso
<1>2. QED
  BY <1>1, PublicationInvariant, PTL

(* The upload host changes only while an upload that never succeeded is    *)
(* under way, or when its remains are cleared; the attached checksum       *)
(* changes only while nothing was published.                               *)
LEMMA ReplacementStep ==
    ASSUME PublicationInv, [Next]_vars
    PROVE  /\ link => stored' = stored
           /\ complete # {} => asset'["isosum"] = asset["isosum"]
<1> USE DEF github, isoJob, pubJob, mirror, history, Step, Pass
<1>1. link => compared
  BY DEF PublicationInv, MirrorInv
<1>2. ASSUME NEW n \in Names, UploadAsset(n)
      PROVE  complete = {} /\ stored' = stored
  BY <1>2 DEF UploadAsset, PublicationInv, UploadInv
<1>3. ASSUME NEW n \in Names, DeleteAsset(n)
      PROVE  asset'["isosum"] = asset["isosum"] /\ stored' = stored
  <2>1. n # "isosum" /\ asset' = [asset EXCEPT ![n] = None]
    BY <1>3 DEF DeleteAsset, PublicationInv, TypeOK
  <2>2. QED
    BY <1>3, <2>1 DEF DeleteAsset, PublicationInv, TypeOK
<1>4. ASSUME NEW f \in {"iso", "isosum"}, Send(f) PROVE ~compared /\ asset' = asset
  BY <1>4 DEF Send, PublicationInv, PublisherInv
<1>5. CASE ClearDirectory
  BY <1>1, <1>5 DEF ClearDirectory
<1>6. CASE ClearAssets
  BY <1>6 DEF ClearAssets
<1>7. ASSUME \/ \E b \in Builds : Compose(b)
             \/ StartUpload \/ AssetsPublished \/ IsoEnds \/ IsoFails
             \/ Publish \/ FinalizeOnly \/ PublishFails
             \/ Assemble \/ Mkdir \/ Sent \/ Compare
             \/ ReadRelease \/ CheckMirror \/ EditNotes \/ Finalized
             \/ \E f \in {"iso", "isosum"} : Propagate(f)
             \/ MarkTested \/ UNCHANGED vars
      PROVE  UNCHANGED <<asset, stored>>
  BY <1>7 DEF Compose, StartUpload, AssetsPublished, IsoEnds, IsoFails, Publish,
     FinalizeOnly, PublishFails, Assemble, Mkdir, Sent, Compare, ReadRelease, CheckMirror,
     EditNotes, Finalized, Propagate, MarkTested, vars
<1>8. QED
  BY <1>1, <1>2, <1>3, <1>4, <1>5, <1>6, <1>7 DEF Next, PublishStep

(* No published release is silently replaced.                              *)
THEOREM ReleaseNotReplaced == Spec => NothingReplaced
<1>1. PublicationInv /\ [Next]_vars =>
        [/\ link => stored' = stored
         /\ complete # {} => asset'["isosum"] = asset["isosum"]]_vars
  BY ReplacementStep
<1>2. QED
  BY <1>1, PublicationInvariant, PTL DEF Spec, NothingReplaced
============================================================================
