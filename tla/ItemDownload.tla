------------------------------ MODULE ItemDownload ------------------------------
(***************************************************************************)
(* One title of a download run (src/commands/download/item.rs,             *)
(* artifacts.rs, widevine.rs, decrypt.rs, request_kind.rs): what the       *)
(* records leave to do, the license, the fallback to Widevine for a title  *)
(* without an aaxc asset, the artifacts in their order, and the decryption *)
(* at the end.  Runs follow one another and any of them may be killed.     *)
(***************************************************************************)
EXTENDS Naturals, FiniteSets

CONSTANTS Qualities,     \* \subseteq {"normal", "high"}
          MaxReleases,   \* encodes the title gets, each with a content key of its own
          Others,        \* \subseteq {"chapter", "pdf", "cover"}: asked for beside the audio
          MaxRuns

VARIABLES asset,         \* how the server grants the title's audio
          release,       \* the encode it serves
          file,          \* the title's files
          records,       \* the downloads table
          license,       \* the stored license, by its encode
          run, runs,
          fetched        \* history: the request kinds of audio that was recorded

ivars == <<asset, release, file, records, license, run, runs, fetched>>

Releases == 1..MaxReleases
Absent == 0
Broken == MaxReleases + 1           \* truncated, or decrypted with a wrong key
RequestKinds == {"adrm", "widevine"} \X Qualities
Mpeg == <<"mpeg", "">>
NoKind == <<"", "">>

(* The encrypted originals with their key sidecars, what each decrypts to, *)
(* the plain original, and the other artifacts.                            *)
Originals == {"aaxc", "cenc", "mp3"}
Sidecar(o) == IF o = "aaxc" THEN "voucher" ELSE "wvkey"
Playable(o) == IF o = "aaxc" THEN "m4b" ELSE "widevine m4b"
Files == Originals \cup {"voucher", "wvkey", "m4b", "widevine m4b"} \cup Others
Artifacts == {"audio"} \cup Others

Record == [kind : Artifacts, variant : {"original", "decrypted"},
           request : RequestKinds \cup {Mpeg, NoKind}, file : Files]

(* The command's options.                                                  *)
Options == [kinds : {{"audio"}, Artifacts}, widevine : BOOLEAN, quality : Qualities,
            decrypt : BOOLEAN, keep : BOOLEAN, force : BOOLEAN, write : BOOLEAN]

Steps == {"idle", "skip", "license", "artifacts", "widevine", "key", "cenc", "voucher", "record",
          "record cenc", "decrypt", "decrypt cenc", "tool", "recorded", "remove source",
          "remove key", "drop record"}
Idle == [at |-> "idle", opt |-> CHOOSE o \in Options : TRUE, todo |-> {}, dash |-> FALSE,
         granted |-> Absent, source |-> "aaxc", request |-> NoKind, key |-> Absent, got |-> FALSE]

(* The variables stay in their sets, whatever the steps.                   *)
ITypeOK ==
    /\ asset \in {"adrm", "widevine", "mpeg"} /\ release \in Releases
    /\ file \in [Files -> 0..Broken] /\ records \subseteq Record
    /\ license \in 0..MaxReleases /\ runs \in 0..MaxRuns
    /\ fetched \subseteq RequestKinds \cup {Mpeg}
    /\ run.at \in Steps /\ run.todo \subseteq Artifacts /\ run.opt \in Options
    /\ run.granted \in 0..MaxReleases /\ run.source \in Originals /\ run.key \in 0..MaxReleases

IInit ==
    /\ asset \in {"adrm", "widevine", "mpeg"} /\ release = 1
    /\ file = [f \in Files |-> Absent] /\ records = {} /\ license = Absent
    /\ run = Idle /\ runs = 0 /\ fetched = {}

-----------------------------------------------------------------------------
(* request_kind.rs.                                                        *)

Candidates(o) ==
    {<<"widevine", o.quality>>, Mpeg} \cup (IF o.widevine THEN {} ELSE {<<"adrm", o.quality>>})

Resolved(grant, o) == IF grant = "mpeg" THEN Mpeg ELSE <<grant, o.quality>>

RecordedAs(kind, variant) == {r \in records : r.kind = kind /\ r.variant = variant}
AudioRecorded(o) == \E r \in records : r.kind = "audio" /\ r.request \in Candidates(o)

At(at) == run.at = at
Goto(at) == run' = [run EXCEPT !.at = at]
End == run' = Idle

(* record_download: one row per artifact, variant and file.                *)
Recorded(r) ==
    IF run.opt.write THEN {s \in records : ~(s.kind = r.kind /\ s.variant = r.variant /\ s.file = r.file)}
                          \cup {r}
    ELSE records
Remembered(r) == fetched' = IF run.opt.write /\ r.kind = "audio" /\ r.request # NoKind
                            THEN fetched \cup {r.request} ELSE fetched

-----------------------------------------------------------------------------
Begin(o) ==
    /\ At("idle") /\ runs < MaxRuns
    /\ runs' = runs + 1
    /\ run' = [Idle EXCEPT !.at = "skip", !.opt = o, !.todo = o.kinds, !.dash = o.widevine]
    /\ UNCHANGED <<asset, release, file, records, license, fetched>>

(* skip_already_downloaded; chapters and covers are looked at one by one.  *)
Skip ==
    /\ At("skip")
    /\ LET o == run.opt
           done == IF o.force \/ ~o.write THEN {}
                   ELSE {k \in run.todo : \/ k = "audio" /\ AudioRecorded(o)
                                          \/ k # "audio" /\ RecordedAs(k, "original") # {}}
           todo == run.todo \ done IN
       IF todo = {} /\ ~o.decrypt THEN End
       ELSE run' = [run EXCEPT !.todo = todo, !.at = "license"]
    /\ UNCHANGED <<asset, release, file, records, license, runs, fetched>>

WantsAaxc == "audio" \in run.todo /\ ~run.dash

NoLicense ==
    /\ At("license") /\ ~WantsAaxc
    /\ Goto("artifacts")
    /\ UNCHANGED <<asset, release, file, records, license, runs, fetched>>

(* A stored license whose URL is still valid, unless --relicense.          *)
ReuseLicense ==
    /\ At("license") /\ WantsAaxc /\ license # Absent
    /\ run' = [run EXCEPT !.granted = license, !.at = "artifacts", !.request = Resolved("adrm", run.opt)]
    /\ UNCHANGED <<asset, release, file, records, license, runs, fetched>>

(* A grant, or plain audio, or no aaxc asset: the last is how a title that *)
(* is only streamed is found out.                                          *)
AcquireLicense ==
    /\ At("license") /\ WantsAaxc
    /\ IF asset = "widevine"
       THEN run' = [run EXCEPT !.dash = TRUE, !.at = "artifacts"] /\ UNCHANGED license
       ELSE /\ run' = [run EXCEPT !.granted = release, !.at = "artifacts",
                                  !.request = Resolved(asset, run.opt)]
            /\ license' = IF run.opt.write /\ asset = "adrm" THEN release ELSE license
    /\ UNCHANGED <<asset, release, file, records, runs, fetched>>

-----------------------------------------------------------------------------
(* The artifacts, audio first; the first that fails ends the title.        *)

(* download_to_file: a file of the same size is complete unless forced.    *)
Transferred(f, r) == [file EXCEPT ![f] = IF @ = r /\ ~run.opt.force THEN @ ELSE r]

Audio ==
    /\ At("artifacts") /\ "audio" \in run.todo /\ ~run.dash
    /\ LET f == IF run.request = Mpeg THEN "mp3" ELSE "aaxc" IN
       /\ file' = Transferred(f, run.granted)
       /\ run' = [run EXCEPT !.source = f, !.at = IF f = "aaxc" THEN "voucher" ELSE "record"]
    /\ UNCHANGED <<asset, release, records, license, runs, fetched>>

(* write_keyfile: a key that cannot be derived or written is a warning.    *)
WriteKeyfile(written) ==
    /\ At("voucher") /\ Goto("record")
    /\ file' = IF written THEN [file EXCEPT !["voucher"] = run.granted] ELSE file
    /\ UNCHANGED <<asset, release, records, license, runs, fetched>>

RecordAudio ==
    /\ At("record")
    /\ LET r == [kind |-> "audio", variant |-> "original", request |-> run.request,
                 file |-> run.source] IN
       records' = Recorded(r) /\ Remembered(r)
    /\ run' = [run EXCEPT !.todo = @ \ {"audio"}, !.at = "artifacts", !.got = TRUE]
    /\ UNCHANGED <<asset, release, file, license, runs>>

(* Without a CDM the title stops here.  A grant of plain audio is fetched  *)
(* as such.                                                                *)
Widevine ==
    /\ At("artifacts") /\ "audio" \in run.todo /\ run.dash
    /\ IF asset = "mpeg"
       THEN /\ file' = Transferred("mp3", release)
            /\ run' = [run EXCEPT !.source = "mp3", !.request = Mpeg, !.at = "record"]
       ELSE /\ run' = [run EXCEPT !.at = "key", !.granted = release, !.source = "cenc",
                                  !.request = Resolved("widevine", run.opt)]
            /\ UNCHANGED file
    /\ UNCHANGED <<asset, release, records, license, runs, fetched>>

(* The key beside the file is used if there is one, of whatever encode.    *)
ContentKey ==
    /\ At("key")
    /\ LET key == IF file["wvkey"] # Absent THEN file["wvkey"] ELSE run.granted IN
       /\ file' = [file EXCEPT !["wvkey"] = key]
       /\ run' = [run EXCEPT !.key = key, !.at = "cenc"]
    /\ UNCHANGED <<asset, release, records, license, runs, fetched>>

TransferCenc ==
    /\ At("cenc") /\ Goto("record cenc")
    /\ file' = Transferred("cenc", run.granted)
    /\ UNCHANGED <<asset, release, records, license, runs, fetched>>

RecordCenc ==
    /\ At("record cenc")
    /\ LET r == [kind |-> "audio", variant |-> "original", request |-> run.request, file |-> "cenc"] IN
       records' = Recorded(r) /\ Remembered(r)
    /\ run' = [run EXCEPT !.todo = @ \ {"audio"},
                          !.at = IF run.opt.decrypt THEN "decrypt cenc" ELSE "artifacts"]
    /\ UNCHANGED <<asset, release, file, license, runs>>

(* Chapters, PDF and covers, once the audio is done.                       *)
Artifact(k) ==
    /\ At("artifacts") /\ k \in run.todo \ {"audio"} /\ "audio" \notin run.todo
    /\ LET skip == ~run.opt.force /\ run.opt.write /\ RecordedAs(k, "original") # {}
           r == [kind |-> k, variant |-> "original", request |-> NoKind, file |-> k] IN
       /\ file' = IF skip THEN file ELSE Transferred(k, release)
       /\ records' = IF skip THEN records ELSE Recorded(r)
    /\ run' = [run EXCEPT !.todo = @ \ {k}]
    /\ UNCHANGED <<asset, release, license, runs, fetched>>

-----------------------------------------------------------------------------
(* The decryption.                                                         *)

DecryptedRecorded(o) == \E r \in RecordedAs("audio", "decrypted") : r.file = Playable(o)
SkipsDecrypted(o) == ~run.opt.force /\ run.opt.write /\ DecryptedRecorded(o)

DecryptCenc ==
    /\ At("decrypt cenc")
    /\ Goto(IF SkipsDecrypted("cenc") THEN "artifacts" ELSE "tool")
    /\ UNCHANGED <<asset, release, file, records, license, runs, fetched>>

AllDone == At("artifacts") /\ run.todo = {}

(* decrypt_item: the file of this run with its request kind, else a        *)
(* recorded original on disk (an aaxc before others) with its record's.    *)
(* Seeded fault: a recorded file is decrypted under this run's kind.       *)
SourceOfRun(source, request) ==
    \/ run.got /\ source = run.source /\ request = run.request
    \/ /\ ~run.got /\ run.opt.write
       /\ \E r \in RecordedAs("audio", "original") :
             r.file = source /\ file[source] # Absent /\ request = run.request
       /\ source # "aaxc" => file["aaxc"] = Absent

Source(source, request) ==
    \/ run.got /\ source = run.source /\ request = run.request
    \/ /\ ~run.got /\ run.opt.write
       /\ \E r \in RecordedAs("audio", "original") :
             r.file = source /\ file[source] # Absent /\ request = r.request
       /\ source # "aaxc" => ~\E r \in RecordedAs("audio", "original") : r.file = "aaxc" /\ file["aaxc"] # Absent

Decrypt(source, request) ==
    /\ AllDone /\ run.opt.decrypt /\ ~run.dash /\ Source(source, request)
    /\ IF source # "aaxc" \/ file["aaxc"] = Absent \/ SkipsDecrypted("aaxc") \/ file["voucher"] = Absent
       THEN End
       ELSE run' = [run EXCEPT !.at = "tool", !.source = source, !.request = request,
                               !.key = file["voucher"]]
    /\ UNCHANGED <<asset, release, file, records, license, runs, fetched>>

Done ==
    /\ AllDone
    /\ \/ ~run.opt.decrypt \/ run.dash
       \/ ~\E source \in Originals, request \in RequestKinds \cup {Mpeg, NoKind} : Source(source, request)
    /\ End
    /\ UNCHANGED <<asset, release, file, records, license, runs, fetched>>

(* The tool writes the final file; with a wrong key it fails or writes     *)
(* noise, and a failure removes what is there.                             *)
ToolWrites ==
    /\ At("tool") /\ Goto("recorded")
    /\ file' = [file EXCEPT ![Playable(run.source)] =
                   IF file[run.source] = run.key THEN run.key ELSE Broken]
    /\ UNCHANGED <<asset, release, records, license, runs, fetched>>

ToolFails ==
    /\ At("tool") /\ End
    /\ file' = [file EXCEPT ![Playable(run.source)] = Absent]
    /\ UNCHANGED <<asset, release, records, license, runs, fetched>>

RecordDecrypted ==
    /\ At("recorded")
    /\ records' = Recorded([kind |-> "audio", variant |-> "decrypted", request |-> run.request,
                            file |-> Playable(run.source)])
    /\ IF run.opt.keep
       THEN IF run.source = "cenc" THEN Goto("artifacts") ELSE End
       ELSE Goto("remove source")
    /\ UNCHANGED <<asset, release, file, license, runs, fetched>>

RemoveSource ==
    /\ At("remove source") /\ Goto("remove key")
    /\ file' = [file EXCEPT ![run.source] = Absent]
    /\ UNCHANGED <<asset, release, records, license, runs, fetched>>

RemoveKey(removed) ==
    /\ At("remove key") /\ Goto("drop record")
    /\ file' = IF removed THEN [file EXCEPT ![Sidecar(run.source)] = Absent] ELSE file
    /\ UNCHANGED <<asset, release, records, license, runs, fetched>>

DropOriginalRecord ==
    /\ At("drop record")
    /\ records' = IF run.opt.write
                  THEN {r \in records : ~(r.variant = "original" /\ r.file = run.source)} ELSE records
    /\ IF run.source = "cenc" THEN Goto("artifacts") ELSE End
    /\ UNCHANGED <<asset, release, file, license, runs, fetched>>

-----------------------------------------------------------------------------
(* A denied license, a missing CDM, a failed transfer, a database error;   *)
(* or the run is killed, which leaves half of what the tool wrote.         *)
Fails ==
    /\ ~At("idle") /\ End
    /\ UNCHANGED <<asset, release, file, records, license, runs, fetched>>

Killed ==
    /\ At("tool") /\ End
    /\ file' = [file EXCEPT ![Playable(run.source)] = Broken]
    /\ UNCHANGED <<asset, release, records, license, runs, fetched>>

Reencoded ==
    /\ release < MaxReleases /\ release' = release + 1
    /\ UNCHANGED <<asset, file, records, license, run, runs, fetched>>

INext ==
    \/ \E o \in Options : Begin(o)
    \/ Skip \/ NoLicense \/ ReuseLicense \/ AcquireLicense
    \/ Audio \/ RecordAudio \/ Widevine \/ ContentKey \/ TransferCenc \/ RecordCenc
    \/ \E b \in BOOLEAN : WriteKeyfile(b) \/ RemoveKey(b)
    \/ \E k \in Artifacts : Artifact(k)
    \/ \E source \in Originals, request \in RequestKinds \cup {Mpeg, NoKind} : Decrypt(source, request)
    \/ DecryptCenc \/ Done \/ ToolWrites \/ ToolFails \/ RecordDecrypted
    \/ RemoveSource \/ DropOriginalRecord
    \/ Fails \/ Killed \/ Reencoded

ISpec == IInit /\ [][INext]_ivars

-----------------------------------------------------------------------------

(* An intent once recorded is not downloaded again without --force, also   *)
(* after the original was decrypted and removed: the decrypted record      *)
(* stands for it (request_kind.rs, drop_original_record).                  *)
DownloadedOnce ==
    "audio" \in run.todo /\ ~At("skip") /\ ~run.opt.force /\ run.opt.write
        => Candidates(run.opt) \cap fetched = {}

=============================================================================
