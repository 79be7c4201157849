---------------------------- MODULE ResourceBundle ----------------------------
(***************************************************************************)
(* ValidatedBundle::load (crates/resource-bundle/src/lib.rs): one manifest, *)
(* five resolved locations, the application's files, the installed packages *)
(* and the launcher text, checked one file-system call at a time while      *)
(* other processes may change the directory between two calls.              *)
(*                                                                         *)
(* A path is the sequence of its components.  disk gives the entry at every *)
(* path of the bundle, as written and now; a link leads to an intact copy   *)
(* of the subtree, either elsewhere or below resources.  Manifest text is   *)
(* abstracted to whether it matches the contract.                           *)
(***************************************************************************)
EXTENDS Naturals, Sequences, SequencesExt

CONSTANTS PackageNames,      \* package names a manifest can list
          RequiredPackages,  \* those every bundle needs: jsonlite, later, shiny
          MaxPackages,       \* MAX_PACKAGES
          MaxConstraints     \* MAX_CONSTRAINTS

ASSUME RequiredAssumption ==
  RequiredPackages # {} /\ RequiredPackages \subseteq PackageNames

ASSUME MaxPackagesAssumption == MaxPackages \in Nat \ {0} /\ MaxConstraints \in Nat

-------------------------------------------------------------------------------
(* The file system.                                                          *)

BundlePath    == <<"bundle">>
ResourcesPath == BundlePath \o <<"resources">>
RuntimePath   == ResourcesPath \o <<"R">>
LibraryPath   == RuntimePath \o <<"library">>
AppPath       == ResourcesPath \o <<"app">>

ApplicationFiles == {"app.R", "ui.R", "server.R"}

Directories ==
  {BundlePath, ResourcesPath, RuntimePath, RuntimePath \o <<"bin">>, LibraryPath, AppPath}
    \cup {LibraryPath \o <<p>> : p \in PackageNames}

Files ==
  {ResourcesPath \o <<"rpackit.json">>, RuntimePath \o <<"bin", "Rscript.exe">>,
   RuntimePath \o <<"bin", "x64">>, ResourcesPath \o <<"launcher.R">>}
    \cup {AppPath \o <<f>> : f \in ApplicationFiles}
    \cup {LibraryPath \o <<p, "DESCRIPTION">> : p \in PackageNames}

Paths == Directories \cup Files

(* "bad" is a file of the wrong content, "big" one above its byte limit.      *)
FileEntry == {"file", "bad", "big"}
LinkEntry == {"elsewhere", "spare"}
Entry == {"absent", "dir"} \cup FileEntry \cup LinkEntry

(***************************************************************************)
(* A bundle as rpackit writes it.  The x64 interpreter is one entry.        *)
(***************************************************************************)
Prepared(app_type) ==
  [p \in Paths |->
     CASE p \in Directories -> "dir"
       [] p = AppPath \o <<"app.R">> -> IF app_type = "single" THEN "file" ELSE "absent"
       [] p \in {AppPath \o <<"ui.R">>, AppPath \o <<"server.R">>} ->
            IF app_type = "split" THEN "file" ELSE "absent"
       [] OTHER -> "file"]

(***************************************************************************)
(* A location is a path in the bundle's own tree or in one of the copies.   *)
(***************************************************************************)
Place == {"bundle"} \cup LinkEntry
Location == [place : Place, path : Paths]

Ancestors(p) == {SubSeq(p, 1, n) : n \in 1..(Len(p) - 1)}

(* The entry of a copy is what it was when the bundle was written.           *)
Intact(disk, path) == disk.intact[path]

(***************************************************************************)
(* What symlink_metadata reports: links above the last component are        *)
(* followed, the last one is not.                                           *)
(***************************************************************************)
Lstat(disk, loc) ==
  LET above == {q \in Ancestors(loc.path) \cap Paths : disk.now[q] # "dir"}
      first == CHOOSE q \in above : \A r \in above : Len(q) <= Len(r)
  IN  IF loc.place # "bundle" \/ (above # {} /\ disk.now[first] \in LinkEntry)
      THEN Intact(disk, loc.path)
      ELSE IF above # {} THEN "absent" ELSE disk.now[loc.path]

(* What an open, or is_file, reaches: the last component is followed too.    *)
Followed(disk, loc) ==
  LET e == Lstat(disk, loc)
  IN  IF e \in LinkEntry THEN Intact(disk, loc.path) ELSE e

(* fs::canonicalize of an existing location.                                 *)
Canonical(disk, loc) ==
  LET links == {q \in Ancestors(loc.path) \cup {loc.path} :
                  q \in Paths /\ disk.now[q] \in LinkEntry}
      first == CHOOSE q \in links : \A r \in links : Len(q) <= Len(r)
  IN  IF loc.place # "bundle" \/ links = {} THEN loc
      ELSE [loc EXCEPT !.place = disk.now[first]]

(* Path::starts_with on canonical paths; the "spare" copy is below resources. *)
StartsWith(a, b) ==
  \/ a.place = b.place /\ IsPrefix(b.path, a.path)
  \/ a.place = "spare" /\ b.place = "bundle" /\ IsPrefix(b.path, ResourcesPath)

-------------------------------------------------------------------------------
(* The manifest.                                                             *)

AppType == {"single", "split"}
RuntimeSource == {"explicit", "registry"}

Reference == {"https", "bad_https", "http", "file", "unc"}

IsHttpsReference(r) == r \in {"https", "bad_https"}

(* valid_source_reference: a clean https URL or a local path.                *)
ValidSourceReference(r) == r \in {"https", "file"}

ValidateProvenance(v) ==
  /\ v.digest
  /\ ValidSourceReference(v.registry)
  /\ ValidSourceReference(v.metadata)
  /\ ValidSourceReference(v.artifact)
  /\ IsHttpsReference(v.registry) =>
       IsHttpsReference(v.metadata) /\ IsHttpsReference(v.artifact)

(* valid_version_text and its like: alphabet and length of the text fields.  *)
ValidText(text) == text # "malformed"

(* provenance is a set: empty, or the one record the manifest carries.       *)
ValidateRuntime(r) ==
  /\ r.layout
  /\ ValidText(r.version)
  /\ \/ r.source = "explicit" /\ r.provenance = {}
     \/ /\ r.source = "registry"
        /\ r.version # "none"
        /\ r.provenance # {} /\ \A v \in r.provenance : ValidateProvenance(v)

ValidateLauncher(l) == l.contract /\ l.network_token_enforced /\ ~l.token_in_url

(* A constraint is a package and what is required of it.  A package may have *)
(* several, each once.                                                       *)
ValidateDependencies(d) ==
  LET listed == ToSet(d.packages)
  IN  /\ d.installed /\ d.constraints_verified
      /\ d.packages # <<>> /\ Len(d.packages) <= MaxPackages
      /\ Len(d.constraints) <= MaxConstraints
      /\ listed \subseteq PackageNames
      /\ IsInjective(d.packages)
      /\ RequiredPackages \subseteq listed
      /\ \A c \in ToSet(d.constraints) : c.package \in listed /\ ValidText(c.requirement)
      /\ IsInjective(d.constraints)

(***************************************************************************)
(* The manifest as it is read.  contract, layout and digest stand for the    *)
(* fields that are compared with one constant each, text for names and       *)
(* versions.  Unknown fields are refused with the JSON.                      *)
(***************************************************************************)
Manifest ==
  [contract : BOOLEAN, text : {"valid", "malformed"}, app_type : AppType \cup {"other"},
   runtime : [layout : BOOLEAN, version : {"none", "valid", "malformed"},
              source : RuntimeSource \cup {"other"},
              provenance : SUBSET [digest : BOOLEAN, registry : Reference,
                                   metadata : Reference, artifact : Reference]],
   launcher : [contract : BOOLEAN, network_token_enforced : BOOLEAN, token_in_url : BOOLEAN],
   dependencies : [installed : BOOLEAN, constraints_verified : BOOLEAN,
                   packages : Seq(PackageNames \cup {"no name"}),
                   constraints : Seq([package : PackageNames \cup {"no name"},
                                      requirement : {"at_least", "below", "malformed"}])]]

ValidateManifest(m) ==
  /\ m.contract /\ ValidText(m.text)
  /\ m.app_type \in AppType
  /\ ValidateRuntime(m.runtime)
  /\ ValidateLauncher(m.launcher)
  /\ ValidateDependencies(m.dependencies)

-------------------------------------------------------------------------------
(* The calls of load, in order.                                              *)

Call(op, base, rel, kind) == [op |-> op, base |-> base, rel |-> rel, kind |-> kind]

(***************************************************************************)
(* resolve_manifest_path: look at every component without following it,     *)
(* then at the whole path again for its type, then canonicalize.            *)
(***************************************************************************)
ResolveManifestPath(field, rel, kind) ==
  [n \in 1..Len(rel) |-> Call("stat", "resources", SubSeq(rel, 1, n), "any")]
    \o <<Call("stat", "resources", rel, kind), Call(field, "resources", rel, kind)>>

(* critical_child: one look at a direct child.                               *)
CriticalChild(base, rel, kind) == <<Call("stat", base, rel, kind)>>

(* read_bounded_regular_file: the size is looked at before the file is opened. *)
ReadBoundedRegularFile(base, rel) ==
  <<Call("size", base, rel, "file"), Call("read", base, rel, "file")>>

(* The required and forbidden markers are in the content: it is right or not. *)
ValidateLauncherFile == ReadBoundedRegularFile("launcher", <<>>)

ValidateAppLayout(app_type) ==
  IF app_type = "single"
  THEN CriticalChild("app", <<"app.R">>, "file")
  ELSE <<Call("none", "app", <<"app.R">>, "file")>>
         \o CriticalChild("app", <<"ui.R">>, "file")
         \o CriticalChild("app", <<"server.R">>, "file")

(* Two looks for each package: its directory, then its DESCRIPTION.          *)
ValidateInstalledPackages(packages) ==
  [n \in 1 .. 2 * Len(packages) |->
     LET p == packages[(n + 1) \div 2]
     IN  IF n % 2 = 1 THEN Call("stat", "library", <<p>>, "dir")
         ELSE Call("stat", "library", <<p, "DESCRIPTION">>, "file")]

OpenBundle ==
  <<Call("stat", "root", <<>>, "dir"), Call("bundle", "root", <<>>, "dir"),
    Call("stat", "bundle", <<"resources">>, "dir"),
    Call("resources", "bundle", <<"resources">>, "dir")>>
    \o ReadBoundedRegularFile("resources", <<"rpackit.json">>)
    \o <<Call("manifest", "root", <<>>, "any")>>

LoadCalls(m) ==
  OpenBundle
    \o ResolveManifestPath("rscript", <<"R", "bin", "Rscript.exe">>, "file")
    \o ResolveManifestPath("library", <<"R", "library">>, "dir")
    \o ResolveManifestPath("app", <<"app">>, "dir")
    \o ResolveManifestPath("launcher", <<"launcher.R">>, "file")
    \o ResolveManifestPath("runtime", <<"R">>, "dir")
    \o <<Call("topology", "root", <<>>, "any")>>
    \o ValidateAppLayout(m.app_type)
    \o ValidateInstalledPackages(m.dependencies.packages)
    \o ValidateLauncherFile

ResolvedField == {"rscript", "library", "app", "launcher", "runtime"}
Field == {"bundle", "resources"} \cup ResolvedField

(* The location a call names, from what load has resolved so far.            *)
Named(found, c) ==
  IF c.base = "root" THEN [place |-> "bundle", path |-> BundlePath]
  ELSE [found[c.base] EXCEPT !.path = @ \o c.rel]

(* Mutant: a path without links was inside when it was looked at.            *)
ContainedTrusted(found, to) == to # found.resources

(* The last test of resolve_manifest_path, on the canonical path.            *)
Contained(found, to) == to # found.resources /\ StartsWith(to, found.resources)

(***************************************************************************)
(* Whether a call lets load continue.  A read accepts what the opened file  *)
(* holds now: one that grew since its size was looked at is refused by the  *)
(* second length check, one that was replaced by its content.               *)
(***************************************************************************)
CallPasses(disk, m, found, c) ==
  LET loc == Named(found, c)
      e   == Lstat(disk, loc)
      to  == Canonical(disk, loc)
  IN  CASE c.op = "stat" -> /\ e \notin LinkEntry \cup {"absent"}
                            /\ c.kind = "dir" => e = "dir"
                            /\ c.kind = "file" => e \in FileEntry
        [] c.op = "none" -> e = "absent"
        [] c.op = "size" -> e \in {"file", "bad"}
        [] c.op = "read" -> Followed(disk, loc) = "file"
        [] c.op = "manifest" -> ValidateManifest(m)
        [] c.op = "bundle" -> Followed(disk, loc) # "absent"
        [] c.op = "resources" -> Followed(disk, loc) # "absent" /\ to.place = found.bundle.place
        [] c.op \in ResolvedField -> Followed(disk, loc) # "absent" /\ Contained(found, to)
        [] c.op = "topology" -> /\ StartsWith(found.rscript, found.runtime)
                                /\ StartsWith(found.library, found.runtime)

(* What load knows after a call that passed.                                 *)
CallResult(disk, found, c) ==
  IF c.op \in Field THEN [found EXCEPT ![c.op] = Canonical(disk, Named(found, c))]
  ELSE found

===============================================================================
