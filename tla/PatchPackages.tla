--------------------------- MODULE PatchPackages ---------------------------
(***************************************************************************)
(* What makes a ZIP archive a patch package: members, names and sizes      *)
(* (zip_payloads.py, bundle_paths.py), permissions (payload_modes.py) and  *)
(* the roles patch.json and the handoff pair give to them                  *)
(* (patch_package.py, patch_manifest.py, bundle_handoff.py).  Operators    *)
(* only, no state.                                                         *)
(*                                                                         *)
(* A path is a sequence of names; what makes a name portable is not        *)
(* spelled out.  A permission mode is the set of its unusual bits.         *)
(***************************************************************************)
EXTENDS Integers, Sequences, SequencesExt

CONSTANTS
  Names,        \* path segments
  Folded,       \* their case-insensitive form
  Unsafe,       \* names that are not portable, or reserved
  PatchJson,    \* "patch.json"
  HandoffName,  \* "PATCHHARBOR_META"
  Handoff,      \* the two documents below it
  Context,      \* the repository binding a package may carry
  Nothing,
  MaxEntries, MaxEntry, MaxTotal  \* the resource policy

ASSUME PackagesAssumption ==
  /\ Folded \in [Names -> Names] /\ \A n \in Names : Folded[Folded[n]] = Folded[n]
  /\ Unsafe \subseteq Names /\ {PatchJson, HandoffName} \cup Handoff \subseteq Names \ Unsafe
  /\ {MaxEntries, MaxEntry, MaxTotal} \subseteq Nat /\ Nothing \notin Nat

Paths == {<<n>> : n \in Names} \cup (Names \X Names)

(***************************************************************************)
(* Permissions.                                                            *)
(***************************************************************************)
Modes == SUBSET {"exec", "shared", "special"}

ForbiddenExisting == {"special"}
ForbiddenPayload == ForbiddenExisting \cup {"shared"}

Grantable(mode) == mode \cap ForbiddenPayload = {}

Selectable(requested, existing) ==
  /\ requested # Nothing => Grantable(requested)
  /\ existing # Nothing => existing \cap ForbiddenExisting = {}

\* select_payload_mode: an existing file keeps its mode, 0644 is the default
SelectedMode(requested, existing) ==
  IF existing # Nothing THEN existing
  ELSE IF requested # Nothing THEN requested ELSE {}

(***************************************************************************)
(* Members.  `size' is what the directory of the archive declares,         *)
(* `stored' what is really read (Nothing: it cannot be read); `link' is    *)
(* any type of entry but file and directory.                               *)
(***************************************************************************)
Members ==
  [path : Paths, directory : BOOLEAN, unix : BOOLEAN, mode : Modes,
   type : {"none", "file", "directory", "link"}, size : Nat, stored : Nat \cup {Nothing},
   content : [kind : {"manifest", "handoff", "bytes"}, entrypoint : Paths, context : Context]]

Fitting(m) ==
  /\ m.directory => m.size = 0
  /\ m.unix => m.type \in {"none", IF m.directory THEN "directory" ELSE "file"}

UnixMode(m) == IF m.directory \/ ~m.unix THEN Nothing ELSE m.mode

FoldedPath(path) == [i \in DOMAIN path |-> Folded[path[i]]]

\* The directories a member implies, and the member itself.
Registrations(m) ==
  [i \in 1..Len(m.path) |->
     [path |-> SubSeq(m.path, 1, i), explicit |-> i = Len(m.path),
      directory |-> i < Len(m.path) \/ m.directory]]

ConflictOfMembers(known, new) ==
  \/ known.path # new.path
  \/ known.explicit /\ new.explicit

Conflict(known, new) ==
  \/ known.path # new.path
  \/ known.directory # new.directory
  \/ known.explicit /\ new.explicit

\* What the walk over the members has seen, and whether it ended in an error.
SoFar(nodes, clash) == [nodes |-> nodes, clash |-> clash]

NoNodes == SoFar([key \in {} |-> Nothing], FALSE)

Register(seen, new) ==
  LET key == FoldedPath(new.path)
      nodes == seen.nodes
  IN  IF seen.clash THEN seen
      ELSE IF key \notin DOMAIN nodes
           THEN SoFar([k \in DOMAIN nodes \cup {key} |-> IF k = key THEN new ELSE nodes[k]], FALSE)
      ELSE IF Conflict(nodes[key], new) THEN SoFar(nodes, TRUE)
      ELSE SoFar([nodes EXCEPT ![key].explicit = @ \/ new.explicit], FALSE)

RegisterMember(seen, m) == FoldLeft(Register, seen, Registrations(m))

Portable(path) == \A i \in DOMAIN path : path[i] \notin Unsafe

ValidPaths(members) ==
  /\ \A i \in DOMAIN members : Portable(members[i].path)
  /\ ~FoldLeft(RegisterMember, NoNodes, members).clash

DeclaredTotal(members) == FoldLeft(LAMBDA total, m : total + m.size, 0, members)

WithinLimits(members) ==
  /\ Len(members) <= MaxEntries
  /\ \A i \in DOMAIN members : members[i].size <= MaxEntry
  /\ DeclaredTotal(members) <= MaxTotal

ValidMembers(members) ==
  /\ \A i \in DOMAIN members : Fitting(members[i])
  /\ ValidPaths(members)
  /\ \A i \in DOMAIN members :
       UnixMode(members[i]) # Nothing => Grantable(UnixMode(members[i]))

\* The budget counts on across members; Nothing once a member was refused.
ReadMember(total, m) ==
  IF m.directory THEN total
  ELSE IF total = Nothing \/ m.stored = Nothing \/ m.stored # m.size
          \/ m.stored > MaxEntry \/ total + m.stored > MaxTotal
  THEN Nothing ELSE total + m.stored

Files(members) == {m \in ToSet(members) : ~m.directory}

Readable(members) ==
  /\ WithinLimits(members) /\ ValidMembers(members)
  /\ FoldLeft(ReadMember, 0, members) # Nothing

(***************************************************************************)
(* Roles.                                                                  *)
(***************************************************************************)
At(files, path) == {m \in files : m.path = path}

ValidManifest(content) == content.kind = "manifest" /\ content.entrypoint # <<PatchJson>>

InHandoff(m) == Folded[m.path[1]] = Folded[HandoffName]

HandoffPaths == {<<HandoffName, n>> : n \in Handoff}

ValidHandoff(files, manifest) ==
  LET metadata == {m \in files : InHandoff(m)}
  IN  \/ metadata = {}
      \/ /\ {m.path : m \in metadata} = HandoffPaths
         /\ manifest.entrypoint \notin HandoffPaths
         /\ \A m \in metadata :
              m.content.kind = "handoff" /\ m.content.context = manifest.context

Payload(m) == [path |-> m.path, mode |-> UnixMode(m)]

\* Those members of a sequence that are in the set, in their order.
Keep(s, T) == FoldLeft(LAMBDA kept, m : IF m \in T THEN Append(kept, m) ELSE kept, <<>>, s)

Brought(members, manifest) ==
  LET kept == Keep(members, {m \in Files(members) :
                ~InHandoff(m) /\ m.path \notin {<<PatchJson>>, manifest.entrypoint}})
  IN  [i \in DOMAIN kept |-> Payload(kept[i])]

Refused(why) == [status |-> why, payloads |-> <<>>]

\* resolve_patch_package; patch errors name the package, source errors the ZIP.
Resolved(members) ==
  LET files == Files(members)
      found == At(files, <<PatchJson>>)
      manifest == (CHOOSE m \in found : TRUE).content
  IN  IF ~Readable(members) THEN Refused("source_error")
      ELSE IF found = {} THEN Refused("package_error")
      ELSE IF ~ValidManifest(manifest) \/ ~ValidHandoff(files, manifest)
           THEN Refused("package_error")
      ELSE IF ~Portable(manifest.entrypoint) THEN Refused("source_error")
      ELSE IF At(files, manifest.entrypoint) = {} THEN Refused("package_error")
      ELSE [status |-> "accepted", payloads |-> Brought(members, manifest)]

(***************************************************************************)
(* What acceptance is meant to mean, without walking the members in order. *)
(***************************************************************************)
Branch(m) == {SubSeq(m.path, 1, i) : i \in 1..Len(m.path)}

\* No two members can meet at one place of a file system, whether it tells
\* upper from lower case or not, unless both see a directory there.
Disjoint(m, n) ==
  /\ \A p \in Branch(m), q \in Branch(n) : FoldedPath(p) = FoldedPath(q) => p = q
  /\ m.path # n.path
  /\ m.path \in Branch(n) => m.directory
  /\ n.path \in Branch(m) => n.directory

Harmless(m) ==
  /\ Portable(m.path)
  /\ m.directory => m.size = 0
  /\ ~m.directory => m.stored = m.size /\ m.size <= MaxEntry
  /\ m.unix => m.type # "link"
  /\ m.unix /\ ~m.directory =>
       m.mode \cap {"shared", "special"} = {} /\ m.type # "directory"
  /\ m.unix /\ m.directory => m.type # "file"

Size(m) == IF m.directory \/ m.stored = Nothing THEN 0 ELSE m.stored

SafePackage(members) ==
  /\ Len(members) <= MaxEntries
  /\ \A i \in DOMAIN members : Harmless(members[i])
  /\ \A i, j \in DOMAIN members : i < j => Disjoint(members[i], members[j])
  /\ FoldLeft(LAMBDA total, m : total + Size(m), 0, members) <= MaxTotal
  /\ \E manifest, entrypoint \in Files(members) :
       /\ manifest.path = <<PatchJson>> /\ manifest.content.kind = "manifest"
       /\ entrypoint # manifest /\ entrypoint.path = manifest.content.entrypoint
       /\ ~InHandoff(entrypoint)
       /\ LET metadata == {m \in Files(members) : InHandoff(m)}
          IN  /\ {m.path : m \in metadata} \in {{}, HandoffPaths}
              /\ \A m \in metadata :
                   m.content.kind = "handoff" /\ m.content.context = manifest.content.context
=============================================================================
