------------------------------ MODULE Snapshot ------------------------------
(***************************************************************************)
(* How the pinned repository is read from GitHub: over the REST API        *)
(* (github_snapshot.py, with the raw commit from git) or as one archive    *)
(* (github_archive_snapshot.py).  GitHub may answer anything; a read ends  *)
(* in a set of files or in NoSnapshot.  SHA-1 and SHA-256 are injective    *)
(* here, so the identity of a Git object is the object.                    *)
(***************************************************************************)
EXTENDS Naturals, FiniteSets

CONSTANTS
    Base,       \* the pinned files, a set of [path, mode, content]
    Other,      \* files of another commit, at the same paths
    Ancestors,  \* [paths -> sets of directories above the path]
    SafePaths,  \* the paths that _is_safe_tree_path accepts
    Secrets,    \* contents that match a credential pattern
    Oversized   \* contents beyond the size limits

NoSnapshot == {}

Trees == {Base, Other}
FileModes == {"100644", "100755"}

\* The pinned files are files: a path, a mode and a content each.
ASSUME FilesAssumption ==
    \A t \in Trees : \A f \in t : f = [path |-> f.path, mode |-> f.mode, content |-> f.content]

----------------------------------------------------------------------------
(* Git objects                                                             *)

BlobOid(content) == content

\* Rebuilding every tree object of a recursive listing from its leaves: the
\* blobs under a directory are its identity.
TreeOid(entries) == entries

Listing(files) == {[path |-> f.path, mode |-> f.mode, sha |-> BlobOid(f.content)] : f \in files}
Commit(files) == [tree |-> TreeOid(Listing(files))]

Directories(entries) == UNION {Ancestors[e.path] : e \in entries}

ContentOf(files, p) == (CHOOSE f \in files : f.path = p).content

\* find_credential_pattern_content
CredentialShaped(files) == \E f \in files : f.content \in Secrets

----------------------------------------------------------------------------
(* read_rate_limit, and what a permit asks of the observation              *)

RateLimits == [status : {200, 403}, remaining : {"enough", "few", "absent"}, reset : BOOLEAN]
Ready(x) == x.status = 200 /\ x.remaining = "enough" /\ x.reset

----------------------------------------------------------------------------
(* The REST source.  An answer holds what each of its calls returned.      *)

RestAnswers ==
    [status : {200, 500}, sha : {Commit(t) : t \in Trees},
     tree : {TreeOid(Listing(t)) : t \in Trees}, raw : {Commit(t) : t \in Trees},
     listed : {TreeOid(Listing(t)) : t \in Trees}, truncated : BOOLEAN,
     entries : {Listing(t) : t \in Trees}, subtrees : BOOLEAN, bodies : Trees]

\* parse_github_commit: the answer is about the requested commit.
CommitClaim(a) == a.sha = Commit(Base)

\* parse_git_commit_object, in the Git source and again in the reader.
CommitObject(a) == a.raw = a.sha /\ a.raw.tree = a.tree

\* GitHubRawCommitObjectSource reads no commit but the pinned one.
RawCommit(a) == a.sha = Commit(Base) /\ CommitObject(a)

\* _parse_tree_entry and _verify_git_tree_entries.  subtrees: the directories
\* listed are those above the blobs, each with the identity of its blobs.
TreeEntry(e) == e.path \in SafePaths /\ e.mode \in FileModes

TreeClaim(a) ==
    /\ a.listed = a.tree
    /\ ~a.truncated
    /\ \A e \in a.entries : TreeEntry(e)
    /\ a.subtrees
    /\ TreeOid(a.entries) = a.tree

\* parse_github_blob
BlobClaim(e, body) == BlobOid(body) = e.sha /\ body \notin Oversized

RestFiles(a) == {[path |-> e.path, mode |-> e.mode, content |-> ContentOf(a.bodies, e.path)] :
                     e \in a.entries}

\* GitHubSnapshotContents: a second look at everything the claim says.
SnapshotContents(files) ==
    /\ \A f \in files : f.path \in SafePaths /\ f.mode \in FileModes /\ f.content \notin Oversized
    /\ \A f, g \in files : f.path = g.path => f = g
    /\ ~CredentialShaped(files)

\* read_github_snapshot_contents
ReadSnapshotContents(a) ==
    IF /\ a.status = 200
       /\ CommitClaim(a)
       /\ RawCommit(a)
       /\ TreeClaim(a)
       /\ \A e \in a.entries : BlobClaim(e, ContentOf(a.bodies, e.path))
       /\ SnapshotContents(RestFiles(a))
    THEN RestFiles(a)
    ELSE NoSnapshot

----------------------------------------------------------------------------
(* The archive source: the members of one tar file                         *)

ArchiveAnswers ==
    [status : {200, 500}, roots : 0..2, links : BOOLEAN, duplicates : BOOLEAN,
     directories : {Directories(Listing(Base)), {}}, files : Trees \cup {{}, Base \cup Other}]

\* parse_github_archive_snapshot, member by member and then as a whole.
ArchiveMembers(a) ==
    /\ ~a.links
    /\ ~a.duplicates
    /\ \A f \in a.files : f.path \in SafePaths /\ f.content \notin Oversized
    /\ \A f, g \in a.files : f.path = g.path => f = g

ArchiveShape(a) ==
    /\ a.roots = 1
    /\ Cardinality(a.files) = Cardinality(Base)
    /\ a.directories = Directories(Listing(a.files))

\* read_github_archive_snapshot_contents: the content digest and the rebuilt
\* tree identity are compared with the pins before a claim exists.
ReadArchive(a) ==
    IF /\ a.status = 200
       /\ ArchiveMembers(a)
       /\ ArchiveShape(a)
       /\ a.files = Base
       /\ TreeOid(Listing(a.files)) = TreeOid(Listing(Base))
       /\ SnapshotContents(a.files)
    THEN a.files
    ELSE NoSnapshot

----------------------------------------------------------------------------
(* What a read may end in, and the comparison with the pins                *)

Fetched(origin) ==
    IF origin = "rest"
    THEN {ReadSnapshotContents(a) : a \in RestAnswers}
    ELSE {ReadArchive(a) : a \in ArchiveAnswers}

\* The commit object is known for the REST source only; its tree is the pin's.
PinMatches(files) ==
    /\ TreeOid(Listing(files)) = TreeOid(Listing(Base))
    /\ files = Base
    /\ Cardinality(files) = Cardinality(Base)

\* MaterializedGitHubSnapshot: what was written is read back and digested.
Materialized(files, written) == SnapshotContents(files) /\ written = files

\* compute_snapshot_tree_digest and verifier_snapshot_tree_digest
TreeDigest(files) == {[path |-> f.path, mode |-> f.mode, content |-> f.content] : f \in files}
=============================================================================
