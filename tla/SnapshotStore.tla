---------------------------- MODULE SnapshotStore ----------------------------
(***************************************************************************)
(* What `trait SnapshotStore` promises about the keys that are written by  *)
(* compare-and-swap (lock.json and latest.json), for the two backends that *)
(* can be a primary.  The backends differ in what an etag is:              *)
(*                                                                         *)
(*   s3          the etag of a key follows its content, so two equal etags *)
(*               mean two equal bodies; other keys do not matter           *)
(*   git_branch  the etag of every key is the commit at the branch head,   *)
(*               so a write of ANY key changes the etag of all of them     *)
(*                                                                         *)
(* The module is constant-level: a component keeps the content of its keys *)
(* and the number of commits, and asks these operators whether a           *)
(* conditional call goes through.                                          *)
(***************************************************************************)
EXTENDS Naturals

CONSTANT None   \* an absent key, an absent etag (Rust's Option::None)

Backends == {"s3", "git_branch"}

(***************************************************************************)
(* The etag a backend reports for a present key with this content while    *)
(* the branch has this many commits.                                       *)
(***************************************************************************)
S3Etag(content) == [content |-> content, commit |-> 0]
GitEtag(commit) == [content |-> None, commit |-> commit]

Etag(backend, content, commit) ==
  IF backend = "s3" THEN S3Etag(content) ELSE GitEtag(commit)

(***************************************************************************)
(* put_if_unmodified: create-only without an expected etag, a swap with    *)
(* one.  On s3 the server compares (If-None-Match: *, If-Match).  On a git *)
(* branch the client compares with the commit it fetched, and the push     *)
(* goes through only if the branch still is at that commit                 *)
(* (--force-with-lease): the two together are one comparison with the head *)
(* at the moment of the push.                                              *)
(***************************************************************************)
S3Accepts(content, expected) ==
  IF expected = None THEN content = None
                     ELSE content # None /\ expected = S3Etag(content)

GitAccepts(content, commit, expected) ==
  IF expected = None THEN content = None
                     ELSE commit > 0 /\ expected = GitEtag(commit)

CondPutOk(backend, content, commit, expected) ==
  IF backend = "s3" THEN S3Accepts(content, expected)
                    ELSE GitAccepts(content, commit, expected)

(***************************************************************************)
(* delete_if_match: the key goes only if its etag is still the caller's.   *)
(* A git branch compares heads, whether or not the file is there.          *)
(***************************************************************************)
S3Deletes(content, etag) == content # None /\ etag = S3Etag(content)

GitDeletes(commit, etag) == commit > 0 /\ etag = GitEtag(commit)

CondDeleteOk(backend, content, commit, etag) ==
  IF backend = "s3" THEN S3Deletes(content, etag) ELSE GitDeletes(commit, etag)

(* The number of commits after a write or a delete of some key. *)
AfterWrite(backend, commit) ==
  IF backend = "git_branch" THEN commit + 1 ELSE commit
==============================================================================
