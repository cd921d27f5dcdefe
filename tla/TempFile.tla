------------------------------- MODULE TempFile -------------------------------
(***************************************************************************)
(* A file that is replaced by way of a temporary one: os.WriteFile of      *)
(* path + ".tmp", then os.Rename.  SaveRecord (gw_tenancy.go) writes       *)
(* owner.json so, SaveCred (internal/auth/store.go) cred.json.             *)
(*                                                                         *)
(* The temporary file has one name for all writers.  A writer that opened  *)
(* it writes to the file it opened, under whatever name that file has by   *)
(* then: another writer's rename may have made it the main one.  Only      *)
(* opening truncates: what is written over another's document, from its    *)
(* beginning, leaves the tail of a longer one.                             *)
(***************************************************************************)

Absent == [is |-> "absent"]
Torn == [is |-> "torn"]            \* truncated, not a JSON document
Mixed == [is |-> "mixed"]          \* a document and another's tail: no JSON either
Whole(doc) == [is |-> "whole", doc |-> doc]

Contents(Docs) == {Absent, Torn, Mixed} \cup {Whole(doc) : doc \in Docs}

\* What is under the two names, and for each writer the name of what it opened.
Files(Writers, Docs) ==
    [main : Contents(Docs), tmp : Contents(Docs),
     opened : [Writers -> {"none", "tmp", "main", "gone"}]]

File(main, tmp, opened) == [main |-> main, tmp |-> tmp, opened |-> opened]

\* No writer is at work; an earlier one may have left its temporary file.
AtRest(Writers, main, tmp) == File(main, tmp, [w \in Writers |-> "none"])

\* Opening creates the temporary file or truncates the one that is there.
Truncated(f, w) == File(f.main, Torn, [f.opened EXCEPT ![w] = "tmp"])

\* What the file that a writer has open holds; one without a name is nobody's.
Under(f, w) ==
    CASE f.opened[w] = "main" -> f.main
      [] f.opened[w] = "tmp" -> f.tmp
      [] OTHER -> Torn

\* Documents are not equally long: one written over another may be the shorter.
Over(content, doc) ==
    IF content \in {Torn, Whole(doc)} THEN {Whole(doc)} ELSE {Whole(doc), Mixed}

\* What there may be once a document is written.
Written(f, w, doc) ==
    {File(IF f.opened[w] = "main" THEN content ELSE f.main,
          IF f.opened[w] = "tmp" THEN content ELSE f.tmp,
          f.opened) : content \in Over(Under(f, w), doc)}

\* Whatever is there under the temporary name takes the main one.
Renamed(f, w) ==
    File(f.tmp, Absent,
         [v \in DOMAIN f.opened |->
            CASE v = w -> "none"
              [] v # w /\ f.opened[v] = "tmp" -> "main"
              [] v # w /\ f.opened[v] = "main" -> "gone"
              [] OTHER -> f.opened[v]])

\* The writer gives up, or is gone.
Closed(f, w) == File(f.main, f.tmp, [f.opened EXCEPT ![w] = "none"])

\* The main file is removed; who has it open writes to what no name leads to.
Removed(f) ==
    File(Absent, f.tmp,
         [v \in DOMAIN f.opened |->
            IF f.opened[v] = "main" THEN "gone" ELSE f.opened[v]])
=============================================================================
