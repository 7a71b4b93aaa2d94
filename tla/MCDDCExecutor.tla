--------------------------- MODULE MCDDCExecutor ---------------------------
(* Two-unit frames, two frames a file, a ring that holds two frames and a  *)
(* half, three frames wanted from the second frame of the first file on.   *)
EXTENDS DDCExecutor

FileSet == {Missing, <<"iq", "iq">>, <<"iq", "other">>, <<"other", "iq">>,
            <<"short", "iq">>, <<"iq", "cut">>}

(* Every combination of three files.                                       *)
AllStorages == [0..Files - 1 -> FileSet]

JobsOf(storages, kinds, defects) ==
  [storage : storages, kind : kinds, defect : defects]

IqFile == <<"iq", "iq">>

(* An intact recording, one with a hole in it, one that ends too early and *)
(* one whose first file is missing.                                        *)
SomeStorages ==
  { [f \in 0..Files - 1 |-> IqFile],
    [f \in 0..Files - 1 |-> IF f = 1 THEN Missing ELSE <<"iq", "other">>],
    [f \in 0..Files - 1 |-> IF f = 0 THEN IqFile ELSE Missing],
    [f \in 0..Files - 1 |-> IF f = 0 THEN Missing ELSE IqFile] }

(* A recording that ends before the request does.                          *)
ShortStorages == { [f \in 0..Files - 1 |-> IF f = 0 THEN IqFile ELSE Missing] }

(* Sound requests on every storage, the others on a few.                   *)
AllJobs == JobsOf(AllStorages, {"watch", "extract"}, {"none"})
           \cup JobsOf(SomeStorages, {"watch", "extract"}, {"negative", "narrow"})
           \cup JobsOf(SomeStorages, {"extract"}, {"filetype"})

ExtractJobs == JobsOf(SomeStorages, {"extract"}, {"none"})
ShortJobs == JobsOf(ShortStorages, {"extract"}, {"none"})
=============================================================================
