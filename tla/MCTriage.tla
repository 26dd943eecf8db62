------------------------------ MODULE MCTriage ------------------------------
(***************************************************************************)
(* Three projects, one for each way the frames of a stack are selected:    *)
(* declared roots, none, and roots that match nothing.  Bodies have a      *)
(* first line and up to three frames, one more than MaxFrames; frames come  *)
(* from two checkouts and two positions.  Of the runs, two have two        *)
(* failing jobs.                                                           *)
(***************************************************************************)
EXTENDS Triage

MCRootsOf == [declared |-> {"src"}, misdeclared |-> {"nosuch"}]

MCDirsIn == [own |-> {"src"}, cart |-> {"src"}, dep |-> {"vendor"}]

MCMark == [l12 |-> "", l34 |-> "", app |-> "", workspace |-> "", n7 |-> "N", n8 |-> "N"]

MCWords ==
  {"", "N", "unknown", "workflow:", "run:", "failed", "at", "own", "cart", "dep", "TypeError",
   "ECONNRESET", "ci", "deploy", "build", "test", "unit", "lint"} \cup DOMAIN MCMark

Firsts == {<<"TypeError">>, <<"failed", "n7">>, <<"failed", "n8">>, <<"ECONNRESET">>}

Frames == {<<"at", "own", "l12">>, <<"at", "own", "l34">>,
           <<"app", "cart", "l12">>, <<"at", "dep", "l12">>}

Stacks == UNION {[1..n -> Frames] : n \in 1..3}

Entry(text, message, stack, other) ==
  [text |-> text, message |-> message, stack |-> stack, other |-> other]

MCEntries ==
  {Entry(<<<<"TypeError">>>> \o s, <<>>, <<>>, <<>>) : s \in Stacks \cup {<<>>}}
    \cup {Entry(<<<<>>, f>>, <<>>, <<>>, <<>>) : f \in Firsts}
    \cup {Entry(<<>>, <<f>>, s, <<>>) : f \in Firsts, s \in [1..1 -> Frames] \cup {<<>>}}
    \cup {Entry(<<>>, <<>>, <<<<c, "cart", p>>>>, <<>>) :
            c \in {"app", "workspace"}, p \in {"l12", "l34"}}
    \cup {Entry(<<>>, <<>>, <<>>, o) : o \in {<<>>, <<"n7">>}}

Item(name, failed, steps) == [name |-> name, failed |-> failed, steps |-> steps]
Step(name, failed) == [name |-> name, failed |-> failed]

Build == Item(<<"build">>, FALSE, <<>>)

MCJobs == {<<>>,
           <<Item(<<"build">>, TRUE, <<>>)>>,
           <<Build, Item(<<"test", "n7">>, TRUE, <<Step(<<"unit">>, FALSE), Step(<<"lint">>, TRUE)>>)>>,
           <<Build, Item(<<"test", "n8">>, TRUE, <<Step(<<"unit">>, TRUE), Step(<<"lint">>, TRUE)>>)>>,
           <<Item(<<"build">>, TRUE, <<Step(<<"lint">>, TRUE)>>)>>,
           <<Item(<<"build">>, TRUE, <<>>), Item(<<"test", "n7">>, TRUE, <<Step(<<"unit">>, TRUE)>>)>>,
           <<Item(<<"build">>, TRUE, <<Step(<<"lint">>, TRUE)>>),
             Item(<<"test", "n8">>, TRUE, <<Step(<<"unit">>, FALSE), Step(<<"lint">>, TRUE)>>)>>}

MCRuns == {[id |-> id, workflow |-> w, commit |-> <<>>, jobs |-> j] :
             id \in {"n7", "n8"}, w \in {"ci", "deploy"}, j \in MCJobs}

MCIssues == {[title |-> <<"failed", "n7">>, body |-> b] : b \in {<<>>, <<<<"at", "own", "l12">>>>}}

(* The hypotheses of the theorems on groups, where they have any.          *)
ASSUME MCHypotheses == NoTitleIsALabel /\ PlainNames
=============================================================================
