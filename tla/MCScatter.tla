------------------------------ MODULE MCScatter ------------------------------
(***************************************************************************)
(* Instances of Scatter for TLC.                                           *)
(***************************************************************************)
EXTENDS Scatter

\* Three items, two of them for peers of the same name.
Names == <<2, 1, 1>>
Names2 == <<2, 1>>

\* One exchange per branch of the decoding, and what scatter tells apart of them.
AllAnswers   == {Message("text"), Task(NoId, "working"), Task(NoId, "completed"),
                 Task(NoId, "failed"), RpcError, Malformed, Lost}
ThreeAnswers == {Message("text"), Task(NoId, "failed"), Lost}
TwoAnswers   == {Message("text"), Lost}

\* The peers that hang: none, one of them, as many as there are threads, all.
NoHang   == {{}}
SomeHang == {{}, {2}, {1, 2}, {1, 2, 3}}
===============================================================================
