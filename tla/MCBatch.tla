------------------------------ MODULE MCBatch ------------------------------
(* Three stages: a first one, one between two FIFOs and a last one.        *)
EXTENDS Batch

MCInputs == {<<"words", "empty", "blanks">>, <<"blanks">>}

\* Every method at every place, and an unknown one in the middle and at the end.
MCPipelines == {<<"AppendAndPrint", "Babble", "AddNewLine">>,
                <<"AddNewLine", "Unknown", "Babble">>,
                <<"Babble", "AddNewLine", "AppendAndPrint">>,
                <<"Babble", "AppendAndPrint", "Unknown">>}
=============================================================================
