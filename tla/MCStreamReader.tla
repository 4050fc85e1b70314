---------------------------- MODULE MCStreamReader ----------------------------
(***************************************************************************)
(* Small instances of the reader for TLC: with an owner that makes any     *)
(* calls in any order, and with the proxy's transfer for its owner.        *)
(***************************************************************************)
EXTENDS ProxyTransfer

\* Pieces of a multipart body: text, ends of lines and the line "--D".
Pieces == {<<"x">>, <<"cr", "lf">>, <<"cr", "lf", "-", "-">>,
           <<"cr", "lf", "-", "-", "D">>}
MCMessages == {FlattenSeq(ps) : ps \in SeqOf(Pieces, 3)}

\* Answers of a host: with a length or without, shorter and longer than a copy; no
\* answer; an answer without an end of its header.
Fields == {<<>>, <<"length">>, <<"field", "length">>}
MCAnswers ==
    {<<"status">> \o f \o <<"blank">> \o SubSeq(<<"1", "2", "3", "4", "5">>, 1, n) :
        f \in Fields, n \in {0, 2, 3, 4, 5}}
    \cup {<<"blank", "1">>, <<"status", "field">>}

MCInputs == MCMessages \cup MCAnswers
MCBytes == {"x", "cr", "lf", "-", "D", "status", "field", "length", "blank",
            "1", "2", "3", "4", "5"}
MCDelimiter == <<"D">>

AnyOwner ==
    /\ Init /\ sent \in MCMessages
    /\ turn = "none" /\ length = 0 /\ rest = 0 /\ chunk = <<>> /\ delivered = <<>>

MCInit == AnyOwner \/ (ProxyInit /\ sent \in MCAnswers)

MCNext ==
    \/ turn = "none" /\ Next /\ UNCHANGED owner
    \/ turn # "none" /\ ProxyNext

MCSpec == MCInit /\ [][MCNext]_pvars /\ WF_vars(TimedRecv \/ Local) /\ WF_pvars(OwnerStep)
=============================================================================
