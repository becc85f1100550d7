------------------------------ MODULE MCParts ------------------------------
(***************************************************************************)
(* Small instances, for TLC, of the parts of the library that keep to one  *)
(* object and do not interact: each behaviour exercises one of them, the   *)
(* others stay as they began.                                              *)
(***************************************************************************)
EXTENDS StreamBuffer, Generator, Result, HttpHead, Chunked, Conversions,
        Descriptors, Binding, TLC

VARIABLE part

MCMagic == <<"H">>
MCMaxText == ("request" :> 7) @@ ("response" :> 10) @@ ("headers" :> 6)

\* the state in which a part that is not exercised stays
Rest ==
    /\ part # "generator" => body = [yields |-> 0, throws |-> FALSE]
    /\ part # "head" => kind = "headers"
    /\ part # "chunks" => ~dec.consume_trailer
    /\ part # "conversions" => arg = <<"delay", 0>>

PInit ==
    /\ part \in {"buffer", "generator", "result", "head", "chunks", "conversions",
                 "descriptors", "binding"}
    /\ SInit /\ GInit /\ RInit /\ HInit /\ CInit /\ VInit /\ DInit /\ BInit
    /\ Rest

On(p, Step, others) == part = p /\ Step /\ UNCHANGED <<part, others>>

PNext ==
    \/ On("buffer", SNext, <<gvars, rvars, hvars, cvars, arg, dvars, bvars>>)
    \/ On("generator", GNext, <<svars, rvars, hvars, cvars, arg, dvars, bvars>>)
    \/ On("result", RNext, <<svars, gvars, hvars, cvars, arg, dvars, bvars>>)
    \/ On("head", Receive, <<svars, gvars, rvars, cvars, arg, dvars, bvars>>)
    \/ On("chunks", FeedSome, <<svars, gvars, rvars, hvars, arg, dvars, bvars>>)
    \/ On("descriptors", DNext, <<svars, gvars, rvars, hvars, cvars, arg, bvars>>)
    \/ On("binding", BNext, <<svars, gvars, rvars, hvars, cvars, arg, dvars>>)

PSpec == PInit /\ [][PNext]_<<part, svars, gvars, rvars, hvars, cvars, arg, dvars, bvars>>
=============================================================================
