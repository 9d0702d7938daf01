-------------------------- MODULE MCProviderProxy --------------------------
(* An instance of ProviderProxy for TLC.                                    *)
EXTENDS ProviderProxy

CONSTANTS c1, c2, c3

AnyRequest == [c \in Conn |-> Request]
=============================================================================
