-------------------------- MODULE MCKetamaSelector --------------------------
(* Three names with two points each, anywhere on a ring of four hashes.    *)
EXTENDS KetamaSelector

Named(host, alias) == [host |-> host, alias |-> alias]

MCHashings ==
    {[a |-> {0, 2}, b |-> p, c |-> q] :
       p \in {{0, 1}, {1, 3}, {0, 2}}, q \in {{0, 1}, {2, 3}, {1, 3}}}

\* A pool, the same with other hosts, a pool without aliases and its update,
\* one server, and none.
MCPools ==
    { <<Named("x", "a"), Named("y", "b"), Named("z", "c")>>,
      <<Named("x", "a"), Named("w", "b"), Named("w", "c")>>,
      <<Named("x", "b"), Named("y", "a"), Named("z", "c")>>,
      <<Named("a", NoAlias), Named("b", NoAlias)>>,
      <<Named("a", NoAlias), Named("c", NoAlias)>>,
      <<Named("a", NoAlias)>>, <<>> }
=============================================================================
