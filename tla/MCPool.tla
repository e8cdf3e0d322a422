------------------------------- MODULE MCPool -------------------------------
(* PoolManager over two pools, the first of which may go away at any time,
   before it is first connected to included.                                *)
EXTENDS PoolManager

Lists == {<<"v1", "cn">>}
=============================================================================
