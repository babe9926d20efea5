----------------------------- MODULE MCCdcGroup -----------------------------
(* CdcGroup with two tables of the pipeline: one of two keys, one of one.    *)
EXTENDS CdcGroup, TLC

CONSTANTS orders, users,             \* tables
          o, p, u,                   \* keys of each
          absent, red, blue,         \* values
          nothing, unavailable

Tables      == {orders, users}
OwnRows     == {o, u}
OrderRows   == {o, p}
AllRows     == {o, p, u}
TableOf     == o :> orders @@ p :> orders @@ u :> users
TwoValues   == {absent, red}
ThreeValues == {absent, red, blue}
OrdersOnly  == {orders}
Unkept      == {"rekey", "truncate"}
Untold      == {"truncate", "toast"}
AllTold     == {}
=============================================================================
