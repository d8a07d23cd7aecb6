------------------------------ MODULE MCGateway ------------------------------
(* Hosts on which the commands meet a fresh machine, slots that hold one      *)
(* subscription twice, a stranger's container, gateways of an earlier setup   *)
(* with another key or an older image, and an import that was given up.       *)
EXTENDS Gateway

CONSTANTS i, j, k, other

Gateway1(key, img, running) == [maker |-> None, key |-> key, image |-> img, running |-> running]

Host(img, v1, v2, c1, c2) == [image |-> img, volume |-> <<v1, v2>>, container |-> <<c1, c2>>]

MCHosts ==
    {Host(0, "no volume", "no volume", NoContainer, NoContainer),
     Host(1, i, i, NoContainer, NoContainer),
     Host(1, i, "no volume", NoContainer, Foreign),
     Host(1, i, j, NoContainer, Gateway1(k, 1, TRUE)),
     Host(2, i, j, Gateway1(other, 2, FALSE), Gateway1(k, 1, TRUE)),
     Host(1, "empty", Cut, NoContainer, NoContainer)}

=============================================================================
