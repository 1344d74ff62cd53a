---------------------------- MODULE MCUserLibrary ----------------------------
(***************************************************************************)
(* UserLibrary for TLC: what user programs pass, with pages of eight       *)
(* bytes.  The code is at 8 .. 15, the data at 16 .. 23.                   *)
(***************************************************************************)
EXTENDS UserLibrary

(* One byte, blocks of one, two and three pieces, one that starts in the    *)
(* code, one that ends in the page behind the data and one that wraps; then *)
(* one that ends behind that page, and all that is refused for another      *)
(* reason.                                                                  *)
Writes ==
  {<<1, 16, 1>>, <<1, 16, 8>>, <<1, 8, 9>>, <<1, 20, 5>>, <<1, 124, 8>>,
   <<1, 23, 10>>, <<1, NULL, 1>>, <<1, 16, 0>>, <<0, 16, 1>>, <<2, 16, 1>>}

(* Into the data, from the code into the data, one that wraps, and refused  *)
(* ones.                                                                    *)
Reads == {<<0, 16, 1>>, <<0, 14, 3>>, <<0, 120, 9>>, <<0, 4, 1>>, <<0, 16, -1>>}

(* perror(NULL) and perror("").                                             *)
Strings == {<<NULL, 0>>, <<16, 0>>}

(* The smallest and the largest int among them.                             *)
Ints == {-2147483647 - 1, 0, 305, 2147483647}
=============================================================================
