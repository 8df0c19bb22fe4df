------------------------------- MODULE MCMenu -------------------------------
(* A video with two resolutions, a track, and a post with one.              *)
EXTENDS Menu, TLC

CONSTANTS film, song, post

MCLadders == film :> <<"1080", "720">> @@ song :> <<>> @@ post :> <<"720">>
=============================================================================
