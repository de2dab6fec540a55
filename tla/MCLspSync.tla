------------------------------ MODULE MCLspSync ------------------------------
(* Small instances of LspSync. *)
EXTENDS LspSync

(* Two empty lines *)
Lines == {<<Newline>>}
(* A line of one letter *)
Letter == {<<"a">>}
(* A character of two columns in front of others *)
Typed == {Wide}

(* A server that was told to stop is gone, also when told so twice.  It need *)
(* not be: see ServerBack.  Checked by hand with lsp_stop.cfg.               *)
StopEnds == srv.state = "stopping" ~>
              srv.state # "stopping" \/ srv.run # "running"
=============================================================================
