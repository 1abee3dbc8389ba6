----------------------------- MODULE MCImageJobs -----------------------------
(* A small instance of ImageJobs. *)
EXTENDS ImageJobs

CONSTANTS j1, j2, c1, c2

MCUploads == {<<4, 40>>, <<20, 15>>}

\* Bounds.  Connections are used in order.  The second job is a plain one or a
\* re-roll, renders one image, and has a machine that stays up and awake.
Alone == rows[j2].status = "absent"
MCNext ==
  /\ ImageNext
  /\ phase'[c2] # "new" => phase[c1] # "new"
  /\ j2 \notin counted'
  /\ ~Alone' => /\ rows[j1].status # "absent" /\ wakeable /\ power' = "on"
                /\ rows'[j2].workflow = "img2img" => rows[j1].source
                /\ render'[j2].total < 2
=============================================================================
