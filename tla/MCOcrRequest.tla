---------------------------- MODULE MCOcrRequest ----------------------------
(* Small pages.  Wide: three crops on two workers, which differ in width   *)
(* in every way the scheduler tells apart.  Tall: two pages of up to two   *)
(* crops of one band or two, one place wide or two, on three workers whose *)
(* threads may be refused.  Scarce: two workers whose buffers may be       *)
(* refused, so that the second page may begin with bands of the first.     *)
(* Recovering: three pages, of boxes that may not be usable, on a worker   *)
(* whose buffers may be refused: the page after the one with left-over     *)
(* bands is seen too.                                                      *)
EXTENDS OcrRequest

Shape(t, w, h) == [target_width |-> t, width |-> w, height |-> h]

Wide == [workers |-> 2, faults |-> {}, crops |-> 3, pages |-> 1,
         shapes |-> {Shape(1, 1, 1), Shape(2, 2, 1)}]
Tall(f) == [workers |-> 3, faults |-> f, crops |-> 2, pages |-> 2,
            shapes |-> {Shape(1, 2, 1), Shape(2, 1, 2)}]
Scarce == [workers |-> 2, faults |-> {"memory"}, crops |-> 2, pages |-> 2,
           shapes |-> {Shape(1, 1, 1), Shape(1, 2, 2)}]
Recovering == [workers |-> 1, faults |-> {"memory"}, crops |-> 2, pages |-> 3,
               shapes |-> {Shape(1, 1, 0), Shape(1, 1, 2)}]

MCSettings == {Wide, Scarce, Recovering} \cup {Tall(f) : f \in SUBSET {"threads"}}

(* Three crops and a pool that may be smaller than the three workers.      *)
ScarceThreads ==
  {[workers |-> 3, faults |-> {"threads"}, crops |-> 3, pages |-> 1,
    shapes |-> {Shape(1, 1, 1)}]}
=============================================================================
