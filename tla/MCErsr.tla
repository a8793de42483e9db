------------------------------- MODULE MCErsr -------------------------------
(* A small instance of Ersr: the inputs the .cfg file assigns.             *)
EXTENDS Ersr

Rollout(correct, ends) == [correct |-> correct, splits |-> TRUE, ends |-> ends]
Unsplit == [correct |-> FALSE, splits |-> FALSE, ends |-> <<>>]
Question(rollout) == [dataset |-> "d", rollouts |-> <<rollout>>]
SciBenchQuestion(rollout) == [dataset |-> "SciBench", rollouts |-> <<rollout>>]

\* Correct and wrong rollouts of one to three steps, and one the splitter refuses.
Rollouts == {Rollout(TRUE, <<1, 2, 3>>), Rollout(FALSE, <<1, 2, 3>>),
             Rollout(FALSE, <<2, 3>>), Rollout(TRUE, <<3>>), Unsplit}

AllSeries ==
    <<<<"d", "student_action">>, <<"d", "teacher_replace">>, <<"SciBench", "teacher_replace">>>>

\* Two questions for the first model, three for the second, whose first case may
\* have the name of one of the first model's and whose other is of SciBench.
FewQuestions ==
    {<<<<Question(a), Question(b)>>,
       <<Question(Rollout(FALSE, <<2, 3>>)), Question(Rollout(TRUE, <<3>>)),
         SciBenchQuestion(Rollout(FALSE, <<2, 3>>))>>>> :
        a \in Rollouts, b \in Rollouts}
=============================================================================
