\* A chunk that ends inside a character.
SPECIFICATION Spec
CONSTANTS
    Scripts <- FewScripts
    Calls = {0, 1}
INVARIANTS
    TextIntact
